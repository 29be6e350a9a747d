----------------------------- MODULE RpcConvert -----------------------------
(***************************************************************************)
(* How blocks, responses and notifications travel: consensus types to and  *)
(* from the types of rpc_core (rpc/core/src/convert) and from there to and *)
(* from protobuf messages (rpc/grpc/src/convert, rpc/grpc/src/ext).  Bytes *)
(* become text of two digits each, integers are widened and narrowed, and  *)
(* Header::new and Transaction::new compute hash and id again.             *)
(*                                                                         *)
(* A conversion that may fail gives <<>> or <<result>>.  A hash and a      *)
(* subnetwork id are one byte.  A character is a digit below DIGIT, the    *)
(* upper-case form of one of the last LETTERS digits, or none (the codes   *)
(* from DIGIT + LETTERS on).                                               *)
(***************************************************************************)
EXTENDS TxHashing

CONSTANTS DIGIT,   \* digits of a text, 16 in the code
          LETTERS, \* how many of them are letters, 6 in the code
          U8, U16, \* 2^8, 2^16
          I64      \* 2^63

BW == INSTANCE Uint WITH W <- 2, LIMBS <- 2, ByteBits <- 2, Ten <- 2   \* BlueWorkType

\* All or nothing, over the elements of a sequence or the fields of a record.
Collect(options) ==
  IF \E f \in DOMAIN options : options[f] = <<>> THEN <<>>
  ELSE <<[f \in DOMAIN options |-> options[f][1]]>>
Map(seq, f(_)) == [i \in DOMAIN seq |-> f(seq[i])]

BugNarrow(n, width) == <<n % width>>   \* `as` instead of try_into
Narrow(n, width) == IF n \in 0..width - 1 THEN <<n>> ELSE <<>>
-----------------------------------------------------------------------------
(* Text                                                                    *)

hex_encode(bytes) == FlattenSeq(Map(bytes, LAMBDA b : <<b \div DIGIT, b % DIGIT>>))
AllDigits(text) == \A k \in DOMAIN text : text[k] < DIGIT + LETTERS
DigitOf(char) == IF char < DIGIT THEN char ELSE char - LETTERS

\* faster_hex::hex_decode into size bytes: what follows them is not read.
hex_decode(text, size) ==
  IF Len(text) < 2 * size \/ Len(text) % 2 = 1 \/ ~AllDigits(text) THEN <<>>
  ELSE <<[k \in 1..size |-> DigitOf(text[2 * k - 1]) * DIGIT + DigitOf(text[2 * k])]>>

to_rpc_hex(bytes) == IF bytes = <<>> THEN <<>> ELSE hex_encode(bytes)
from_rpc_hex(text) == IF text = <<>> THEN <<<<>>>> ELSE hex_decode(text, Len(text) \div 2)

\* Hash and SubnetworkId: Display and FromStr.
hash_to_string(byte) == hex_encode(<<byte>>)
hash_from_str(text) == LET bytes == hex_decode(text, 1) IN IF bytes = <<>> THEN <<>> ELSE <<bytes[1][1]>>

blue_work_from_rpc_hex(text) == IF ~AllDigits(text) THEN <<>> ELSE BW!from_hex(Map(text, DigitOf))
-----------------------------------------------------------------------------
(* Consensus types: the hash of a header and the id of a transaction are    *)
(* cached in them.                                                         *)

HeaderFields == {"version", "parents_by_level", "hash_merkle_root", "accepted_id_merkle_root", "utxo_commitment",
                 "timestamp", "bits", "nonce", "daa_score", "blue_work", "blue_score", "pruning_point"}
TxFields == {"version", "inputs", "outputs", "lock_time", "subnetwork_id", "gas", "payload"}
HeaderNew(h) ==
  [f \in HeaderFields \union {"hash"} |->
     IF f = "hash" THEN header_hash([h EXCEPT !.blue_work = BW!to_be_bytes(@)]) ELSE h[f]]
TransactionNew(tx) == [f \in TxFields \union {"id"} |-> IF f = "id" THEN id(tx) ELSE tx[f]]

\* To rpc_core: verbose data is never filled in; a header is the same type.
WithoutVerbose(fields, item) == [f \in fields \union {"verbose_data"} |-> IF f = "verbose_data" THEN <<>> ELSE item[f]]
InputFields == {"previous_outpoint", "signature_script", "sequence", "sig_op_count"}
OutputFields == {"value", "script_public_key"}
RpcTransactionFrom(tx) ==
  [WithoutVerbose(TxFields, tx) EXCEPT !.inputs = Map(@, LAMBDA i : WithoutVerbose(InputFields, i)),
                                       !.outputs = Map(@, LAMBDA o : WithoutVerbose(OutputFields, o))]
RpcBlockFrom(b) == [header |-> b.header, transactions |-> Map(b.transactions, RpcTransactionFrom), verbose_data |-> <<>>]

\* And back: the verbose data is dropped.
Only(fields, item) == [f \in fields |-> item[f]]
TransactionFromRpc(tx) ==
  TransactionNew([Only(TxFields, tx) EXCEPT !.inputs = Map(@, LAMBDA i : Only(InputFields, i)),
                                            !.outputs = Map(@, LAMBDA o : Only(OutputFields, o))])
BlockFromRpc(b) == [header |-> b.header, transactions |-> Map(b.transactions, TransactionFromRpc)]
-----------------------------------------------------------------------------
(* rpc_core to protobuf.  The fields that hold hashes or lists of them      *)
(* become text; a timestamp beyond I64 panics, given as <<>>.               *)

HashFields == {"hash_merkle_root", "accepted_id_merkle_root", "utxo_commitment", "pruning_point", "hash",
               "selected_parent_hash", "transaction_id", "block_hash"}
ListFields == {"transaction_ids", "children_hashes", "merge_set_blues_hashes", "merge_set_reds_hashes"}
Option(o, f(_)) == IF o = <<>> THEN <<>> ELSE <<f(o[1])>>

\* Verbose data of blocks, transactions, inputs and outputs.
VerboseToProto(v) ==
  [f \in DOMAIN v |-> IF f \in HashFields THEN hash_to_string(v[f]) ELSE IF f \in ListFields THEN Map(v[f], hash_to_string) ELSE v[f]]

HeaderToProto(h) ==
  IF h.timestamp >= I64 THEN <<>>
  ELSE <<[f \in HeaderFields |-> CASE f \in HashFields -> hash_to_string(h[f])
                                   [] f = "parents_by_level" -> Map(h[f], LAMBDA level : Map(level, hash_to_string))
                                   [] f = "blue_work" -> BW!LowerHex(h[f])
                                   [] OTHER -> h[f]]>>

SpkToProto(spk) == [version |-> spk.version, script |-> to_rpc_hex(spk.script)]
InputToProto(i) ==
  [i EXCEPT !.previous_outpoint = <<[transaction_id |-> hash_to_string(@.transaction_id), index |-> @.index]>>,
            !.signature_script = to_rpc_hex(@), !.verbose_data = Option(@, VerboseToProto)]
OutputToProto(o) ==
  [o EXCEPT !.script_public_key = <<SpkToProto(@)>>, !.verbose_data = Option(@, VerboseToProto)]
TxToProto(tx) ==
  [tx EXCEPT !.inputs = Map(@, InputToProto), !.outputs = Map(@, OutputToProto), !.subnetwork_id = hash_to_string(@),
             !.payload = to_rpc_hex(@), !.verbose_data = Option(@, VerboseToProto)]
BlockToProto(b) ==
  LET h == HeaderToProto(b.header)
  IN IF h = <<>> THEN <<>>
     ELSE <<[header |-> h, transactions |-> Map(b.transactions, TxToProto), verbose_data |-> Option(b.verbose_data, VerboseToProto)]>>
-----------------------------------------------------------------------------
(* Protobuf to rpc_core: the texts are read, the integers narrowed, and     *)
(* nothing may be missing.                                                  *)

CollectAll(seq, f(_)) == Collect(Map(seq, f))
Required(o, f(_)) == IF o = <<>> THEN <<>> ELSE f(o[1])
Transpose(o, f(_)) == IF o = <<>> THEN <<<<>>>> ELSE LET r == f(o[1]) IN IF r = <<>> THEN <<>> ELSE <<r>>

script_classes == {"nonstandard", "pubkey", "pubkeyecdsa", "scripthash"}
VerboseFromProto(v) ==
  Collect([f \in DOMAIN v |-> CASE f \in HashFields -> hash_from_str(v[f])
                                [] f \in ListFields -> CollectAll(v[f], hash_from_str)
                                [] f = "script_public_key_type" -> IF v[f] \in script_classes THEN <<v[f]>> ELSE <<>>
                                [] OTHER -> <<v[f]>>])

HeaderFromProto(h) ==
  LET fields == Collect([f \in HeaderFields |->
                           CASE f \in HashFields -> hash_from_str(h[f])
                             [] f = "parents_by_level" -> CollectAll(h[f], LAMBDA level : CollectAll(level, hash_from_str))
                             [] f = "blue_work" -> blue_work_from_rpc_hex(h[f])
                             [] f = "version" -> Narrow(h[f], U16)
                             [] f = "timestamp" -> Narrow(h[f], I64)
                             [] OTHER -> <<h[f]>>])
  IN Option(fields, HeaderNew)

SpkFromProto(spk) == Collect([version |-> Narrow(spk.version, U16), script |-> from_rpc_hex(spk.script)])
OutpointFromProto(o) == Collect([transaction_id |-> hash_from_str(o.transaction_id), index |-> <<o.index>>])
InputFromProto(i) ==
  Collect([previous_outpoint |-> Required(i.previous_outpoint, OutpointFromProto), sequence |-> <<i.sequence>>,
           signature_script |-> from_rpc_hex(i.signature_script), sig_op_count |-> Narrow(i.sig_op_count, U8),
           verbose_data |-> Transpose(i.verbose_data, VerboseFromProto)])
OutputFromProto(o) ==
  Collect([value |-> <<o.value>>, script_public_key |-> Required(o.script_public_key, SpkFromProto),
           verbose_data |-> Transpose(o.verbose_data, VerboseFromProto)])
TxFromProto(tx) ==
  Collect([version |-> Narrow(tx.version, U16), inputs |-> CollectAll(tx.inputs, InputFromProto),
           outputs |-> CollectAll(tx.outputs, OutputFromProto), lock_time |-> <<tx.lock_time>>,
           subnetwork_id |-> hash_from_str(tx.subnetwork_id), gas |-> <<tx.gas>>, payload |-> from_rpc_hex(tx.payload),
           verbose_data |-> Transpose(tx.verbose_data, VerboseFromProto)])
BlockFromProto(b) ==
  Collect([header |-> Required(b.header, HeaderFromProto), transactions |-> CollectAll(b.transactions, TxFromProto),
           verbose_data |-> Transpose(b.verbose_data, VerboseFromProto)])
-----------------------------------------------------------------------------
(* Responses, wrapped in the variant of their operation, and the request to *)
(* submit a block.  The message of an error is left out.                    *)

Ok(value) == [is |-> "Ok", value |-> value]
Err == [is |-> "Err"]
ErrorOf(result) == IF result = Err THEN <<"error">> ELSE <<>>
ToResult(o) == IF o = <<>> THEN Err ELSE Ok(o[1])

RejectReason(report) == IF report = "Success" THEN "None" ELSE report
ReportOf(reason) ==
  IF reason = "None" THEN Ok("Success") ELSE IF reason \in {"BlockInvalid", "IsInIBD"} THEN Ok(reason) ELSE Err

BlockOf(result) == IF result = Err THEN <<>> ELSE BlockToProto(result.value.block)
SubmitBlockToProto(result) ==
  [reject_reason |-> IF result = Err THEN "None" ELSE RejectReason(result.value), error |-> ErrorOf(result)]
GetBlockTemplateToProto(result) ==
  [block |-> BlockOf(result), is_synced |-> result # Err /\ result.value.is_synced, error |-> ErrorOf(result)]
GetBlockToProto(result) == [block |-> BlockOf(result), error |-> ErrorOf(result)]
GetInfoToProto(result) ==
  [has_notify_command |-> result # Err /\ result.value.has_notify_command, error |-> ErrorOf(result)]
NotifyToProto(result) == [error |-> ErrorOf(result)]

ResponseToProto(op, result) ==
  [variant |-> op,
   message |-> CASE op = "SubmitBlock" -> SubmitBlockToProto(result)
                 [] op = "GetBlockTemplate" -> GetBlockTemplateToProto(result)
                 [] op = "GetBlock" -> GetBlockToProto(result)
                 [] op = "GetInfo" -> GetInfoToProto(result)
                 [] op \in {"NotifyBlockAdded", "NotifyNewBlockTemplate"} -> NotifyToProto(result)]

\* The error is not looked at.
SubmitBlockFromProto(m) == ReportOf(m.reject_reason)
\* A missing block is an error, whether or not one is stated.
ReadBlock(m) == ToResult(Required(m.block, BlockFromProto))
GetBlockTemplateFromProto(m) ==
  IF ReadBlock(m) = Err THEN Err ELSE Ok([block |-> ReadBlock(m).value, is_synced |-> m.is_synced])
GetBlockFromProto(m) == IF ReadBlock(m) = Err THEN Err ELSE Ok([block |-> ReadBlock(m).value])
GetInfoFromProto(m) == IF m.error # <<>> THEN Err ELSE Ok([has_notify_command |-> m.has_notify_command])
NotifyFromProto(m) == IF m.error # <<>> THEN Err ELSE Ok("done")

ResponseFromProto(op, response) ==
  LET m == response.message
  IN IF response.variant # op THEN Err
     ELSE CASE op = "SubmitBlock" -> SubmitBlockFromProto(m)
            [] op = "GetBlockTemplate" -> GetBlockTemplateFromProto(m)
            [] op = "GetBlock" -> GetBlockFromProto(m)
            [] op = "GetInfo" -> GetInfoFromProto(m)
            [] op \in {"NotifyBlockAdded", "NotifyNewBlockTemplate"} -> NotifyFromProto(m)

SubmitBlockRequestToProto(q) == [block |-> BlockToProto(q.block), allow_non_daa_blocks |-> q.allow_non_daa_blocks]
SubmitBlockRequestFromProto(m) ==
  Collect([block |-> Required(m.block, BlockFromProto), allow_non_daa_blocks |-> <<m.allow_non_daa_blocks>>])
-----------------------------------------------------------------------------
(* Subscriptions and notifications                                          *)

from_notification_type(type, command) ==
  [op |-> IF type = "NewBlockTemplate" THEN "NotifyNewBlockTemplate" ELSE "NotifyBlockAdded",
   command |-> IF command = "Stop" THEN 1 ELSE 0]
SubscribeCommandFrom(i) == IF i = 1 THEN "Stop" ELSE "Start"

\* Of consensus to rpc_core, and to protobuf; the other types are not
\* implemented.
NotificationFrom(n) ==
  IF n.type = "BlockAdded" THEN [type |-> n.type, block |-> RpcBlockFrom(n.block)] ELSE [type |-> n.type]
NotificationToProto(n) ==
  IF n.type = "BlockAdded" THEN [variant |-> "BlockAddedNotification", message |-> [block |-> BlockToProto(n.block)]]
  ELSE [variant |-> "NewBlockTemplateNotification", message |-> [error |-> <<>>]]

is_notification(response) == response.variant = "BlockAddedNotification"
NotificationFromProto(response) ==
  IF ~is_notification(response) THEN <<>>
  ELSE Collect([type |-> <<"BlockAdded">>, block |-> Required(response.message.block, BlockFromProto)])
=============================================================================
