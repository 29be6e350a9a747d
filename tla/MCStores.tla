------------------------------ MODULE MCStores ------------------------------
(***************************************************************************)
(* What the node keeps on disk, on two machines; a behaviour is of one of  *)
(* them.  "storage" is Storage: two blocks on genesis and one that merges  *)
(* them; all are fine, or some fail in one of the stages.  "utxo" is       *)
(* VirtualUtxo: six blocks in three shapes, a fork that is merged, a fork  *)
(* that is reorganised away, and a fork at genesis whose branches have     *)
(* coinbases with the same id.  "pay" and "steal" spend the same coinbase  *)
(* output and "move" spends the output of "pay".                           *)
(***************************************************************************)
EXTENDS Storage

MCBlocks == 1..3
MCParents == <<{0}, {0}, {1, 2}>>
MCCacheSize == [s \in {"statuses"} |-> 1]
MCReadKeys == {<<"statuses", 1>>, <<"reachability", Item>>}
MCBads == {NoWrites, 2 :> "header", (1 :> "utxo") ++ (2 :> "body")}
-----------------------------------------------------------------------------
MCCoinbase == {<<"coinbase", k>> : k \in 2..6}
MCOutpoints == MCCoinbase \cup {<<"pay", 1>>, <<"move", 1>>}
MCScores == 0..6
Maturity == 1

MCTxs == {"pay", "steal", "move"}

MCInputs(t) == IF t = "move" THEN {<<"pay", 1>>} ELSE {<<"coinbase", 2>>}

MCOutputs(t) == IF t = "steal" THEN {} ELSE {<<t, 1>>}

Merged == <<{0}, {1}, {2}, {3}, {3}, {4, 5}>>
Reorg  == <<{0}, {1}, {2}, {3}, {3}, {5}>>
Apart  == <<{0}, {0}, {1}, {2}, {3, 4}, {5}>>

Shapes ==
    ({Merged, Reorg} \X {<<0, 1, 2, 3, 4, 5, 6>>, <<0, 1, 2, 3, 5, 4, 6>>})
    \cup ({Apart} \X {<<0, 1, 2, 3, 4, 5, 6>>, <<0, 1, 3, 2, 4, 5, 6>>})

MCScenarios ==
    {[order |-> shape[2],
      block |-> [b \in 0..6 |->
          IF b = 0 THEN [parents |-> {}, txs |-> {}, honest |-> TRUE]
          ELSE [parents |-> shape[1][b],
                txs     |-> IF b = 4 THEN fork[1] ELSE IF b = 5 THEN fork[2] ELSE IF b = 6 THEN last[1] ELSE {},
                honest  |-> b # last[2]]]] :
     shape \in Shapes,
     fork \in {<<{}, {"pay"}>>, <<{"pay"}, {"pay"}>>, <<{"pay"}, {"steal"}>>},
     last \in {<<{"steal"}, 0>>, <<{"move"}, 0>>, <<{"steal"}, 5>>}}

\* Scenarios are whole, and their values in the given sets.
ASSUME ScenariosAssumption ==
  /\ \A s \in MCScenarios : /\ {s.order[i] : i \in DOMAIN s.order} = DOMAIN s.block
                            /\ \A i \in DOMAIN s.order : i - 1 \in MCScores
  /\ \A t \in MCTxs : MCInputs(t) \cup MCOutputs(t) \subseteq MCOutpoints
-----------------------------------------------------------------------------
VARIABLES machine,
          block, order, truth, status, diffs, sets, utxoSet, virtual, task, queued, restarts, panicked

utxovars == <<block, order, truth, status, diffs, sets, utxoSet, virtual, task, queued, restarts, panicked>>

V == INSTANCE VirtualUtxo WITH Scenarios <- MCScenarios, Outpoints <- MCOutpoints, Scores <- MCScores, Txs <- MCTxs,
       TxInputs <- MCInputs, TxOutputs <- MCOutputs, CoinbaseOutpoints <- MCCoinbase, CoinbaseMaturity <- Maturity,
       crashes <- restarts

MCInit ==
  \/ /\ machine = "storage" /\ Init
     /\ block = None /\ order = None /\ truth = None /\ status = None /\ diffs = None /\ sets = None
     /\ utxoSet = None /\ virtual = None /\ task = None /\ queued = None /\ restarts = None /\ panicked = None
  \/ machine = "utxo" /\ V!Init /\ Init /\ bad = NoWrites

MCNext ==
  \/ machine = "storage" /\ Next /\ UNCHANGED <<machine, utxovars>>
  \/ machine = "utxo" /\ V!Next /\ UNCHANGED <<machine, vars>>

MCSpec == MCInit /\ [][MCNext]_<<machine, vars, utxovars>>

(* No unwrap or panic of the virtual processor is met: V!NeverPanics.       *)
NeverPanics == machine = "utxo" => V!NeverPanics

(* The UTXO set on disk is what replaying the selected chain gives, after   *)
(* any reorganisation and restart: V!UtxoSetExact.                          *)
UtxoSetExact == machine = "utxo" => V!UtxoSetExact

(* The verdicts on blocks depend on the blocks alone: V!VerdictsExact.      *)
VerdictsExact == machine = "utxo" => V!VerdictsExact
=============================================================================
