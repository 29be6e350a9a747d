------------------------------- MODULE MCDag --------------------------------
(* Families of DAGs.  Without header rules (Wide): every DAG of six blocks, *)
(* in every order of hashes, one of them with as much work as three others.*)
(* With them: blocks in order of arrival, the first few on a chain, so that*)
(* blocks get as deep as the pruning depth, or on a fork, so that a long   *)
(* side chain can be merged; the others on any antichain of the permitted  *)
(* size, and virtual resolved at any time.                                 *)
EXTENDS HeaderRules

VARIABLE family   \* the parents of the first blocks, and the number of blocks

MCHashes == 1..8
BottomChain(n) == [h \in 1..n |-> {h - 1}]
Wide == [bottom |-> <<>>, count |-> 6]
Families == {Wide, [bottom |-> BottomChain(5), count |-> 8], [bottom |-> <<{0}, {1}, {1}>>, count |-> 7]}

MCWorks == {[h \in 0..8 |-> IF h = heavy THEN 3 ELSE 1] : heavy \in {1, 9}}
MCLevel == [h \in MCHashes |-> CASE h % 4 = 0 -> 2 [] h % 2 = 0 -> 1 [] OTHER -> 0]
MCTimestamp == [h \in MCHashes |-> (3 * h) % 5]

MCInit ==
  /\ family \in Families
  /\ RulesInit
  /\ work[1] = (IF family = Wide THEN 3 ELSE 1)

AnyBlock ==
  /\ family = Wide
  /\ \E h \in 1..family.count \ Blocks, ps \in Antichains : AddBlock(h, ps)
  /\ UNCHANGED <<ruleVars, family>>

NextHeader ==
  /\ family # Wide
  /\ LET h == Cardinality(Blocks)
     IN /\ h <= family.count
        /\ \E ps \in Antichains : /\ h \in DOMAIN family.bottom => ps = family.bottom[h]
                                  /\ ProcessHeader(h, ps)
  /\ UNCHANGED family

Resolve == family # Wide /\ ResolveVirtual /\ UNCHANGED family

MCNext == AnyBlock \/ NextHeader \/ Resolve

MCSpec == MCInit /\ [][MCNext]_<<vars, ruleVars, family>>
=============================================================================
