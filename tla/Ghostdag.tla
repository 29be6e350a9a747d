------------------------------ MODULE Ghostdag ------------------------------
(***************************************************************************)
(* GhostdagManager (processes/ghostdag): a DAG grows by one block at a     *)
(* time, with any antichain of known blocks as its parents, and each block *)
(* gets its GhostdagData by the code's algorithm.  Hashes are numbers, in  *)
(* the order of Hash, and blocks may arrive in any order of their hashes.  *)
(* is_dag_ancestor_of is taken from the true past of each block; that the  *)
(* reachability service answers so is the business of Reachability.        *)
(***************************************************************************)
EXTENDS Integers, Sequences, FiniteSets, SequencesExt

CONSTANTS Hashes,   \* block hashes other than genesis
          Genesis,
          K,        \* the GHOSTDAG parameter
          KBits,    \* the width of KType
          Works     \* assignments of calc_work(bits) to the headers

ASSUME KAssumption == K \in Nat /\ KBits \in Nat /\ K + 1 < 2 ^ KBits
ASSUME WorksAssumption == Works \subseteq [Hashes \cup {Genesis} -> Nat \ {0}]

VARIABLES parents,  \* the relations store
          work,     \* calc_work of each header's bits
          data,     \* the ghostdag store
          past      \* history: the ancestors of each block

vars == <<parents, work, data, past>>

Blocks == DOMAIN data
IsDagAncestorOf(a, b) == a = b \/ a \in past[b]

-----------------------------------------------------------------------------
(* Ordering and mergeset                                                   *)

\* SortableBlock::cmp
Less(a, b) ==
  \/ data[a].blue_work < data[b].blue_work
  \/ data[a].blue_work = data[b].blue_work /\ a < b

FindSelectedParent(ps) == CHOOSE p \in ps : \A q \in ps \ {p} : Less(q, p)

\* sort_blocks, by rank: a block's place is the number of blocks below it.
SortBlocks(S) == [i \in 1..Cardinality(S) |-> CHOOSE b \in S : Cardinality({c \in S : Less(c, b)}) = i - 1]

\* ordered_mergeset_without_selected_parent: the parents other than the
\* selected one, and what is reached from them outside of its past.
OrderedMergeset(sp, ps) ==
  LET RECURSIVE Visit(_)
      Visit(mergeset) ==
        LET next == {p \in UNION {parents[b] : b \in mergeset} \ mergeset : ~IsDagAncestorOf(p, sp)}
        IN IF next = {} THEN mergeset ELSE Visit(mergeset \cup next)
  IN SortBlocks(Visit(ps \ {sp}))

-----------------------------------------------------------------------------
(* Colouring                                                               *)

KType(n) == n % 2 ^ KBits

NewWithSelectedParent(sp) ==
  [selected_parent |-> sp, mergeset_blues |-> <<sp>>, mergeset_reds |-> <<>>,
   blues_anticone_sizes |-> (sp :> 0), blue_score |-> 0, blue_work |-> 0]

\* blue_anticone_size: the entry nearest to the top of the selected chain.
BlueAnticoneSize(block, context) ==
  LET RECURSIVE Lookup(_, _)
      Lookup(sizes, sp) ==
        IF block \in DOMAIN sizes THEN sizes[block]
        ELSE IF sp = Genesis THEN -1   \* the panic
        ELSE Lookup(data[sp].blues_anticone_sizes, data[sp].selected_parent)
  IN Lookup(context.blues_anticone_sizes, context.selected_parent)

\* One blue of a chain block against the candidate.
CheckBlue(st, block, new, candidate) ==
  IF st.state # "Pending" \/ IsDagAncestorOf(block, candidate) THEN st
  ELSE LET size == BlueAnticoneSize(block, new)
           count == KType(st.size + 1)
       IN [sizes |-> (block :> size) @@ st.sizes,
           size |-> count,
           state |-> IF count > K \/ size = K THEN "Red" ELSE "Pending"]

\* Bug: the shortcut does not count the selected parent among the blues.
BugShortcut(new, candidate) ==
  LET RECURSIVE Walk(_, _)
      Walk(chain, st) ==
        LET next(after) == IF after.state = "Red" THEN after
                           ELSE IF IsDagAncestorOf(chain.selected_parent, candidate)
                                THEN [after EXCEPT !.state = "Blue"]
                                ELSE Walk(data[chain.selected_parent], after)
        IN next(FoldLeft(LAMBDA s, b : CheckBlue(s, b, new, candidate), st, chain.mergeset_blues))
      start == [state |-> "Pending", size |-> 0, sizes |-> <<>>]
  IN IF Len(new.mergeset_blues) = K THEN [start EXCEPT !.state = "Red"]
     ELSE Walk(new, start)

\* check_blue_candidate: down the selected chain from the new block.  The
\* chain block itself is the selected parent of the one visited before.
CheckBlueCandidate(new, candidate) ==
  LET RECURSIVE Walk(_, _)
      Walk(chain, st) ==
        LET next(after) == IF after.state = "Red" THEN after
                           ELSE IF IsDagAncestorOf(chain.selected_parent, candidate)
                                THEN [after EXCEPT !.state = "Blue"]
                                ELSE Walk(data[chain.selected_parent], after)
        IN next(FoldLeft(LAMBDA s, b : CheckBlue(s, b, new, candidate), st, chain.mergeset_blues))
      start == [state |-> "Pending", size |-> 0, sizes |-> <<>>]
  IN IF Len(new.mergeset_blues) = K + 1 THEN [start EXCEPT !.state = "Red"]
     ELSE Walk(new, start)

AddBlue(new, block, st) ==
  [new EXCEPT
     !.mergeset_blues = Append(@, block),
     !.blues_anticone_sizes = [b \in DOMAIN st.sizes |-> st.sizes[b] + 1] @@ (block :> st.size) @@ @]

AddRed(new, block) == [new EXCEPT !.mergeset_reds = Append(@, block)]

\* ghostdag
GhostdagData(ps) ==
  LET sp == FindSelectedParent(ps)
      Add(new, block, st) == IF st.state = "Blue" THEN AddBlue(new, block, st) ELSE AddRed(new, block)
      Colour(new, block) == Add(new, block, CheckBlueCandidate(new, block))
      Finalize(new) ==
        [new EXCEPT
           !.blue_score = data[sp].blue_score + Len(new.mergeset_blues),
           !.blue_work = data[sp].blue_work + FoldLeft(LAMBDA sum, b : sum + work[b], 0, new.mergeset_blues)]
  IN Finalize(FoldLeft(Colour, NewWithSelectedParent(sp), OrderedMergeset(sp, ps)))

-----------------------------------------------------------------------------
\* genesis_ghostdag_data
GenesisData ==
  [selected_parent |-> Genesis, mergeset_blues |-> <<>>, mergeset_reds |-> <<>>,
   blues_anticone_sizes |-> <<>>, blue_score |-> 0, blue_work |-> 0]

Init ==
  /\ parents = (Genesis :> {})
  /\ work \in Works
  /\ data = (Genesis :> GenesisData)
  /\ past = (Genesis :> {})

\* check_block_parents_incest admits antichains only.
Antichains == {ps \in SUBSET Blocks \ {{}} : \A p \in ps : past[p] \cap ps = {}}

InsertBlock(h, ps, gd) ==
  /\ parents' = (h :> ps) @@ parents
  /\ data' = (h :> gd) @@ data
  /\ past' = (h :> ps \cup UNION {past[p] : p \in ps}) @@ past
  /\ UNCHANGED work

AddBlock(h, ps) == InsertBlock(h, ps, GhostdagData(ps))

Next == \E h \in Hashes \ Blocks, ps \in Antichains : AddBlock(h, ps)

Spec == Init /\ [][Next]_vars
-----------------------------------------------------------------------------
Chain(b) ==
  LET RECURSIVE Down(_)
      Down(c) == IF c = Genesis THEN {c} ELSE {c} \cup Down(data[c].selected_parent)
  IN Down(b)

\* All blocks that are blue from the point of view of b.
BlueSet(b) == UNION {Range(data[c].mergeset_blues) : c \in Chain(b)}

Anticone(a) == {b \in Blocks : a # b /\ a \notin past[b] /\ b \notin past[a]}

(* The blues of every block form a k-cluster: each has at most K other     *)
(* blues in its anticone, although a candidate is compared only with the   *)
(* part of the blue set that the walk down the chain visits; and the       *)
(* anticone sizes found through the partial maps along the chain are the   *)
(* true ones, so updating only the affected blues is enough.               *)
KCluster ==
  \A b \in Blocks \ {Genesis} : \A x \in BlueSet(b) :
    LET size == Cardinality(Anticone(x) \cap BlueSet(b))
    IN size <= K /\ BlueAnticoneSize(x, data[b]) = size

(* The colouring is the greedy one of the definition: a mergeset block is  *)
(* red only if, at its turn, it would break the k-cluster of the blues     *)
(* chosen so far.  In particular the shortcut at K + 1 blues and the early *)
(* stop of the walk lose no blue.                                          *)
RedsJustified ==
  \A b \in Blocks \ {Genesis} : \A red \in Range(data[b].mergeset_reds) :
    LET before == {x \in BlueSet(b) : x = data[b].selected_parent
                                      \/ x \in BlueSet(data[b].selected_parent)
                                      \/ Less(x, red)}
        cluster == before \cup {red}
    IN \E x \in cluster : Cardinality(Anticone(x) \cap cluster) > K

(* Blues and reds are together what the block merges: its past outside of  *)
(* the past of its selected parent, each once; and blue work grows along   *)
(* every edge of the DAG, not only along the chain, so that sorting by it  *)
(* is a topological order, as consensus_ordered_mergeset assumes.          *)
MergesetExact ==
  \A b \in Blocks \ {Genesis} :
    LET d == data[b]
        merged == d.mergeset_blues \o d.mergeset_reds
    IN /\ Range(merged) = past[b] \ past[d.selected_parent]
       /\ Len(merged) = Cardinality(Range(merged))
       /\ \A p \in past[b] : data[p].blue_work < d.blue_work

(* ghostdag finds what each block merges and colours it as its definition   *)
(* says, although it looks at a part of the DAG only.                       *)
ColoringExact == MergesetExact /\ KCluster /\ RedsJustified
=============================================================================
