---------------------------- MODULE Reachability ----------------------------
(***************************************************************************)
(* The reachability index of consensus/src/processes/reachability: a tree  *)
(* of selected parents whose nodes carry nested integer intervals, and a   *)
(* future covering set per block for the part of the DAG the tree misses.  *)
(* "Is x in the past of y" is answered from intervals alone, so every      *)
(* reallocation of intervals (reindexing) must keep all of them nested.    *)
(*                                                                         *)
(* A header is added under the upgradable lock of the store, so adding a   *)
(* block, reindexing and moving the reindex root are one step.             *)
(*                                                                         *)
(* Blocks are numbered in the order they are added: Origin is the virtual  *)
(* root and block 1 is genesis.  The capacity, depth and slack are         *)
(* parameters, as in the unit tests of the source; in production they are  *)
(* 2^64 - 2, 100 and 2^12.                                                 *)
(***************************************************************************)
EXTENDS Integers, Sequences, FiniteSets, SequencesExt

CONSTANTS NBlocks,      \* blocks that can be added (genesis included)
          MaxParents,   \* parents a block can have
          Capacity,     \* the interval of Origin is 1..Capacity
          Depth,        \* reindex_depth
          Slack         \* reindex_slack

VARIABLES store,  \* the reachability store
          past,   \* past[b]: the true past of b (not kept by the code)
          tip     \* the header selected tip

vars == <<store, past, tip>>

Origin  == 0
Genesis == 1
NoBlock == -1   \* blockhash::NONE, and an unsuccessful search

----------------------------------------------------------------------------
(* interval.rs *)

Interval(s, e) == [start |-> s, end |-> e]

\* What the constructor asserts.
Legal(i) == i.start > 0 /\ i.end >= i.start - 1

Size(i) == (i.end + 1) - i.start

Encloses(i, j) == i.start <= j.start /\ j.end <= i.end

StrictlyEncloses(i, j) == i.start <= j.start /\ j.end < i.end

DecreaseEnd(i, n) == Interval(i.start, i.end - n)

\* The left part is rounded up.
SplitHalf(i) == Interval(i.start, i.start + ((Size(i) + 1) \div 2) - 1)

SumTo(sizes, k) == FoldLeft(LAMBDA x, y : x + y, 0, SubSeq(sizes, 1, k))

SplitExact(i, sizes) ==
    [k \in DOMAIN sizes |->
        Interval(i.start + SumTo(sizes, k - 1), i.start + SumTo(sizes, k) - 1)]

\* Every part gets its size and a share of the rest that grows as 2^size,
\* rounded; the last part takes what is left.  given[k] is what the first k
\* parts get on top of their sizes.
SplitExponential(i, sizes) ==
    LET n        == Len(sizes)
        bias     == Size(i) - SumTo(sizes, n)
        weights  == [k \in 1..n |-> 2^sizes[k]]
        whole    == SumTo(weights, n)
        share(k) == (2 * bias * weights[k] + whole) \div (2 * whole)
        given[k \in 0..n] ==
            IF k = 0 THEN 0
            ELSE IF k = n THEN bias
            ELSE Min({bias, given[k - 1] + share(k)})
    IN  SplitExact(i, [k \in 1..n |-> sizes[k] + given[k] - given[k - 1]])

----------------------------------------------------------------------------
(* The store.  fault records that an operation returned an error or failed *)
(* an assertion: the header processor unwraps every result.                *)

Known(s) == DOMAIN s.interval

SetInterval(s, b, i) ==
    [s EXCEPT !.interval[b] = i, !.fault = @ \/ ~Legal(i)]

Fail(s, failed) == [s EXCEPT !.fault = @ \/ failed]

\* append_child of the parent, then insert of the block.
Insert(s, b, p, i) ==
    LET kids == [s.children EXCEPT ![p] = Append(@, b)]
        At(f, v) == [x \in Known(s) \cup {b} |-> IF x = b THEN v ELSE f[x]]
    IN  [interval |-> At(s.interval, i),
         parent   |-> At(s.parent, p),
         height   |-> At(s.height, s.height[p] + 1),
         children |-> At(kids, <<>>),
         fcs      |-> At(s.fcs, <<>>),
         root     |-> s.root,
         fault    |-> s.fault]

ChildrenCapacity(s, b) == DecreaseEnd(s.interval[b], 1)

RemainingBefore(s, b) ==
    LET capacity == ChildrenCapacity(s, b)
    IN  IF s.children[b] = <<>> THEN capacity
        ELSE Interval(capacity.start, s.interval[Head(s.children[b])].start - 1)

RemainingAfter(s, b) ==
    LET capacity == ChildrenCapacity(s, b)
    IN  IF s.children[b] = <<>> THEN capacity
        ELSE Interval(s.interval[Last(s.children[b])].end + 1, capacity.end)

----------------------------------------------------------------------------
(* inquirer.rs: the queries *)

IsStrictChainAncestorOf(s, x, y) == StrictlyEncloses(s.interval[x], s.interval[y])

IsChainAncestorOf(s, x, y) == Encloses(s.interval[x], s.interval[y])

\* assert_hashes_ordered
HashesOrdered(s, seq) ==
    \A k \in 1..(Len(seq) - 1) : s.interval[seq[k]].end < s.interval[seq[k + 1]].start

\* Mutant: the candidate is not checked to contain the descendant.
BugBinarySearch(s, seq, descendant) ==
    LET i == Cardinality({k \in DOMAIN seq :
                 s.interval[seq[k]].start <= s.interval[descendant].end})
    IN  [block |-> IF i > 0 THEN seq[i] ELSE NoBlock, at |-> i]

\* The binary search for the only element of seq that can contain the end of
\* the descendant's interval: the element, or NoBlock, and the position.
BinarySearchDescendant(s, seq, descendant) ==
    LET point == s.interval[descendant].end
        i     == Cardinality({k \in DOMAIN seq : s.interval[seq[k]].start <= point})
        found == /\ i > 0
                 /\ \/ s.interval[seq[i]].start = point
                    \/ IsChainAncestorOf(s, seq[i], descendant)
    IN  [block |-> IF found THEN seq[i] ELSE NoBlock, at |-> i]

IsDagAncestorOf(s, x, y) ==
    \/ IsChainAncestorOf(s, x, y)
    \/ BinarySearchDescendant(s, s.fcs[x], y).block # NoBlock

\* get_next_chain_ancestor_unchecked
NextChainAncestor(s, descendant, ancestor) ==
    IF ancestor = NoBlock THEN NoBlock
    ELSE BinarySearchDescendant(s, s.children[ancestor], descendant).block

\* The chain of n steps from ancestor towards descendant.
Climb(s, ancestor, descendant, n) ==
    LET at[k \in 0..n] ==
            IF k = 0 THEN ancestor ELSE NextChainAncestor(s, descendant, at[k - 1])
    IN  at

----------------------------------------------------------------------------
(* reindex.rs *)

\* b and its ancestors in the tree.
TreeChain(s, b) ==
    LET up[x \in Known(s) \cup {NoBlock}] ==
            IF x = NoBlock THEN {} ELSE {x} \cup up[s.parent[x]]
    IN  up[b]

Subtree(s, b) ==
    LET down[x \in Known(s)] == {x} \cup UNION {down[c] : c \in Range(s.children[x])}
    IN  down[b]

\* count_subtrees
SubtreeSizes(s, seq) == [k \in DOMAIN seq |-> Cardinality(Subtree(s, seq[k]))]

Position(seq, x) == CHOOSE k \in DOMAIN seq : seq[k] = x

PropagateInterval(s, b) ==
    LET tree  == Subtree(s, b)
        sizes == [x \in tree |-> SubtreeSizes(s, s.children[x])]
        alloc[x \in tree] ==
            IF x = b THEN s.interval[b]
            ELSE LET p == s.parent[x]
                 IN  SplitExponential(DecreaseEnd(alloc[p], 1), sizes[p])[Position(s.children[p], x)]
    IN  Fail([s EXCEPT !.interval = [x \in Known(s) |-> IF x \in tree THEN alloc[x] ELSE @[x]]],
             s.children[b] # <<>> /\ Size(s.interval[b]) < Cardinality(tree))

\* reclaim_interval_before and reclaim_interval_after mirror each other, and
\* so do the helpers they use: side says on which side of the chain the new
\* room is needed.
Remaining(s, b, side) ==
    IF side = "before" THEN RemainingBefore(s, b) ELSE RemainingAfter(s, b)

GiveUp(i, n, side) ==
    IF side = "before" THEN Interval(i.start + n, i.end) ELSE Interval(i.start, i.end - n)

Move(i, n, side) ==
    IF side = "before" THEN Interval(i.start + n, i.end + n) ELSE Interval(i.start - n, i.end - n)

TakeOver(i, n, side) ==
    IF side = "before" THEN Interval(i.start, i.end + n) ELSE Interval(i.start - n, i.end)

\* offset_siblings_before / _after: the siblings between current and block move
\* away, and block, if it is one of them, takes the room over.
OffsetSiblings(s, block, current, n, side) ==
    LET kids     == s.children[s.parent[current]]
        k        == Position(kids, current)
        siblings == IF side = "before" THEN Reverse(SubSeq(kids, 1, k - 1))
                                       ELSE SubSeq(kids, k + 1, Len(kids))
        affected == IF Contains(siblings, block)
                    THEN SubSeq(siblings, 1, Position(siblings, block)) ELSE siblings
        Apply(st, x) ==
            PropagateInterval(
                SetInterval(st, x, IF x = block THEN TakeOver(st.interval[x], n, side)
                                                ELSE Move(st.interval[x], n, side)), x)
    IN  FoldLeft(Apply, s, affected)

Reclaim(s, block, chosen, required, side) ==
    LET m        == s.height[s.root] - s.height[chosen]
        path     == Climb(s, chosen, s.root, m)
        slack(k) == Size(Remaining(s, path[k], side))
        sum[k \in -1..(m - 1)] == IF k = -1 THEN 0 ELSE sum[k - 1] + slack(k)
        enough   == {k \in 0..(m - 1) : sum[k] >= required}
        top      == IF enough = {} THEN m ELSE Min(enough)
        offset   == IF enough = {} THEN required + Slack * m - sum[m - 1]
                                   ELSE slack(top) - (sum[top] - required)
        kept     == IF enough = {} THEN Slack ELSE 0
        Shrunk(st, x, n) == SetInterval(st, x, GiveUp(st.interval[x], n, side))
        atTop    == LET st == Shrunk(s, path[top], offset)
                    IN  OffsetSiblings(IF enough = {} THEN PropagateInterval(st, path[top]) ELSE st,
                                       block, path[top], offset, side)
        Down(st, k) ==
            LET x == path[top - k]
                n == Size(Remaining(st, x, side)) - kept
            IN  Fail(OffsetSiblings(Shrunk(st, x, n), block, x, n, side), n < 0)
    IN  IF path[m] # s.root THEN Fail(s, TRUE)
        ELSE FoldLeft(Down, atTop, [k \in 1..top |-> k])

\* reindex_intervals_earlier_than_root
ReindexEarlierThanRoot(s, block, common, required) ==
    LET chosen == NextChainAncestor(s, s.root, common)
    IN  IF chosen = NoBlock THEN Fail(s, TRUE)
        ELSE Reclaim(s, block, chosen, required,
                     IF s.interval[block].start < s.interval[chosen].start
                     THEN "before" ELSE "after")

\* The loop of reindex_intervals stops at the first block, from the new one
\* towards Origin, that satisfies one of its exits.
ReindexIntervals(s, new) ==
    LET required(c) == Cardinality(Subtree(s, c))
        fits(c)     == Size(s.interval[c]) >= required(c)
        onRoot(c)   == IsStrictChainAncestorOf(s, s.parent[c], s.root)
        exits(c)    == fits(c) \/ c \in {Origin, s.root} \/ onRoot(c)
        current     == CHOOSE c \in TreeChain(s, new) :
                          exits(c) /\ \A d \in TreeChain(s, new) :
                                         exits(d) => s.height[d] <= s.height[c]
    IN  IF fits(current) THEN PropagateInterval(s, current)
        ELSE IF current \in {Origin, s.root} THEN Fail(s, TRUE)
        ELSE ReindexEarlierThanRoot(s, current, s.parent[current], required(current))

\* tighten_intervals_before / _after
Tighten(s, seq, i) ==
    LET parts == SplitExact(i, SubtreeSizes(s, seq))
    IN  FoldLeft(LAMBDA st, k : PropagateInterval(SetInterval(st, seq[k], parts[k]), seq[k]),
                 s, [k \in DOMAIN seq |-> k])

\* expand_interval_to_chosen
ExpandIntervalToChosen(s, parent, child, sumBefore, sumAfter, isFinal) ==
    LET i     == s.interval[parent]
        alloc == Interval(i.start + sumBefore + Slack, i.end - sumAfter - Slack - 1)
    IN  SetInterval(IF isFinal /\ ~Encloses(alloc, s.interval[child])
                    THEN PropagateInterval(
                            SetInterval(s, child, Interval(alloc.start + Slack, alloc.end - Slack)), child)
                    ELSE s,
                    child, alloc)

ConcentrateInterval(s, parent, child, isFinal) ==
    LET kids   == s.children[parent]
        k      == Position(kids, child)
        before == SubSeq(kids, 1, k - 1)
        after  == SubSeq(kids, k + 1, Len(kids))
        sumBefore == SumTo(SubtreeSizes(s, before), Len(before))
        sumAfter  == SumTo(SubtreeSizes(s, after), Len(after))
        i      == s.interval[parent]
    IN  ExpandIntervalToChosen(
            Tighten(Tighten(s, before, Interval(i.start + Slack, i.start + Slack + sumBefore - 1)),
                    after, Interval(i.end - Slack - sumAfter, i.end - Slack - 1)),
            parent, child, sumBefore, sumAfter, isFinal)

----------------------------------------------------------------------------
(* tree.rs *)

AddTreeBlock(s, b, p) ==
    LET remaining == RemainingAfter(s, p)
    IN  IF Size(remaining) = 0 THEN ReindexIntervals(Insert(s, b, p, remaining), b)
        ELSE Insert(s, b, p, SplitHalf(remaining))

FindCommonTreeAncestor(s, block) ==
    CHOOSE c \in TreeChain(s, block) :
        /\ IsChainAncestorOf(s, c, s.root)
        /\ \A d \in TreeChain(s, block) :
              IsChainAncestorOf(s, d, s.root) => s.height[d] <= s.height[c]

\* The block to start from and the new reindex root.
FindNextReindexRoot(s, hint) ==
    LET reorg    == ~IsChainAncestorOf(s, s.root, hint)
        stay     == reorg /\ s.height[hint] - s.height[s.root] < Slack
        ancestor == IF reorg THEN FindCommonTreeAncestor(s, hint) ELSE s.root
        steps    == s.height[hint] - s.height[ancestor] - Depth
    IN  IF stay THEN <<s.root, s.root>>
        ELSE <<ancestor, IF steps <= 0 THEN ancestor ELSE Climb(s, ancestor, hint, steps)[steps]>>

TryAdvancingReindexRoot(s, hint) ==
    LET found == FindNextReindexRoot(s, hint)
        next  == found[2]
        Step(acc, k) ==
            LET child == NextChainAncestor(acc.st, next, acc.at)
            IN  IF child = NoBlock THEN [acc EXCEPT !.st = Fail(@, TRUE)]
                ELSE [st |-> ConcentrateInterval(acc.st, acc.at, child, child = next), at |-> child]
        walk  == FoldLeft(Step, [st |-> s, at |-> found[1]],
                          [k \in 1..(s.height[next] - s.height[found[1]]) |-> k])
    IN  IF next = s.root THEN s
        ELSE IF next = NoBlock THEN Fail(s, TRUE)
        ELSE [walk.st EXCEPT !.root = next]

\* inquirer.rs add_dag_block: a future covering item is inserted in every block
\* of the mergeset, and must not be found there.
AddDagBlock(s, b, mergeset) ==
    LET search(x) == BinarySearchDescendant(s, s.fcs[x], b)
    IN  Fail([s EXCEPT !.fcs = [x \in Known(s) |->
                 IF x \in mergeset THEN InsertAt(@[x], search(x).at + 1, b) ELSE @[x]]],
             \E x \in mergeset : search(x).block # NoBlock)

----------------------------------------------------------------------------
(* The index as the header processor uses it *)

Init ==
    /\ store = [interval |-> Origin :> Interval(1, Capacity),
                parent   |-> Origin :> NoBlock,
                height   |-> Origin :> 0,
                children |-> Origin :> <<>>,
                fcs      |-> Origin :> <<>>,
                root     |-> Origin,
                fault    |-> FALSE]
    /\ past = Origin :> {}
    /\ tip = Genesis

\* Mutant: the mergeset passed on is the whole past but the selected parent.
BugAddBlock(b, ps, sp, best) ==
    LET before == UNION {past[p] \cup {p} : p \in ps \cup {sp}}
    IN  /\ store' = AddDagBlock(AddTreeBlock(store, b, sp), b, before \ {sp})
        /\ past' = [x \in DOMAIN past \cup {b} |-> IF x = b THEN before ELSE past[x]]
        /\ tip' = IF best THEN b ELSE tip

\* The reindex root follows the header selected tip.
HintVirtualSelectedParent(s, hint, best) ==
    IF best THEN TryAdvancingReindexRoot(s, hint) ELSE s

\* commit_header of a block with parents ps and selected parent sp.  best says
\* whether its blue work exceeds that of the selected tip.
AddBlock(b, ps, sp, best) ==
    LET before == UNION {past[p] \cup {p} : p \in ps \cup {sp}}
    IN  /\ store' = HintVirtualSelectedParent(
                        AddDagBlock(AddTreeBlock(store, b, sp), b, before \ (past[sp] \cup {sp})),
                        b, best)
        /\ past' = [x \in DOMAIN past \cup {b} |-> IF x = b THEN before ELSE past[x]]
        /\ tip' = IF best THEN b ELSE tip

AddGenesis ==
    /\ DOMAIN past = {Origin}
    /\ AddBlock(Genesis, {}, Origin, FALSE)

\* The parents form an antichain; the selected parent has the most work of
\* them, and a block that has the tip in its past has more work than the tip.
AddHeader ==
    LET b == Cardinality(DOMAIN past)
    IN  /\ b \in 2..NBlocks
        /\ \E ps \in SUBSET (DOMAIN past \ {Origin}) : \E sp \in ps : \E best \in BOOLEAN :
              /\ Cardinality(ps) <= MaxParents
              /\ \A p, q \in ps : p \notin past[q]
              /\ tip \in ps => sp = tip
              /\ (tip \in ps \/ \E p \in ps : tip \in past[p]) => best
              /\ AddBlock(b, ps, sp, best)

Next == AddGenesis \/ AddHeader

Spec == Init /\ [][Next]_vars

----------------------------------------------------------------------------
(* Properties *)

\* Adding a block never fails: no reallocation runs out of room, no search
\* misses, no interval is illegal and no covering item is already there
\* (the unwraps of commit_header, the assertions of interval.rs); children and
\* future covering sets stay sorted and disjoint, what assert_hashes_ordered
\* demands of every binary search.
NeverFails ==
    /\ ~store.fault
    /\ \A x \in Known(store) :
          HashesOrdered(store, store.children[x]) /\ HashesOrdered(store, store.fcs[x])

\* The chain queries agree with the tree for every pair of blocks, whatever
\* reindexing happened in between, and is_dag_ancestor_of answers exactly the
\* past relation of the DAG.
QueriesExact ==
    \A y \in Known(store) :
        LET chain == TreeChain(store, y)
        IN  \A x \in Known(store) :
              /\ IsChainAncestorOf(store, x, y) <=> x \in chain
              /\ IsStrictChainAncestorOf(store, x, y) => NextChainAncestor(store, y, x) \in chain
              /\ IsDagAncestorOf(store, x, y) <=> x \in past[y] \cup {y}

=============================================================================
