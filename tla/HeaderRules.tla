----------------------------- MODULE HeaderRules ----------------------------
(***************************************************************************)
(* What a header must state about its place in the DAG, and how the node   *)
(* derives it: block windows and the scores and times taken from them      *)
(* (traversal_manager, difficulty, past_median_time), the depth roots      *)
(* (block_depth), the pruning point (pruning), the parents of each level   *)
(* (parents_builder), the header processor's validations, and the virtual  *)
(* block the node mines on.                                                *)
(*                                                                         *)
(* Blocks enter through ProcessHeader with the header an honest miner      *)
(* gives them; ResolveVirtual moves virtual to the tips and the pruning    *)
(* point after it.  Bodies are valid, so every block may be selected.      *)
(***************************************************************************)
EXTENDS Ghostdag

CONSTANTS ORIGIN, merge_depth, finality_depth, pruning_depth,
          max_block_parents, mergeset_size_limit,
          difficulty_window_size, past_median_time_window_size,
          max_block_level, Level,   \* the block level each proof of work earns
          Timestamp                 \* the earliest time each miner would state

VARIABLES headers,    \* the headers store
          depths,     \* the depth store
          windows,    \* the two window caches
          pruning,    \* the pruning store
          past_pps,   \* the past pruning points store, index from 0
          virtual     \* the parents of virtual

ruleVars == <<headers, depths, windows, pruning, past_pps, virtual>>

is_chain_ancestor_of(a, b) == a = ORIGIN \/ a \in Chain(b)
is_dag_ancestor_of(a, b) == a = ORIGIN \/ IsDagAncestorOf(a, b)
blue_score(b) == data[b].blue_score

\* forward_chain_iterator(low, high, true); it panics off the chain.
forward_chain(low, high) == SortBlocks({c \in Chain(high) : low \in Chain(c)})
-----------------------------------------------------------------------------
(* Block windows                                                           *)

\* BoundedSizeBlockHeap::try_push
try_push(heap, size, block) ==
  IF Cardinality(heap) < size THEN [pushed |-> TRUE, heap |-> heap \union {block}]
  ELSE LET least == CHOOSE b \in heap : \A c \in heap \ {b} : Less(b, c)
       IN IF Less(block, least) THEN [pushed |-> FALSE, heap |-> heap]
          ELSE [pushed |-> TRUE, heap |-> (heap \ {least}) \union {block}]

descending_mergeset(gd) == Reverse(SortBlocks(Range(Tail(gd.mergeset_blues) \o gd.mergeset_reds)))

push_descending(first, size, blocks) ==
  IF ~first.pushed THEN first
  ELSE [FoldLeft(LAMBDA s, b : IF s.pushed THEN try_push(s.heap, size, b) ELSE s, first, blocks) EXCEPT !.pushed = TRUE]

BugTryPushMergeset(heap, size, gd) ==   \* only the blues
  push_descending(try_push(heap, size, gd.selected_parent), size, Reverse(Tail(gd.mergeset_blues)))

\* Not pushed: the selected parent is below the window.
try_push_mergeset(heap, size, gd) ==
  push_descending(try_push(heap, size, gd.selected_parent), size, descending_mergeset(gd))

\* cache maps blocks to their windows of this size.
block_window(gd, size, cache) ==
  LET RECURSIVE Walk(_, _)
      Walk(current, heap) ==
        LET next(r) == IF r.pushed THEN Walk(data[current.selected_parent], r.heap) ELSE r.heap
        IN IF current.selected_parent = Genesis THEN heap ELSE next(try_push_mergeset(heap, size, current))
      sp == gd.selected_parent
  IN IF size = 0 THEN {}
     ELSE IF sp \in DOMAIN cache
          THEN IF sp = Genesis THEN cache[sp] ELSE try_push_mergeset(cache[sp], size, gd).heap
     ELSE Walk(gd, {})

difficulty_window(gd) == block_window(gd, difficulty_window_size, [b \in DOMAIN windows |-> windows[b].difficulty])
median_window(gd) == block_window(gd, past_median_time_window_size, [b \in DOMAIN windows |-> windows[b].median])

calc_past_median_time(gd) ==
  LET timestamps(window) == SortSeq([k \in 1..Cardinality(window) |-> headers[SetToSeq(window)[k]].timestamp], <)
      median(times) == IF times = <<>> THEN headers[Genesis].timestamp ELSE times[Len(times) \div 2 + 1]
  IN median(timestamps(median_window(gd)))

calc_daa_score_and_non_daa_mergeset_blocks(gd) ==
  LET mergeset == Range(gd.mergeset_blues \o gd.mergeset_reds)
      counted(window) == [daa_score |-> headers[gd.selected_parent].daa_score + Cardinality(window \intersect mergeset),
                          non_daa |-> mergeset \ window]
  IN counted(difficulty_window(gd))
-----------------------------------------------------------------------------
(* Depth roots and the merge bound                                         *)

\* calculate_block_at_depth; field is the depth store's column for the depth.
BugBlockAtDepth(gd, depth, field, pp) ==   \* from the stored root of the parent, not above it
  IF gd.blue_score < depth THEN Genesis
  ELSE IF gd.blue_score < blue_score(pp) + depth \/ ~is_chain_ancestor_of(pp, gd.selected_parent) THEN ORIGIN
  ELSE LET stored == depths[gd.selected_parent][field] IN IF stored = ORIGIN THEN pp ELSE stored

calculate_block_at_depth(gd, depth, field, pp) ==
  IF gd.blue_score < depth THEN Genesis
  ELSE IF gd.blue_score < blue_score(pp) + depth \/ ~is_chain_ancestor_of(pp, gd.selected_parent) THEN ORIGIN
  ELSE LET stored == depths[gd.selected_parent][field]
           low == IF stored = ORIGIN THEN pp ELSE stored
           below == SelectSeq(forward_chain(low, gd.selected_parent), LAMBDA c : blue_score(c) < gd.blue_score - depth)
       IN IF below = <<>> THEN low ELSE Last(below)
calc_merge_depth_root(gd, pp) == calculate_block_at_depth(gd, merge_depth, "merge_depth_root", pp)
calc_finality_point(gd, pp) == calculate_block_at_depth(gd, finality_depth, "finality_point", pp)

kosherizing_blues(gd, root) == {b \in Range(gd.mergeset_blues) : is_chain_ancestor_of(root, b)}

\* The reds that reach below the merge depth root, and that no blue excuses.
bad_reds(gd, root) ==
  {red \in Range(gd.mergeset_reds) : /\ ~is_dag_ancestor_of(root, red)
                                     /\ ~\E b \in kosherizing_blues(gd, root) : IsDagAncestorOf(red, b)}
-----------------------------------------------------------------------------
(* The pruning point                                                       *)

finality_score(score) == score \div finality_depth

next_pruning_points_and_candidate(gd, suggested, candidate, pp) ==
  LET low == IF suggested # <<>> /\ ~is_chain_ancestor_of(suggested[1], candidate) THEN suggested[1] ELSE candidate
      deep == SelectSeq(forward_chain(low, gd.selected_parent), LAMBDA c : gd.blue_score - blue_score(c) >= pruning_depth)
      step(s, c) == IF finality_score(blue_score(c)) > finality_score(s.latest)
                    THEN [points |-> Append(s.points, c), latest |-> blue_score(c)] ELSE s
      walk == FoldLeft(step, [points |-> <<>>, latest |-> blue_score(pp)], deep)
  IN [points |-> walk.points, candidate |-> IF deep = <<>> THEN candidate ELSE Last(deep)]

\* The walk starts on the chain of the block; the code's assertion, and the
\* iterator, panic otherwise.
WalkStarts(gd, suggested, candidate) ==
  LET low == IF suggested # <<>> /\ ~is_chain_ancestor_of(suggested[1], candidate) THEN suggested[1] ELSE candidate
  IN /\ is_chain_ancestor_of(low, gd.selected_parent)
     /\ suggested # <<>> => is_chain_ancestor_of(suggested[1], candidate) \/ is_chain_ancestor_of(candidate, suggested[1])

is_pruning_point_in_pruning_depth(pov_blue_score, pp) == pov_blue_score >= blue_score(pp) + pruning_depth

BugMayTrigger(gd, info) ==   \* one blue score too late
  LET sp_header_pp == headers[gd.selected_parent].pruning_point
  IN /\ is_chain_ancestor_of(info.pruning_point, gd.selected_parent)
     /\ (finality_score(blue_score(sp_header_pp)) + 1) * finality_depth + pruning_depth < gd.blue_score

\* Whether the block can trigger a pruning point change, and from where to look.
may_trigger(gd, info) ==
  LET sp_header_pp == headers[gd.selected_parent].pruning_point
  IN /\ is_chain_ancestor_of(info.pruning_point, gd.selected_parent)
     /\ (finality_score(blue_score(sp_header_pp)) + 1) * finality_depth + pruning_depth <= gd.blue_score
suggested_low_hash(gd, info) ==
  LET sp_header_pp == headers[gd.selected_parent].pruning_point
  IN IF IsDagAncestorOf(info.pruning_point, sp_header_pp) THEN <<sp_header_pp>> ELSE <<>>

expected_header_pruning_point(gd, info) ==
  LET points == next_pruning_points_and_candidate(gd, suggested_low_hash(gd, info), info.candidate, info.pruning_point).points
      next_or_current == IF ~may_trigger(gd, info) THEN headers[gd.selected_parent].pruning_point
                         ELSE IF points = <<>> THEN info.pruning_point ELSE Last(points)
      RECURSIVE Past(_)
      Past(i) == IF i < 0 THEN Genesis
                 ELSE IF is_pruning_point_in_pruning_depth(gd.blue_score, past_pps[i]) THEN past_pps[i] ELSE Past(i - 1)
  IN IF gd.selected_parent = Genesis THEN Genesis
     ELSE IF is_pruning_point_in_pruning_depth(gd.blue_score, next_or_current) THEN next_or_current
     ELSE Past(info.index)

\* No panic in expected_header_pruning_point.
HeaderWalkStarts(gd, info) ==
  gd.selected_parent # Genesis /\ may_trigger(gd, info) => WalkStarts(gd, suggested_low_hash(gd, info), info.candidate)
-----------------------------------------------------------------------------
(* Parents at every level (calc_block_parents)                             *)

OriginChildren == {Genesis}   \* nothing is pruned

parents_at_level(b, level) ==
  IF b = Genesis THEN {}
  ELSE IF Len(headers[b].parents_by_level) > level THEN Range(headers[b].parents_by_level[level + 1])
  ELSE {Genesis}

\* One grandparent against the candidates, a map to their reference blocks.
BugConsider(level, candidates, parent, first) ==   \* also one in the past of a candidate
  LET kept == {c \in DOMAIN candidates : ~\E r \in candidates[c] : is_dag_ancestor_of(r, parent)}
  IN (parent :> {parent}) @@ [c \in kept |-> candidates[c]]

Consider(level, candidates, parent, first) ==
  LET in_future == \E o \in OriginChildren : is_dag_ancestor_of(o, parent)
      refs == IF in_future THEN {parent} ELSE {o \in OriginChildren : parent \in parents_at_level(o, level)}
      kept == {c \in DOMAIN candidates : ~\E r \in candidates[c] : is_dag_ancestor_of(r, parent)}
      retained == [c \in kept |-> candidates[c]]
  IN IF first THEN (parent :> refs) @@ candidates
     ELSE IF ~in_future THEN candidates
     ELSE IF kept # DOMAIN candidates \/ ~\E c \in kept : \E r \in candidates[c] : is_dag_ancestor_of(parent, r)
          THEN (parent :> refs) @@ retained
     ELSE retained

\* direct: the direct parents, one in the future of the pruning point first.
level_parents(direct, level) ==
  LET at == {b \in Range(direct) : level <= headers[b].level}
      first == IF at = {} THEN parents_at_level(direct[1], level) ELSE {}
      others == UNION {parents_at_level(b, level) : b \in Range(direct) \ at} \ first
      start == [b \in at |-> {b}]
      marked == FoldLeft(LAMBDA c, p : Consider(level, c, p, TRUE), start, SetToSeq(first))
  IN DOMAIN FoldLeft(LAMBDA c, p : Consider(level, c, p, FALSE), marked, SetToSeq(others))

calc_block_parents(pp, direct_parents) ==
  LET k == CHOOSE i \in DOMAIN direct_parents : /\ is_dag_ancestor_of(pp, direct_parents[i])
                                               /\ \A j \in 1..(i - 1) : ~is_dag_ancestor_of(pp, direct_parents[j])
      direct == [direct_parents EXCEPT ![1] = direct_parents[k], ![k] = direct_parents[1]]
      RECURSIVE Levels(_)
      Levels(level) ==
        LET push(ps) == IF level = max_block_level \/ (level > 0 /\ ps = {Genesis}) THEN <<>> ELSE <<ps>> \o Levels(level + 1)
        IN push(level_parents(direct, level))
  IN Levels(0)
-----------------------------------------------------------------------------
(* Header validation                                                       *)

check_parents_limit(ps) == Cardinality(ps) \in 1..max_block_parents
check_parents_incest(ps) == \A p \in ps : past[p] \intersect ps = {}
check_pruning_violation(ps, pp) == \E p \in ps : is_dag_ancestor_of(pp, p)
check_difficulty_and_daa_score(gd, header) == header.daa_score = calc_daa_score_and_non_daa_mergeset_blocks(gd).daa_score
check_median_timestamp(gd, header) == header.timestamp > calc_past_median_time(gd)
check_merge_size_limit(gd) == Len(gd.mergeset_blues) + Len(gd.mergeset_reds) <= mergeset_size_limit
check_bounded_merge_depth(gd, pp) == bad_reds(gd, calc_merge_depth_root(gd, pp)) = {}
check_pruning_point(gd, header, info) == header.pruning_point = expected_header_pruning_point(gd, info)
check_indirect_parents(ps, header, pp) ==
  LET matches(stated, expected) ==
        /\ Len(stated) = Len(expected)
        /\ \A k \in DOMAIN expected : Len(stated[k]) = Cardinality(expected[k]) /\ Range(stated[k]) \subseteq expected[k]
  IN matches(header.parents_by_level, calc_block_parents(pp, SetToSeq(ps)))

HeaderValid(ps, gd, header, info) ==
  /\ check_parents_limit(ps) /\ check_parents_incest(ps)
  /\ check_pruning_violation(ps, info.pruning_point) /\ check_difficulty_and_daa_score(gd, header)
  /\ check_median_timestamp(gd, header) /\ check_merge_size_limit(gd) /\ check_bounded_merge_depth(gd, info.pruning_point)
  /\ check_pruning_point(gd, header, info) /\ check_indirect_parents(ps, header, info.pruning_point)

Listed(levels) == [k \in DOMAIN levels |-> SetToSeq(levels[k])]

\* build_block_template's header for the given parents, mined as block h.
Template(h, ps, gd, info) ==
  LET header(min_block_time, pp) ==
        [timestamp |-> IF Timestamp[h] > min_block_time THEN Timestamp[h] ELSE min_block_time,
         daa_score |-> calc_daa_score_and_non_daa_mergeset_blocks(gd).daa_score, pruning_point |-> pp,
         parents_by_level |-> Listed(calc_block_parents(pp, SetToSeq(ps))), level |-> Level[h]]
  IN header(calc_past_median_time(gd) + 1, expected_header_pruning_point(gd, info))
-----------------------------------------------------------------------------
(* Virtual's parents                                                       *)

\* The increase of the mergeset of selected_parents by candidate, or the
\* block at which it exceeds the budget.
mergeset_increase(selected_parents, candidate, budget) ==
  LET RECURSIVE Visit(_, _, _)
      Visit(queue, visited, size) ==
        IF queue = <<>> THEN [accepted |-> TRUE, size |-> size]
        ELSE LET current == Head(queue)
                 new == parents[current] \ visited
             IN IF \E p \in selected_parents : IsDagAncestorOf(current, p) THEN Visit(Tail(queue), visited, size)
                ELSE IF size + 1 > budget THEN [accepted |-> FALSE, candidate |-> current]
                ELSE Visit(Tail(queue) \o SetToSeq(new), visited \union new, size + 1)
  IN Visit(SetToSeq(parents[candidate]), parents[candidate], 1)

\* The largest blocks by blue work, with the least ones swapped to the second half.
prioritized(candidates) ==
  LET sorted == Reverse(SortBlocks(candidates))
      largest == SubSeq(sorted, 1, IF Len(sorted) < 3 * max_block_parents THEN Len(sorted) ELSE 3 * max_block_parents)
      additional == max_block_parents - 1
      swap(s, k) == LET i == additional \div 2 + k  j == Len(largest) - k + 1
                    IN [s EXCEPT ![i] = s[j], ![j] = s[i]]
  IN IF Len(largest) < max_block_parents THEN largest
     ELSE FoldLeft(swap, largest, [k \in 1..(additional - additional \div 2) |-> k])

BugRemoveBounded(vps, info) ==   \* the root is taken from the node's pruning point before the mergeset is known
  {p \in vps : ~\E red \in bad_reds(GhostdagData(vps), info.pruning_point) : IsDagAncestorOf(red, p)}

remove_bounded_merge_breaking_parents(vps, info) ==
  LET bad(gd) == bad_reds(gd, calc_merge_depth_root(gd, expected_header_pruning_point(gd, info)))
      keep(reds) == {p \in vps : ~\E red \in reds : IsDagAncestorOf(red, p)}
  IN keep(bad(GhostdagData(vps)))

pick_virtual_parents(selected_parent, tips, info) ==
  LET RECURSIVE Pick(_, _, _)
      Pick(candidates, vps, size) ==
        IF candidates = <<>> \/ size >= mergeset_size_limit \/ Cardinality(vps) >= max_block_parents THEN vps
        ELSE LET c == Head(candidates)  rest == Tail(candidates)
                 r == mergeset_increase(vps, c, mergeset_size_limit - size)
             IN IF r.accepted THEN Pick(rest, vps \union {c}, size + r.size)
                ELSE IF \E x \in Range(rest) : IsDagAncestorOf(x, r.candidate) THEN Pick(rest, vps, size)
                ELSE Pick(Append(SelectSeq(rest, LAMBDA x : ~IsDagAncestorOf(r.candidate, x)), r.candidate), vps, size)
  IN remove_bounded_merge_breaking_parents(Pick(prioritized(tips \ {selected_parent}), {selected_parent}, 1), info)
-----------------------------------------------------------------------------
(* Actions                                                                 *)

RulesInit ==
  /\ Init
  /\ headers = (Genesis :> [timestamp |-> 0, daa_score |-> 0, pruning_point |-> ORIGIN, parents_by_level |-> <<>>,
                            level |-> max_block_level])
  /\ depths = (Genesis :> [merge_depth_root |-> ORIGIN, finality_point |-> ORIGIN])
  /\ windows = (Genesis :> [difficulty |-> {}, median |-> {}])
  /\ pruning = [pruning_point |-> Genesis, candidate |-> Genesis, index |-> 0]
  /\ past_pps = (0 :> Genesis)
  /\ virtual = {Genesis}

\* process_header and commit_header of a valid header.
CommitHeader(h, ps, gd, header) ==
  /\ HeaderValid(ps, gd, header, pruning)
  /\ InsertBlock(h, ps, gd)
  /\ headers' = (h :> header) @@ headers
  /\ depths' = (h :> [merge_depth_root |-> calc_merge_depth_root(gd, pruning.pruning_point),
                      finality_point |-> calc_finality_point(gd, pruning.pruning_point)]) @@ depths
  /\ windows' = (h :> [difficulty |-> difficulty_window(gd), median |-> median_window(gd)]) @@ windows
  /\ UNCHANGED <<pruning, past_pps, virtual>>

ProcessHeader(h, ps) ==
  LET Process(gd) == /\ HeaderWalkStarts(gd, pruning)
                     /\ CommitHeader(h, ps, gd, Template(h, ps, gd, pruning))
  IN Process(GhostdagData(ps))

Tips == {b \in Blocks : \A c \in Blocks : b \notin parents[c]}
NewSelected == FindSelectedParent(Tips)

\* resolve_virtual, and advance_pruning_point_and_candidate_if_possible after it.
\* The code does not check finality: a new selected chain that leaves the
\* candidate out panics the walk, and the node is no longer modelled.
ResolveVirtual ==
  LET next == next_pruning_points_and_candidate(data[NewSelected], <<>>, pruning.candidate, pruning.pruning_point)
      moved == NewSelected # Genesis
      n == Len(next.points)
  IN /\ HeaderWalkStarts(GhostdagData({NewSelected}), pruning)
     /\ moved => WalkStarts(data[NewSelected], <<>>, pruning.candidate)
     /\ virtual' = pick_virtual_parents(NewSelected, Tips, pruning)
     /\ pruning' = IF ~moved THEN pruning
                   ELSE IF n = 0 THEN [pruning EXCEPT !.candidate = next.candidate]
                   ELSE [pruning_point |-> Last(next.points), candidate |-> next.candidate, index |-> pruning.index + n]
     /\ past_pps' = IF ~moved THEN past_pps 
                    ELSE [i \in pruning.index + 1..pruning.index + n |-> next.points[i - pruning.index]] @@ past_pps
     /\ UNCHANGED <<vars, headers, depths, windows>>
-----------------------------------------------------------------------------
Others == DOMAIN headers \ {Genesis}
Largest(S, n) == {b \in S : Cardinality({c \in S : Less(b, c)}) < n}
Maximal(S) == {b \in S : \A c \in S : b \notin past[c]}

(* The window of a block holds the highest blocks of its past by blue work, *)
(* whether it is extended from the cached window of the selected parent or  *)
(* collected down the chain with an early stop, as after the cache dropped  *)
(* the parent; so the DAA score, the difficulty and the median time of a    *)
(* block do not depend on what is cached.                                   *)
WindowExact ==
  \A b \in Others :
    /\ windows[b].difficulty = Largest(past[b] \ {Genesis}, difficulty_window_size)
    /\ windows[b].median = Largest(past[b] \ {Genesis}, past_median_time_window_size)
    /\ block_window(data[b], difficulty_window_size, <<>>) = windows[b].difficulty
    /\ block_window(data[b], past_median_time_window_size, <<>>) = windows[b].median

(* The parents of a block at a level are the highest blocks of its past     *)
(* that earned the level, whichever direct parent is looked at first, and   *)
(* the list stops where only genesis is left.                               *)
ParentsExact ==
  \A b \in Others :
    LET at(level) == Maximal({x \in past[b] : headers[x].level >= level})
        listed == headers[b].parents_by_level
        stated == [k \in DOMAIN listed |-> Range(listed[k])]
    IN /\ \A k \in DOMAIN stated : stated[k] = at(k - 1)
       /\ Len(stated) = max_block_level \/ at(Len(stated)) = {Genesis}
       /\ \A k \in 2..Len(stated) : stated[k] # {Genesis}
       /\ \A order \in SetToSeqs(parents[b]) : calc_block_parents(Genesis, order) = stated

(* A depth root is the highest chain block more than the depth below the    *)
(* block, although it is only searched upwards from the selected parent's   *)
(* root, or from the pruning point where that is unknown.  What the node    *)
(* has pruned shows only in a root it does not know (ORIGIN), for a block   *)
(* that has one of its pruning points within the depth or off the chain,    *)
(* and in one block that has a pruning point exactly at the depth.          *)
RootsExact ==
  \A b \in Others :
    LET exact(depth, root) ==
          LET chain == Chain(data[b].selected_parent)
              below == {c \in chain : blue_score(c) < blue_score(b) - depth}
          IN \/ /\ root = ORIGIN /\ blue_score(b) >= depth
                /\ \E pp \in Range(past_pps) : pp \notin chain \/ blue_score(b) < blue_score(pp) + depth
             \/ root = (IF below = {} THEN Genesis ELSE FindSelectedParent(below))
             \/ root \in Range(past_pps) \intersect Chain(b) /\ blue_score(root) = blue_score(b) - depth
    IN exact(merge_depth, depths[b].merge_depth_root) /\ exact(finality_depth, depths[b].finality_point)

\* The pruning points on the chain of a block: each is the first of a later
\* finality interval than the one before it.
ReferencePruningPoint(gd) ==
  LET deep == SortBlocks({c \in Chain(gd.selected_parent) : gd.blue_score >= blue_score(c) + pruning_depth})
  IN FoldLeft(LAMBDA pp, c : IF finality_score(blue_score(c)) > finality_score(blue_score(pp)) THEN c ELSE pp, Genesis, deep)

(* The pruning point a header must state is a function of its chain alone,  *)
(* on every chain through the node's pruning point: nodes whose pruning     *)
(* points moved at different times accept the same headers.  And no chain   *)
(* that keeps virtual's finality point leaves the walks' start, the         *)
(* candidate, out.                                                          *)
PruningExact ==
  /\ \A b \in Others : pruning.pruning_point \in Chain(b) => headers[b].pruning_point = ReferencePruningPoint(data[b])
  /\ LET final == calc_finality_point(GhostdagData(virtual), pruning.pruning_point)
     IN final = ORIGIN \/ is_chain_ancestor_of(pruning.candidate, final)

(* The block the node mines on virtual's parents passes the node's own      *)
(* header validation: the picked parents respect the limits on parents,     *)
(* mergeset and merge depth together.  And what is dropped from the tips to *)
(* keep the merge depth is never the new selected parent, as the assertion  *)
(* of resolve_virtual on virtual's GHOSTDAG data needs.                     *)
TemplateValid ==
  /\ NewSelected \in DOMAIN headers /\ HeaderWalkStarts(GhostdagData({NewSelected}), pruning) =>
       GhostdagData(pick_virtual_parents(NewSelected, Tips, pruning)).selected_parent = NewSelected
  /\ LET h == CHOOSE x \in Hashes : TRUE
         valid(gd) == HeaderValid(virtual, gd, Template(h, virtual, gd, pruning), pruning)
     IN valid(GhostdagData(virtual))
=============================================================================
