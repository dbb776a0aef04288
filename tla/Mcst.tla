--------------------------------- MODULE Mcst ---------------------------------
(* algorithms/mcst/mcst.hpp: minimum cost spanning trees.  In an iteration *)
(* every vertex proposes to the other end of its least edge; of two that   *)
(* propose to each other the smaller becomes the root of those that lead   *)
(* to it; then the edges between components are renamed to their roots.    *)
EXTENDS StreamCallbacks

LOCAL INSTANCE FiniteSetsExt

McstPasses ==
    [split |-> <<Read("split_edges", "init", "unknown")>>,
     least |-> <<Iter("compute_min"), Read("compute_min", "unknown", NONE),
                 Read("send_proposal", "state", "messages0")>>,
     match |-> <<Read("compute_match", "messages0", NONE)>>,
     root |-> <<Read("propagate_root", "messages0", "messages1")>>,
     absorb |-> <<Drain("absorb_root", "messages1", NONE)>>,
     spread |-> <<Read("propagate_root", "messages0", "messages1")>>,
     tree |-> <<Drain("write_tree_edges", "messages0", "tree")>>,
     rename |-> <<Drain("rewrite_unknown", "unknown", "messages1")>>,
     back |-> <<Drain("rewrite_unknown", "messages1", "unknown")>>]

McstStreams == {"init", "unknown", "messages0", "messages1", "tree"}

\* Whether the state of a super partition was stored before.
McstLoads(pass, n) == pass # "least" \/ n.iteration > 0

McstClock == [iteration |-> 0, ccspread |-> 0]

McstFolds(step) == CASE step = "write_tree_edges" -> {"tree", "absorbed", "dropped"}
                     [] step = "split_edges" -> {"unknown"}
                     [] OTHER -> {}

UnknownEdges(total) == CopiesIn("unknown", total) - CopiesIn("dropped", total)

\* The loops of operator(): what comes after a pass.
McstAfter(pass, n, streams, total) ==
    LET loop == IF UnknownEdges(total) > 0 THEN "least" ELSE "done"
        roots == IF streams["messages1"] # {} THEN "absorb" ELSE "tree"
    IN CASE pass = "split" -> [pass |-> loop, clock |-> n]
         [] pass = "least" -> [pass |-> "match", clock |-> n]
         [] pass = "match" -> [pass |-> "root", clock |-> [n EXCEPT !.ccspread = 0]]
         [] pass = "root" -> [pass |-> roots, clock |-> [n EXCEPT !.ccspread = 1]]
         [] pass = "absorb" -> [pass |-> "spread", clock |-> n]
         [] pass = "spread" -> [pass |-> roots, clock |-> [n EXCEPT !.ccspread = @ + 1]]
         [] pass = "tree" -> [pass |-> "rename", clock |-> n]
         [] pass = "rename" -> [pass |-> "back", clock |-> n]
         [] pass = "back" -> [pass |-> loop, clock |-> [n EXCEPT !.iteration = @ + 1]]

McstIter(v) == [component_root |-> v, proposed_match |-> NONE,
                proposition_cost |-> NONE, match_iteration |-> NONE]

\* The edges are ordered by weight, then by the smaller, then by the larger end.
\* Mutant of NextIsLess: edges of the same weight are not ordered.
NextIsLessByWeight(v, prev, next, prev_cost, next_cost) == next_cost <= prev_cost
NextIsLess(v, prev, next, prev_cost, next_cost) ==
    \/ next_cost < prev_cost
    \/ /\ next_cost = prev_cost
       /\ \/ Min({v, next}) < Min({v, prev})
          \/ Min({v, next}) = Min({v, prev}) /\ Max({v, next}) < Max({v, prev})

ComputeMin(r, m) ==
    Keeps(IF \/ r.proposed_match = NONE
             \/ NextIsLess(m.key, r.proposed_match, m.src, r.proposition_cost, m.weight)
          THEN [r EXCEPT !.proposed_match = m.src, !.proposition_cost = m.weight] ELSE r)

SendProposal(r, m) ==
    Writes(r, IF r.proposed_match = NONE THEN {}
              ELSE {[key |-> r.proposed_match, src |-> m.key, weight |-> r.proposition_cost,
                     id |-> m.id]})

ComputeMatch(r, m) ==
    Keeps(IF r.proposed_match = m.src /\ m.key < m.src
          THEN [r EXCEPT !.match_iteration = 0] ELSE r)

PropagateRoot(r, m, n) ==
    Writes(r, IF r.match_iteration = n.ccspread /\ m.src # r.component_root
              THEN {[m EXCEPT !.key = m.src, !.src = r.component_root]} ELSE {})

AbsorbRoot(r, m, n) ==
    Did([r EXCEPT !.component_root = m.src, !.match_iteration = n.ccspread], {}, One("absorbed"))

WriteTreeEdges(r, m) ==
    IF m.src = r.proposed_match
    THEN Did(r, {m}, IF m.src < m.key THEN One("tree") ELSE EmptyBag)
    ELSE Did(r, {m, [m EXCEPT !.key = m.src, !.src = m.key, !.id = m.id + 100]}, One("tree"))

\* The weight of the item written is not set: it is what the buffer holds.
RewriteUnknown(r, m, left) ==
    IF m.src # r.component_root
    THEN Writes(r, {[m EXCEPT !.key = m.src, !.src = r.component_root, !.weight = left]})
    ELSE Did(r, {}, One("dropped"))

SplitEdges(r, m) ==
    IF m.key = m.dst THEN Keeps(r)
    ELSE Did(r, {[key |-> m.dst, src |-> m.key, weight |-> m.weight, id |-> m.id]}, One("unknown"))

McstItem(step, r, m, n, left) ==
    CASE step = "split_edges" -> SplitEdges(r, m)
      [] step = "compute_min" -> ComputeMin(r, m)
      [] step = "send_proposal" -> SendProposal(r, m)
      [] step = "compute_match" -> ComputeMatch(r, m)
      [] step = "propagate_root" -> PropagateRoot(r, m, n)
      [] step = "absorb_root" -> AbsorbRoot(r, m, n)
      [] step = "write_tree_edges" -> WriteTreeEdges(r, m)
      [] step = "rewrite_unknown" -> RewriteUnknown(r, m, left)
=============================================================================
