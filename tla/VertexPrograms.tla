---------------------------- MODULE VertexPrograms ----------------------------
(* The vertex programs of algorithms/: what their callbacks init,          *)
(* apply_one_update, generate_update, check_bsp and check_reset_changed do *)
(* to one vertex.  r is the vertex's record, v the vertex, n bsp_phase, u  *)
(* an update and e an edge.  A callback's result is the new record, the    *)
(* value returned, what it adds to the per-processor data and, for         *)
(* generate_update, the payload of the update.                             *)
(*                                                                         *)
(* Ranks are multiples of 1/Unit, hyperanf's counts thousandths.           *)
EXTENDS Integers, Bags, FiniteSets, HyperLogLog

CONSTANTS NumVertices, Root, Niters, Unit, NONE

Vertices == 0..NumVertices - 1

Infinity == 1000                       \* the largest distance and phase

Did(r, yes) == [rec |-> r, yes |-> yes, add |-> EmptyBag]
Counted(r, yes, names) == [rec |-> r, yes |-> yes, add |-> SetToBag(names)]
Sends(r, val) == [rec |-> r, yes |-> TRUE, add |-> EmptyBag, val |-> val]
Silent(r) == Did(r, FALSE)

-----------------------------------------------------------------------------
(* mis: a vertex no smaller vertex of the set votes out *)

MisInit == [in_mis |-> TRUE]
MisCheck(r) == r.in_mis
MisApply(r) == Counted([in_mis |-> FALSE], TRUE, IF r.in_mis THEN {"voted_out"} ELSE {})
MisGenerate(r, e) == IF MisCheck(r) /\ e.src < e.dst THEN Sends(r, 0) ELSE Silent(r)

(* cc: the smallest label; merged counts a vertex that lost its own *)

CcInit(v) == [component |-> v, active_phase |-> 0, merged |-> FALSE, changed |-> TRUE]
CcCheck(r, n) == r.active_phase = n
\* Mutant of CcApply: the vertex is not marked active, and sends nothing.
CcApplyPassive(r, u, n) ==
    IF u.val < r.component
    THEN Counted([r EXCEPT !.component = u.val, !.merged = TRUE, !.changed = TRUE],
                 TRUE, IF r.merged THEN {} ELSE {"cc_neg"})
    ELSE Silent(r)
CcApply(r, u, n) ==
    IF u.val < r.component
    THEN Counted([component |-> u.val, active_phase |-> n, merged |-> TRUE, changed |-> TRUE],
                 TRUE, IF r.merged THEN {} ELSE {"cc_neg"})
    ELSE Silent(r)
CcGenerate(r, n) == IF CcCheck(r, n) THEN Sends(r, r.component) ELSE Silent(r)

(* sssp: the smallest distance from the source, the option sssp::source *)

SsspInit(v) ==
    Did([predecessor |-> NONE, distance |-> IF v = Root THEN 0 ELSE Infinity,
         active_phase |-> IF v = Root THEN 0 ELSE Infinity, changed |-> TRUE], v = Root)
SsspCheck(r, n) == r.active_phase = n
SsspApply(r, u, n) ==
    IF u.val.distance < r.distance
    THEN Did([predecessor |-> u.val.predecessor, distance |-> u.val.distance,
              active_phase |-> n, changed |-> TRUE], TRUE)
    ELSE Silent(r)
SsspGenerate(r, e, n) ==
    IF SsspCheck(r, n)
    THEN Sends(r, [predecessor |-> e.src, distance |-> r.distance + e.w]) ELSE Silent(r)

(* sssp_forest: the smallest label, and the smallest distance under it *)

ForestInit(v) == [component |-> v, predecessor |-> v, distance |-> 0, active_phase |-> 0]
ForestCheck(r, n) == r.active_phase = n
ForestApply(r, u, n) ==
    IF \/ u.val.component < r.component
       \/ u.val.component = r.component /\ u.val.distance < r.distance
    THEN Did([component |-> u.val.component, predecessor |-> u.val.predecessor,
              distance |-> u.val.distance, active_phase |-> n], TRUE)
    ELSE Silent(r)
ForestGenerate(r, e, n) ==
    IF ForestCheck(r, n)
    THEN Sends(r, [component |-> r.component, predecessor |-> e.src,
                   distance |-> r.distance + e.w])
    ELSE Silent(r)

(* bfs_forest: the smallest label, and who sent it *)

BfsForestInit(v) == [component |-> v, bfs_parent |-> v, bsp_phase |-> 0]
BfsForestApply(r, u, n) ==
    IF r.component > u.val.component
    THEN Did([component |-> u.val.component, bfs_parent |-> u.val.parent, bsp_phase |-> n], TRUE)
    ELSE Silent(r)
BfsForestGenerate(r, e, n) ==
    IF r.bsp_phase = n THEN Sends(r, [component |-> r.component, parent |-> e.src]) ELSE Silent(r)

(* bfs_async: an update looped back in the scatter of superstep n belongs to n + 1 *)

AsyncInit(v, r) == [bfs_parent |-> IF v = Root THEN Root ELSE NONE,
                    bsp_phase |-> IF v = Root THEN 0 ELSE r.bsp_phase]
AsyncApply(r, u, n, loopback) ==
    IF r.bfs_parent = NONE
    THEN Counted([bfs_parent |-> u.val, bsp_phase |-> IF loopback THEN n + 1 ELSE n],
                 FALSE, {"vertices_discovered"})
    ELSE Silent(r)
\* AlgorithmBFS in bfs.py: the same, without a loop back.
PyApply(r, u, n) ==
    IF r.bfs_parent = NONE
    THEN Counted([bfs_parent |-> u.val, bsp_phase |-> n], TRUE, {"vertices_discovered"})
    ELSE Silent(r)
PyGenerate(r, e, n) ==
    IF r.bfs_parent # NONE /\ r.bsp_phase = n
    THEN [Sends(r, e.src) EXCEPT !.add = SetToBag({"edges_explored"})] ELSE Silent(r)
AsyncGenerate(r, e, n) ==
    IF r.bfs_parent # NONE /\ r.bsp_phase = n
    THEN [Sends(r, e.src) EXCEPT !.add = SetToBag({"edges_explored", "local_seen_update"})]
    ELSE Silent(r)

-----------------------------------------------------------------------------
(* Programs that only look at the edges *)

DegreeGenerate(r) == Silent([degree |-> r.degree + 1])

IsRed(v) == v % 2 = 1
ConductanceGenerate(r, e) ==
    Counted(r, FALSE, {IF IsRed(e.src) THEN "red" ELSE "black"}
                      \cup IF IsRed(e.src) # IsRed(e.dst) THEN {"crossover"} ELSE {})

\* The program exits at the first edge out of range.
RangeGenerate(r, e) ==
    Counted(r, FALSE, IF e.src > NumVertices - 1 \/ e.dst > NumVertices - 1
                      THEN {"failed"} ELSE {})

(* checkbip: an edge's source is on the side its last edge says *)

Side(e) == IF e.src < e.dst THEN -1 ELSE 1
\* Mutant of BipApply: a vertex that has a side is not compared.
BipApplyOnce(r, u) ==
    Silent([side |-> IF r.side = 0 THEN -u.val ELSE r.side])
BipApply(r, u) ==
    LET side == IF r.side = 0 THEN -u.val ELSE r.side
    IN Counted([side |-> side], FALSE, IF side # -u.val THEN {"not_bip"} ELSE {})
BipGenerate(r, e) == Sends([side |-> Side(e)], Side(e))

-----------------------------------------------------------------------------
(* Sums *)

SpmvInit(v) == [value_out |-> 0, value_in |-> v]
SpmvApply(r, u) == Silent([r EXCEPT !.value_out = @ + u.val])
SpmvGenerate(r, e) == Sends(r, e.w * r.value_in)

Damped(x) == (17 * x) \div 20          \* 0.85 x
Base == (3 * Unit) \div 20             \* 1 - 0.85

(* pagerank: superstep 0 counts the edges of a vertex; Niters is 1 + pagerank::niters *)

RankInit(r, n) == [degree |-> IF n = 0 THEN 0 ELSE r.degree,
                   rank |-> CASE n = 0 -> Unit [] n = 1 -> Base [] OTHER -> r.rank,
                   sum |-> 0]
RankApply(r, u, n) ==
    Did([r EXCEPT !.sum = @ + u.val, !.rank = Base + Damped(r.sum + u.val)], n # Niters)
RankGenerate(r, n) ==
    IF n = 0 THEN Silent([r EXCEPT !.degree = @ + 1])
    ELSE Sends(r, (IF n = 1 THEN Unit ELSE r.rank) \div r.degree)

(* pagerank_ddf: a vertex pushes delta / degree along its edges while that is *)
(* more than 0.5; a quotient by degree 0 is infinite or not a number          *)

DdfInit(r, n) == IF n = 0 THEN [degree |-> 0, changed |-> TRUE, rank |-> Base,
                                delta |-> Unit, updates_pushed |-> 0]
                 ELSE r
DdfOver(r) == 2 * r.delta > r.degree * Unit
DdfCheck(r) == r.degree > 0 /\ DdfOver(r)
DdfApply(r, u, n) ==
    LET new == [r EXCEPT !.delta = @ + Damped(u.val), !.changed = TRUE]
    IN Did(new, n # Niters /\ DdfOver(new))
\* Mutant of DdfGenerate: the count of pushed updates is not reset.
DdfGenerateNoReset(r, n) ==
    CASE n = 0 -> Silent([r EXCEPT !.degree = @ + 1, !.changed = TRUE])
      [] n > 0 /\ DdfOver(r) ->
            Sends(LET new == [r EXCEPT !.updates_pushed = @ + 1, !.changed = TRUE]
                  IN IF new.updates_pushed = r.degree
                     THEN [new EXCEPT !.rank = @ + r.delta, !.delta = 0] ELSE new,
                  r.delta \div r.degree)
      [] OTHER -> Silent(r)
DdfGenerate(r, n) ==
    CASE n = 0 -> Silent([r EXCEPT !.degree = @ + 1, !.changed = TRUE])
      [] n > 0 /\ DdfOver(r) ->
            Sends(LET new == [r EXCEPT !.updates_pushed = @ + 1, !.changed = TRUE]
                  IN IF new.updates_pushed = r.degree
                     THEN [new EXCEPT !.rank = @ + r.delta, !.delta = 0, !.updates_pushed = 0]
                     ELSE new,
                  r.delta \div r.degree)
      [] OTHER -> Silent(r)

(* hyperanf: a counter of the vertices within reach; a superstep begins    *)
(* with the estimates                                                      *)

AnfInit(r, v, n) ==
    IF n = 0
    THEN Did([changed |-> TRUE, count |-> r.count, hll_ctr |-> AddHll(HllInit, Jenkins[v])], TRUE)
    ELSE LET count == IF r.changed THEN CountHll(r.hll_ctr) ELSE r.count
         IN [rec |-> [r EXCEPT !.changed = FALSE, !.count = count], yes |-> FALSE,
             add |-> [c \in {"neighbours"} |-> count]]
AnfCheck(r) == r.changed
AnfApply(r, u) ==
    LET union == HllUnion(r.hll_ctr, u.val)
    IN Did([r EXCEPT !.hll_ctr = union.ctr, !.changed = @ \/ union.changed], union.changed)
AnfGenerate(r) == IF AnfCheck(r) THEN Sends(r, r.hll_ctr) ELSE Silent(r)
-----------------------------------------------------------------------------
(* reduce, at the end of superstep n: before is the static value, now the  *)
(* sum over the processors                                                 *)

\* Mutant of MisStop: stop when the set has grown or is the same.
MisStopGrown(before, now) == now <= before
MisStop(before, now) == now = before
AsyncStop(seen) == seen = 0
\* Nothing is done in superstep 0; hyperanf::epsilon is 1/10, maxiters is Niters.
AnfStop(n, before, now) ==
    n > 0 /\ \/ n > 1 /\ 10 * (now - before) < before /\ 10 * (before - now) < before
             \/ n + 1 >= Niters
=============================================================================
