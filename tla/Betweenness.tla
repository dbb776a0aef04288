------------------------------ MODULE Betweenness ------------------------------
(* algorithms/bc/bc.hpp: betweenness centrality for the paths from one      *)
(* source.  A forward phase counts the shortest paths to every vertex, two  *)
(* passes keep the edges that lie on one, turned round, and a reverse phase *)
(* brings back along them what each vertex adds to those before it.         *)
(*                                                                          *)
(* Of a vertex, min_path and bc share their memory, as do delta_paths and   *)
(* delta_bc.  Centralities are multiples of 1/Scale.                        *)
EXTENDS StreamCallbacks

CONSTANTS Source

BcPasses ==
    [init |-> <<Iter("init_fwd")>>,
     edges |-> <<Read("init_fwd", "init", "edges")>>,
     send |-> <<Read("send_path", "edges", "updates")>>,
     update |-> <<Iter("update_path"), Drain("update_path", "updates", NONE)>>,
     revout |-> <<Drain("gen_rev_out", "edges", "tmp")>>,
     revin |-> <<Drain("gen_rev_in", "tmp", "edges")>>,
     initrev |-> <<Iter("init_rev")>>,
     sendbc |-> <<Read("send_bc", "edges", "rev_updates")>>,
     updatebc |-> <<Iter("update_bc"), Drain("update_bc", "rev_updates", NONE)>>,
     calc |-> <<Iter("calc_max")>>,
     reduce |-> <<Cpu("calc_max")>>]

BcStreams == {"init", "edges", "tmp", "updates", "rev_updates"}
BcLoads(pass) == pass # "init"

BcAfter(pass, streams) ==
    CASE pass = "init" -> "edges"
      [] pass \in {"edges", "update"} -> "send"
      [] pass = "send" -> IF streams["updates"] = {} THEN "revout" ELSE "update"
      [] pass = "revout" -> "revin"
      [] pass = "revin" -> "initrev"
      [] pass \in {"initrev", "updatebc"} -> "sendbc"
      [] pass = "sendbc" -> IF streams["rev_updates"] = {} THEN "calc" ELSE "updatebc"
      [] pass = "calc" -> "reduce"
      [] pass = "reduce" -> "done"

\* Mutant of Passive: a vertex that was active stays so.
PassiveStay(r) == [r EXCEPT !.delta = 0]
\* A vertex is active in the next pass if an update makes it so.
Passive(r) == [r EXCEPT !.delta = 0, !.active = FALSE]

BcIter(step, r, v) ==
    CASE step = "init_fwd" ->
            Keeps(IF v = Source THEN [path |-> 0, paths |-> 1, delta |-> 1, active |-> TRUE]
                  ELSE [path |-> Infinity, paths |-> 0, delta |-> 0, active |-> FALSE])
      [] step = "init_rev" ->
            Keeps([r EXCEPT !.path = 0, !.delta = IF r.paths > 0 THEN Scale \div r.paths ELSE 0,
                            !.active = r.paths > 0])
      [] step \in {"update_path", "update_bc"} ->
            Keeps(Passive(r))
      [] step = "calc_max" ->
            Did(r, {}, IF v = Source THEN EmptyBag ELSE Counted(v, r.path))

Longer(path, w) == IF path = Infinity THEN Infinity ELSE path + w

SendPath(r, e) ==
    Writes(r, IF r.active THEN {[key |-> e.dst, length |-> Longer(r.path, e.weight),
                                 delta |-> r.delta, id |-> e.id]}
              ELSE {})

\* Mutant of UpdatePath: all the paths are sent on again when more are found.
UpdatePathAll(r, u) ==
    Keeps(CASE u.length < r.path ->
                  [path |-> u.length, paths |-> u.delta, delta |-> u.delta, active |-> TRUE]
            [] u.length = r.path ->
                  [r EXCEPT !.paths = @ + u.delta, !.delta = r.paths + u.delta, !.active = TRUE]
            [] OTHER -> r)
\* A shorter path replaces those counted before; only the new ones are sent on.
UpdatePath(r, u) ==
    Keeps(CASE u.length < r.path ->
                  [path |-> u.length, paths |-> u.delta, delta |-> u.delta, active |-> TRUE]
            [] u.length = r.path ->
                  [r EXCEPT !.paths = @ + u.delta, !.delta = @ + u.delta, !.active = TRUE]
            [] OTHER -> r)

GenRevOut(r, e) ==
    Writes(r, {[key |-> e.dst, dst |-> e.key, weight |-> Longer(r.path, e.weight), id |-> e.id]})
GenRevIn(r, e) == Writes(r, IF e.weight <= r.path THEN {e} ELSE {})

SendBc(r, e) ==
    Writes(r, IF r.active THEN {[key |-> e.dst, delta |-> r.delta, id |-> e.id]} ELSE {})
UpdateBc(r, u) ==
    Keeps([r EXCEPT !.delta = @ + u.delta, !.path = @ + r.paths * u.delta, !.active = TRUE])

BcItem(step, r, m) ==
    CASE step = "init_fwd" -> Writes(r, {m})
      [] step = "send_path" -> SendPath(r, m)
      [] step = "update_path" -> UpdatePath(r, m)
      [] step = "gen_rev_out" -> GenRevOut(r, m)
      [] step = "gen_rev_in" -> GenRevIn(r, m)
      [] step = "send_bc" -> SendBc(r, m)
      [] step = "update_bc" -> UpdateBc(r, m)

\* reduce keeps the largest value a processor has seen.
MaxCentrality(total) == {v \in BagToSet(total) : \A u \in BagToSet(total) : total[u] <= total[v]}
=============================================================================
