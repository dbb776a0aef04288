--------------------------- MODULE OnlineComponents ---------------------------
(* algorithms/cc/cc_online.hpp: components of a graph whose edges arrive   *)
(* while the program runs.  The edges of a batch are played before those   *)
(* of the stream, which they join at the end of the pass.                  *)
EXTENDS StreamCallbacks

OnlinePasses ==
    [ingest |-> <<>>,
     first |-> <<Iter("init"), Read("updates_out_ingest", "ingest", "updates"),
                 Read("updates_out", "edges", "updates")>>,
     out |-> <<Read("updates_out_ingest", "ingest", "updates"),
               Read("updates_out", "edges", "updates")>>,
     merge |-> <<>>,
     in |-> <<Drain("updates_in", "updates", NONE), Cpu("updates_in")>>]

OnlineStreams == {"edges", "updates"}
OnlineLoads(pass, superp) == pass # "first" \/ superp > 0

OnlineClock == [bfs |-> 0]
OnlineFolds(step) == IF step = "updates_out" THEN {"merges"} ELSE {}

OnlineAfter(pass, n) ==
    [pass |-> IF pass \in {"first", "out"} THEN "merge" ELSE "out", clock |-> n]

OnlineIter(v) == [component |-> v, update |-> 0]

\* A vertex that loses its own label ends its component.
UpdatesIn(r, m, n) ==
    IF r.component > m.component
    THEN Did([component |-> m.component, update |-> n.bfs], {},
             IF r.component = m.key THEN One("merges") ELSE EmptyBag)
    ELSE Keeps(r)

\* Mutant of UpdatesOut: only labels that changed go along the new edges.
UpdatesOutChanged(r, e, n, ingest) ==
    Writes(r, IF r.update = n.bfs
              THEN {[key |-> e.dst, component |-> r.component, id |-> e.id]} ELSE {})
\* The label goes along an edge that is new or whose source has just changed.
UpdatesOut(r, e, n, ingest) ==
    LET new == IF ingest THEN [r EXCEPT !.update = n.bfs] ELSE r
    IN Writes(new, IF new.update = n.bfs
                   THEN {[key |-> e.dst, component |-> new.component, id |-> e.id]} ELSE {})

OnlineItem(step, r, m, n) ==
    CASE step = "updates_out_ingest" -> UpdatesOut(r, m, n, TRUE)
      [] step = "updates_out" -> UpdatesOut(r, m, n, FALSE)
      [] step = "updates_in" -> UpdatesIn(r, m, n)
=============================================================================
