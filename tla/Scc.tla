---------------------------------- MODULE Scc ----------------------------------
(* algorithms/scc/scc.hpp: strongly connected components.  The smallest    *)
(* label is spread along the edges, the edges within a label are turned    *)
(* round and the others dropped, and so again on the edges turned round: a *)
(* vertex that gets the same label both ways has found its component.      *)
EXTENDS StreamCallbacks

Label(in, out) == <<Drain("wcc_in", in, NONE), Read("wcc_out", "edges", out)>>
SccPasses ==
    [split |-> <<Read("split_edges", "init", "edges")>>,
     start |-> <<Iter("wcc_in")>> \o Label("messages0", "messages1"),
     odd |-> Label("messages1", "messages0"),
     even |-> Label("messages0", "messages1"),
     push |-> <<Drain("elim_push", "edges", "messages0")>>,
     write |-> <<Drain("elim_write", "messages0", "edges")>>,
     count |-> <<Iter("count_scc")>>,
     terminate |-> <<Cpu("terminate")>>]

SccStreams == {"init", "edges", "messages0", "messages1"}

\* Only the first super partition of all is not read: of the others the first
\* reading finds nothing, and what is read is overwritten.
SccLoads(pass, superp, n) == n.scc > 0 \/ pass # "start" \/ superp > 0

SccClock == [wcc |-> 0, scc |-> 0]

SccFolds(step) == CASE step = "elim_write" -> {"elims"}
                    [] step = "terminate" -> {"scc"}
                    [] OTHER -> {}

\* The main loop goes on while there are edges; half of its body is a labelling
\* and an elimination.
SccAfter(pass, n, streams, total, edges) ==
    LET cc(out) == IF streams[out] # {}
                   THEN [pass |-> IF out = "messages0" THEN "even" ELSE "odd",
                         clock |-> [n EXCEPT !.wcc = @ + 1]]
                   ELSE [pass |-> "push", clock |-> [wcc |-> n.wcc + 1, scc |-> n.scc + 1]]
    IN CASE pass \in {"start", "even"} -> cc("messages1")
         [] pass = "odd" -> cc("messages0")
         [] pass = "push" -> [pass |-> "write", clock |-> n]
         [] pass = "write" -> [pass |-> IF n.scc % 2 = 1 \/ edges > CopiesIn("elims", total)
                                        THEN "start" ELSE "count",
                               clock |-> [n EXCEPT !.wcc = 0]]
         [] pass = "split" -> [pass |-> "start", clock |-> n]
         [] pass = "count" -> [pass |-> "terminate", clock |-> n]
         [] pass = "terminate" -> [pass |-> "done", clock |-> n]

SccFound(r) == r.prev_root = r.component_root
SccIter(step, r, v, n) ==
    CASE step = "count_scc" ->
            Did(r, {}, IF SccFound(r) /\ r.component_root = v THEN One("scc") ELSE EmptyBag)
      [] step # "count_scc" /\ n.scc = 0 ->
            Keeps([prev_root |-> NONE, component_root |-> v, update_iteration |-> 0])
      [] step # "count_scc" /\ n.scc > 0 ->
            Keeps(IF SccFound(r) THEN [r EXCEPT !.update_iteration = NONE]
                  ELSE [prev_root |-> r.component_root, component_root |-> v, update_iteration |-> 0])

WccIn(r, m, n) ==
    Keeps(IF r.component_root > m.component
          THEN [r EXCEPT !.component_root = m.component, !.update_iteration = n.wcc] ELSE r)

Message(r, e) == [key |-> e.dst, src |-> e.key, component |-> r.component_root, id |-> e.id]
WccOut(r, e, n) == Writes(r, IF r.update_iteration = n.wcc THEN {Message(r, e)} ELSE {})
ElimPush(r, e) == Writes(r, {Message(r, e)})

\* Mutant of ElimWrite: the edges that are kept are not turned round.
ElimWriteForward(r, m) ==
    IF m.component = r.component_root /\ ~SccFound(r)
    THEN Writes(r, {[key |-> m.src, dst |-> m.key, id |-> m.id]})
    ELSE Did(r, {}, One("elims"))
ElimWrite(r, m) ==
    IF m.component = r.component_root /\ ~SccFound(r)
    THEN Writes(r, {[key |-> m.key, dst |-> m.src, id |-> m.id]})
    ELSE Did(r, {}, One("elims"))

SccItem(step, r, m, n) ==
    CASE step = "split_edges" -> Writes(r, {[key |-> m.key, dst |-> m.dst, id |-> m.id]})
      [] step = "wcc_in" -> WccIn(r, m, n)
      [] step = "wcc_out" -> WccOut(r, m, n)
      [] step = "elim_push" -> ElimPush(r, m)
      [] step = "elim_write" -> ElimWrite(r, m)
=============================================================================
