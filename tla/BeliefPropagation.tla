--------------------------- MODULE BeliefPropagation ---------------------------
(* algorithms/belief_propagation: bp.hpp and bp_graphchi.hpp.  In an       *)
(* iteration a vertex multiplies the messages that come in and answers     *)
(* each with the product, divided by that message.                         *)
(*                                                                         *)
(* A message, product or belief is abstracted to the vertices whose        *)
(* potential it holds and how often: products add, quotients subtract.     *)
(* What the sums over the states make of the values is left out, and so    *)
(* are the rescaling, the normalisation and the bounds.  The messages of   *)
(* bp begin with the edge's weight, which is no vertex's potential.        *)
EXTENDS StreamCallbacks

Nothing == [v \in Vertices |-> 0]
Prior(v) == [Nothing EXCEPT ![v] = 1]
Plus(a, b) == [v \in Vertices |-> a[v] + b[v]]
Minus(a, b) == [v \in Vertices |-> a[v] - b[v]]

\* A superstep reads the stream twice and empties it.
Exchange(in, out) == <<Iter("init"), Read("absorb", in, NONE), Iter("rescale"), Drain("emit", in, out)>>
BpPasses ==
    [gen |-> <<Read("gen_edge_potential", "init", "updates0")>>,
     even |-> Exchange("updates1", "updates0"),
     odd |-> Exchange("updates0", "updates1")]

BpStreams == {"init", "updates0", "updates1"}
BpLoads(n) == n.bsp_phase > 0

BpClock == [bsp_phase |-> 0]

BpAfter(pass, n) ==
    LET phase == IF pass = "gen" THEN 0 ELSE n.bsp_phase + 1
    IN [pass |-> IF phase >= Niters THEN "done" ELSE IF phase % 2 = 0 THEN "even" ELSE "odd",
        clock |-> [bsp_phase |-> phase]]

(* bp: the potentials of a vertex are always 0.5, its own *)

BpIter(step, r, v) == Keeps(IF step = "init" THEN [product |-> Nothing, belief |-> Prior(v)] ELSE r)
BpGen(r, e) ==
    Writes(r, {[key |-> e.dst, src |-> e.key, msg |-> Nothing, id |-> e.id],
               [key |-> e.key, src |-> e.dst, msg |-> Nothing, id |-> e.id + 100]})
Absorb(r, u) == Keeps([r EXCEPT !.product = Plus(@, u.msg)])
\* Mutant of BpEmit: the message that is answered is not divided out.
BpEmitAll(r, u) ==
    Writes(r, {[u EXCEPT !.key = u.src, !.src = u.key, !.msg = Plus(r.belief, r.product)]})
BpEmit(r, u) ==
    Writes(r, {[u EXCEPT !.key = u.src, !.src = u.key,
                         !.msg = Minus(Plus(r.belief, r.product), u.msg)]})

(* bp_graphchi: the belief of a vertex that is no seed is its prior and the *)
(* product; that of a seed stays its prior                                  *)

GraphchiIter(step, r, v, n, seeds) ==
    Keeps(CASE step = "init" /\ n.bsp_phase = 0 -> [product |-> Nothing, belief |-> Prior(v)]
            [] step = "init" /\ n.bsp_phase > 0 -> [r EXCEPT !.product = Nothing]
            [] step = "rescale" -> IF v \in seeds THEN r
                                   ELSE [r EXCEPT !.belief = Plus(Prior(v), r.product)])
GraphchiGen(r, e) ==
    Writes(r, {[key |-> e.dst, src |-> e.key, msg |-> Prior(e.key), id |-> e.id],
               [key |-> e.key, src |-> e.dst, msg |-> Prior(e.dst), id |-> e.id + 100]})
GraphchiEmit(r, u) ==
    Writes(r, {[u EXCEPT !.key = u.src, !.src = u.key, !.msg = Minus(r.belief, u.msg)]})

BpItem(step, r, m) ==
    CASE step = "gen_edge_potential" -> BpGen(r, m)
      [] step = "absorb" -> Absorb(r, m)
      [] step = "emit" -> BpEmit(r, m)
GraphchiItem(step, r, m) ==
    CASE step = "gen_edge_potential" -> GraphchiGen(r, m)
      [] step = "absorb" -> Absorb(r, m)
      [] step = "emit" -> GraphchiEmit(r, m)
=============================================================================
