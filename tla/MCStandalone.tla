----------------------------- MODULE MCStandalone -----------------------------
(* The programs on the streams on small graphs of four vertices. *)
EXTENDS Standalone

Edge(u, v, w) == [src |-> u, dst |-> v, w |-> w]
Both(es) == es \cup {Edge(e.dst, e.src, e.w) : e \in es}
Arc(p) == Edge(p[1], p[2], 1)
Arcs1(ps) == {Arc(p) : p \in ps}
Pairs == {p \in Vertices \X Vertices : p[1] < p[2]}

Square == {Edge(0, 1, 1), Edge(1, 2, 3), Edge(2, 3, 1), Edge(0, 3, 2), Edge(1, 1, 1)}
Even == {Edge(0, 1, 1), Edge(1, 2, 1), Edge(0, 2, 1), Edge(2, 3, 1)}
Weighted == {Both(Square), Both(Even)}
            \cup {Both({Edge(p[1], p[2], 1 + ((p[1] * p[2]) % 3)) : p \in ps}) : ps \in {qs \in SUBSET Pairs : Cardinality(qs) \notin 2..4}}

Directed == {Arcs1(ps \cup {<<2, 0>>}) :
                ps \in Sets!kSubset(3, {p \in Vertices \X Vertices : p[1] # p[2]} \ {<<2, 0>>})}
Cycle == Arcs1({<<0, 2>>, <<2, 1>>, <<1, 0>>, <<1, 3>>, <<3, 3>>})
Twins == Arcs1({<<0, 1>>, <<1, 0>>, <<1, 2>>, <<2, 3>>, <<3, 2>>})
Line == Arcs1({<<0, 1>>, <<1, 2>>, <<2, 3>>})

Diamond == {Edge(0, 1, 1), Edge(0, 2, 1), Edge(1, 3, 1), Edge(2, 3, 1), Edge(1, 2, 1), Edge(3, 0, 1)}
Detour == {Edge(0, 3, 5), Edge(0, 1, 1), Edge(1, 2, 1), Edge(2, 3, 3), Edge(1, 3, 4)}
Late == {Edge(0, 1, 2), Edge(0, 2, 1), Edge(2, 1, 1), Edge(1, 3, 1), Edge(0, 3, 3)}
Triangle == Both(Arcs1({<<0, 1>>, <<1, 2>>, <<0, 2>>, <<2, 3>>}))
Star == Arcs1({<<0, 1>>, <<2, 1>>, <<1, 3>>})

Job(b, gs, ns) == {[bench |-> b, graph |-> g, supers |-> n] : g \in gs, n \in ns}
Draws == {[n \in 0..Niters - 1 |-> IF n = 0 THEN a ELSE b] :
             a, b \in {<<1, 2, 3, 4>>, <<4, 1, 3, 2>>, <<2, 3, 1, 4>>}}
Drawn(d) == [n \in DOMAIN d |-> [v \in Vertices |-> d[n][v + 1]]]

MCJobs ==
    Job("mcst", Weighted, {1, 2})
    \cup Job("scc", {Cycle, Twins, Line}, {1, 2}) \cup Job("scc", Directed, {2})
    \cup Job("bc", {Diamond, Detour, Late}, {1, 2}) \cup Job("bc", Directed, {1})
    \cup Job("reverse", {Cycle}, {1})
    \cup {[bench |-> "triangle_counting", graph |-> g, supers |-> n, draw |-> Drawn(d)] :
             g \in {Triangle}, n \in {1, 2}, d \in Draws}
    \cup {[bench |-> b, graph |-> g, supers |-> n, seeds |-> s] :
             b \in {"belief_propagation", "graphchi"}, g \in {Line, Star}, n \in {1, 2}, s \in {{}, {1}}}
    \cup {[bench |-> "cc_online", graph |-> UNION {bs[i] : i \in DOMAIN bs}, supers |-> n, batches |-> bs] :
             n \in {1, 2},
             bs \in {<<Both(Arcs1({<<0, 1>>, <<2, 3>>})), Both(Arcs1({<<1, 3>>}))>>,
                     <<Arcs1({<<2, 1>>, <<3, 2>>}), Arcs1({<<1, 2>>, <<0, 3>>}), Arcs1({<<2, 3>>, <<3, 0>>})>>}}
=============================================================================
