------------------------------ MODULE MCPrograms ------------------------------
(* The programs on small graphs.  Graphs of four vertices are given by their *)
(* pairs of vertices; the ids of a path do not follow it, so that labels     *)
(* travel against it and back.                                               *)
EXTENDS Programs

Edge(p, w) == [src |-> p[1], dst |-> p[2], w |-> w]
Directed(ps) == {Edge(p, 1) : p \in ps}
Both(ps) == Directed(ps) \cup {Edge(<<p[2], p[1]>>, 1) : p \in ps}
Pairs == {p \in Vertices \X Vertices : p[1] < p[2]}

\* All undirected graphs of up to five edges.
Undirected == {Both(ps) : ps \in {qs \in SUBSET Pairs : Cardinality(qs) < 6}}
Few == {Both({<<0, 3>>, <<3, 1>>, <<1, 2>>}), Both({<<0, 1>>, <<0, 2>>, <<1, 2>>}),
        Both({<<1, 2>>, <<0, 3>>}), {}}
Ring == Directed({<<0, 2>>, <<2, 1>>, <<1, 3>>, <<3, 0>>, <<0, 1>>})
Fan == Directed({<<0, 1>>, <<0, 2>>, <<2, 3>>, <<1, 3>>, <<3, 3>>})
\* The light way to 3 has more edges than the heavy one, and comes back.
Detour == {Edge(<<0, 3>>, 5), Edge(<<0, 1>>, 1), Edge(<<1, 2>>, 1), Edge(<<2, 3>>, 1), Edge(<<3, 1>>, 1)}
Heavy == Both({<<0, 1>>, <<2, 3>>}) \cup {Edge(<<0, 3>>, 5), Edge(<<3, 0>>, 5), Edge(<<1, 2>>, 2), Edge(<<2, 1>>, 2)}
OutOfRange == Directed({<<0, 1>>, <<1, 4>>})

\* Vertices 0 and 3 have the same register and the same bit, 2 a later bit.
MCJenkins == [v \in Vertices |-> <<2, 3, 4, 6>>[v + 1]]

Job(bs, gs, ns, asks) == [bench : bs, graph : gs, supers : ns, ask : asks]
MCJobs ==
    Job({"mis", "cc", "bfs_forest", "checkbip"}, Undirected, {1, 2}, {TRUE})
    \cup Job({"mis", "cc", "hyperanf"}, Few, {2}, {FALSE})
    \cup Job({"sssp_forest"}, {Heavy} \cup Few, {1, 2}, {TRUE})
    \cup Job({"sssp"}, {Detour, Heavy, Fan}, {1, 2}, {TRUE, FALSE})
    \cup Job({"bfs_async"}, {Ring, Fan, Detour} \cup Few, {1, 2}, {FALSE})
    \cup Job({"bfs_py"}, {Ring, Fan, Detour}, {4}, {FALSE})  \* one partition in memory
    \cup Job({"degree_cnt", "conductance", "range_check", "spmv"}, {Ring, Fan, Detour}, {1, 2}, {TRUE})
    \cup Job({"range_check"}, {OutOfRange}, {1}, {TRUE})
    \cup Job({"pagerank", "pagerank_ddf", "hyperanf"}, {Ring, Fan, Detour} \cup Few, {1, 2}, {TRUE})
=============================================================================
