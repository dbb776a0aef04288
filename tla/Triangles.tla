------------------------------- MODULE Triangles -------------------------------
(* algorithms/triangles/triangle_counting.hpp: in each iteration every     *)
(* vertex draws a hash and learns the least hash of its neighbours; z of   *)
(* an edge counts the iterations in which its ends learnt the same.        *)
(*                                                                         *)
(* draw[n][v], the hash vertex v draws in iteration n, is given, as the    *)
(* generators are seeded with a constant.  Counts of triangles are         *)
(* multiples of 1/Scale.                                                   *)
EXTENDS StreamCallbacks

Looped(step) == [step EXCEPT !.loopback = TRUE]
TcPasses ==
    [hstream |-> <<Read("init_hstream", "init", "edges")>>,
     zstream |-> <<Read("init_zstream", "edges", "z0")>>,
     hash |-> <<Iter("compute_hash"), Looped(Read("send_hash", "edges", "hash"))>>,
     zout |-> <<Drain("rcv_hash", "hash", NONE), Drain("zout", "z0", "z1")>>,
     zin |-> <<Drain("zin", "z1", "z0")>>,
     rollup |-> <<Drain("rollup", "z0", NONE), Iter("rollup"), Cpu("rollup")>>]

\* With one super partition the edges are read where they are.
TcStreams == {"init", "edges", "hash", "z0", "z1"}
\* In the first iteration nothing is read, in its second and third pass either.
TcLoads(n) == n.bsp_phase > 0

TcClock == [bsp_phase |-> 0]
TcFolds(step) == IF step = "rollup" THEN {"triangles"} ELSE {}

TcAfter(pass, n) ==
    CASE pass = "hstream" -> [pass |-> "zstream", clock |-> n]
      [] pass = "zstream" -> [pass |-> IF Niters > 0 THEN "hash" ELSE "rollup", clock |-> n]
      [] pass = "hash" -> [pass |-> "zout", clock |-> n]
      [] pass = "zout" -> [pass |-> "zin", clock |-> n]
      [] pass = "zin" -> [pass |-> IF n.bsp_phase + 1 < Niters THEN "hash" ELSE "rollup",
                          clock |-> [bsp_phase |-> n.bsp_phase + 1]]
      [] pass = "rollup" -> [pass |-> "done", clock |-> n]

TcIter(step, r, v, n, draw) ==
    CASE step = "compute_hash" ->
            LET hash == draw[n.bsp_phase][v]
            IN Keeps(IF n.bsp_phase = 0
                     THEN [hash |-> hash, min_adj |-> Infinity, incident |-> 0, degree |-> 0]
                     ELSE [r EXCEPT !.hash = hash, !.min_adj = Infinity])
      [] step = "rollup" ->
            LET half == r.incident \div 2
            IN Did([r EXCEPT !.incident = half], {}, Counted("triangles", half))

RcvHash(r, u) == Keeps(IF u.hash < r.min_adj THEN [r EXCEPT !.min_adj = u.hash] ELSE r)

\* The degree is counted in the first iteration.
\* Mutant of SendHash: it is counted in every iteration.
SendHashAll(r, e, n) ==
    Writes([r EXCEPT !.degree = @ + 1], {[key |-> e.dst, hash |-> r.hash, id |-> e.id]})
SendHash(r, e, n) ==
    Writes(IF n.bsp_phase = 0 THEN [r EXCEPT !.degree = @ + 1] ELSE r,
           {[key |-> e.dst, hash |-> r.hash, id |-> e.id]})

InitZ(r, e) == Writes(r, {[key |-> e.key, other |-> e.dst, z |-> 0, min |-> NONE, id |-> e.id]})
Zout(r, z) == Writes(r, {[z EXCEPT !.key = z.other, !.other = z.key, !.min = r.min_adj]})
Zin(r, z) ==
    Writes(r, {[z EXCEPT !.key = z.other, !.other = z.key, !.min = r.degree,
                         !.z = IF z.min = r.min_adj THEN @ + 1 ELSE @]})
Rollup(r, z) ==
    Keeps([r EXCEPT !.incident = @ + (Scale * z.z * (z.min + r.degree)) \div (z.z + Niters)])

TcItem(step, r, m, n) ==
    CASE step = "init_hstream" -> Writes(r, {m})
      [] step = "init_zstream" -> InitZ(r, m)
      [] step = "send_hash" -> SendHash(r, m, n)
      [] step = "rcv_hash" -> RcvHash(r, m)
      [] step = "zout" -> Zout(r, m)
      [] step = "zin" -> Zin(r, m)
      [] step = "rollup" -> Rollup(r, m)
=============================================================================
