------------------------------ MODULE MCLayout ------------------------------
(* Nine edges on pages of two, buffers of four to eight items, and one       *)
(* machine for every way the partitions can come out: tuned or given, more   *)
(* cached or more super partitions, one pass of the splitter or two, a last  *)
(* pass with fewer bits, quicksort, and values that are refused.             *)
EXTENDS Layout

MCSrc(e) == (5 * e + 1) % 7
MCDest(e) == (3 * e) % 7

Given(processors, supers, cached, fanout, ram) ==
    [vertices |-> 7, processors |-> processors, vertexSize |-> 1, cacheVertices |-> 1,
     cacheLines |-> 2, ram |-> ram, maxBuffers |-> 2, ioqs |-> 1, objects |-> 0, qsort |-> FALSE,
     auto |-> FALSE, supers |-> supers, cached |-> cached, fanout |-> fanout, streamUnit |-> 0]
Auto(ram) == [Given(2, 1, 1, 1, ram) EXCEPT !.auto = TRUE, !.vertices = 8, !.vertexSize = 4]
Quick(m) == [m EXCEPT !.qsort = TRUE]

MCMachines == {Auto(80), Auto(60), Given(2, 2, 4, 2, 60), Given(2, 4, 2, 4, 48), Given(1, 1, 8, 4, 79),
               Quick(Given(2, 2, 4, 2, 54)), Given(1, 2, 6, 2, 60), Given(1, 2, 4, 2, 30)}
=============================================================================
