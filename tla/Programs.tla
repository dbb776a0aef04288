------------------------------- MODULE Programs -------------------------------
(* The drivers running the other vertex programs: core/sg_driver.hpp, its  *)
(* asynchronous variant core/sg_driver_async.hpp, which loops updates for  *)
(* the super partition in memory back at once, and core/                   *)
(* sg_driver_python.hpp, whose gather activates every partition.           *)
(* benchmarks/driver.cpp runs one program by its name.                     *)
(*                                                                         *)
(* Here a superstep goes update by update and edge by edge, and the result *)
(* of every program is compared with what it is supposed to compute.  The  *)
(* pages and blocks behind the streams are those of SGDriver.              *)
(*                                                                         *)
(* check_bsp of bfs_forest, pagerank, spmv, conductance, range_check and   *)
(* checkbip fails an assertion; they are modelled as built without         *)
(* assertions.                                                             *)
EXTENDS VertexPrograms, Sequences, FiniteSetsExt

CONSTANTS CachedPartitions,
          Jobs         \* bench, the program; graph, a set of edges; supers, the
                       \* number of super partitions; ask, whether the edge file
                       \* is larger than the filters' limit of vertices

ASSUME JobsAssumption ==
    \A j \in Jobs : /\ j.supers \in Nat \ {0} /\ j.ask \in BOOLEAN
                    /\ \A e \in j.graph : {e.src, e.dst} \subseteq Nat /\ e.w \in Nat

VARIABLES job,       \* the program that runs, and what it runs on
          pc,        \* the next phase of operator()
          phase,     \* bsp_phase
          superp,    \* i
          state,     \* state_buffer: the records of the super partition in memory
          disk,      \* the vertex file
          in, out,   \* the update streams
          active,    \* scatter_filter: the queued partitions
          todo,      \* the edges of this scatter that are not read yet
          pend,      \* updates in the output buffer of an asynchronous scatter
          vote,      \* no processor has seen an activation this superstep
          cpu,       \* the per-processor data, summed over the processors
          total      \* the program's static counters

vars == <<job, pc, phase, superp, state, disk, in, out, active, todo, pend, vote, cpu, total>>

bench == job.bench
Graph == job.graph
Async == bench = "bfs_async"
Python == bench = "bfs_py"

Supers == 0..job.supers - 1
SuperOf(v) == v % job.supers
PartitionOf(v) == (v \div job.supers) % CachedPartitions
VerticesOf(s) == {v \in Vertices : SuperOf(v) = s}

Blank == [bsp_phase |-> 0, count |-> 0, degree |-> 0]      \* zeroed memory

Init == /\ job \in Jobs
        /\ pc = "begin" /\ phase = 0 /\ superp = 0
        /\ state = [v \in VerticesOf(0) |-> Blank]
        /\ disk = [v \in Vertices |-> Blank]
        /\ in = {} /\ out = {} /\ active = {} /\ todo = {} /\ pend = {}
        /\ vote = FALSE /\ cpu = EmptyBag /\ total = EmptyBag

-----------------------------------------------------------------------------
(* The callbacks of the program that runs *)

MinSuperPhases == CASE bench = "degree_cnt" -> 0
                    [] bench \in {"pagerank", "pagerank_ddf"} -> 2
                    [] OTHER -> 1

\* Mutant of NeedInit: every program initialises in the first superstep only.
NeedInitOnce == phase = 0
NeedInit == CASE bench \in {"mis", "pagerank", "hyperanf"} -> TRUE
              [] bench = "pagerank_ddf" -> phase < 2
              [] OTHER -> phase = 0

InitOf(r, v) ==
    CASE bench = "mis" -> Did(MisInit, TRUE)
      [] bench = "cc" -> Did(CcInit(v), TRUE)
      [] bench = "sssp" -> SsspInit(v)
      [] bench = "sssp_forest" -> Did(ForestInit(v), TRUE)
      [] bench = "bfs_forest" -> Did(BfsForestInit(v), TRUE)
      [] bench \in {"bfs_async", "bfs_py"} -> Did(AsyncInit(v, r), v = Root)
      [] bench = "degree_cnt" -> Did([degree |-> 0], TRUE)
      [] bench \in {"conductance", "range_check"} -> Did(r, TRUE)
      [] bench = "checkbip" -> Did([side |-> 0], TRUE)
      [] bench = "spmv" -> Did(SpmvInit(v), TRUE)
      [] bench = "pagerank" -> Did(RankInit(r, phase), TRUE)
      [] bench = "pagerank_ddf" -> Did(DdfInit(r, phase), TRUE)
      [] bench = "hyperanf" -> AnfInit(r, v, phase)

Apply(r, u, loopback) ==
    CASE bench = "mis" -> MisApply(r)
      [] bench = "cc" -> CcApply(r, u, phase)
      [] bench = "sssp" -> SsspApply(r, u, phase)
      [] bench = "sssp_forest" -> ForestApply(r, u, phase)
      [] bench = "bfs_forest" -> BfsForestApply(r, u, phase)
      [] bench = "bfs_async" -> AsyncApply(r, u, phase, loopback)
      [] bench = "bfs_py" -> PyApply(r, u, phase)
      [] bench = "checkbip" -> BipApply(r, u)
      [] bench = "spmv" -> SpmvApply(r, u)
      [] bench = "pagerank" -> RankApply(r, u, phase)
      [] bench = "pagerank_ddf" -> DdfApply(r, u, phase)
      [] bench = "hyperanf" -> AnfApply(r, u)

Generate(r, e) ==
    CASE bench = "mis" -> MisGenerate(r, e)
      [] bench = "cc" -> CcGenerate(r, phase)
      [] bench = "sssp" -> SsspGenerate(r, e, phase)
      [] bench = "sssp_forest" -> ForestGenerate(r, e, phase)
      [] bench = "bfs_forest" -> BfsForestGenerate(r, e, phase)
      [] bench = "bfs_async" -> AsyncGenerate(r, e, phase)
      [] bench = "bfs_py" -> PyGenerate(r, e, phase)
      [] bench = "degree_cnt" -> DegreeGenerate(r)
      [] bench = "conductance" -> ConductanceGenerate(r, e)
      [] bench = "range_check" -> RangeGenerate(r, e)
      [] bench = "checkbip" -> BipGenerate(r, e)
      [] bench = "spmv" -> SpmvGenerate(r, e)
      [] bench = "pagerank" -> RankGenerate(r, phase)
      [] bench = "pagerank_ddf" -> DdfGenerate(r, phase)
      [] bench = "hyperanf" -> AnfGenerate(r)

Check(r) ==
    CASE bench = "mis" -> MisCheck(r)
      [] bench = "cc" -> CcCheck(r, phase)
      [] bench = "sssp" -> SsspCheck(r, phase)
      [] bench = "sssp_forest" -> ForestCheck(r, phase)
      [] bench = "pagerank_ddf" -> DdfCheck(r)
      [] bench = "hyperanf" -> AnfCheck(r)
      [] OTHER -> TRUE

\* check_reset_changed: whether the record is written back.
Changed(r) == bench \in {"cc", "sssp", "pagerank_ddf"} => r.changed
Reset(r) == IF bench \in {"cc", "sssp", "pagerank_ddf"} THEN [r EXCEPT !.changed = FALSE] ELSE r

\* reduce: what becomes of the static counters, and whether to stop.
Reduced == IF bench \in {"mis", "hyperanf"} THEN cpu ELSE total (+) cpu
Stop == CASE bench = "mis" -> MisStop(CopiesIn("voted_out", total), CopiesIn("voted_out", cpu))
          [] bench = "bfs_async" -> AsyncStop(CopiesIn("local_seen_update", cpu))
          [] bench = "hyperanf" ->
                AnfStop(phase, CopiesIn("neighbours", total), CopiesIn("neighbours", cpu))
          [] OTHER -> FALSE

-----------------------------------------------------------------------------
(* One superstep *)

\* superphase_begin
Begin ==
    /\ pc = "begin"
    /\ vote' = TRUE /\ superp' = 0 /\ pc' = "load"
    /\ UNCHANGED <<job, phase, state, disk, in, out, active, todo, pend, cpu, total>>

\* state_load and state_prepare, then the iteration over the vertices with
\* init; the partition of a vertex for which it returns true is queued.
Load ==
    /\ pc = "load"
    /\ LET loaded == [v \in VerticesOf(superp) |->
                        IF job.supers = 1 THEN state[v]
                        ELSE IF phase > 0 THEN disk[v] ELSE Blank]
           new == [v \in VerticesOf(superp) |-> InitOf(loaded[v], v)]
       IN IF NeedInit
          THEN /\ state' = [v \in VerticesOf(superp) |-> new[v].rec]
               /\ active' = IF Async THEN {}
                            ELSE active \cup {PartitionOf(v) : v \in {w \in DOMAIN new : new[w].yes}}
               /\ cpu' = FoldSet(LAMBDA v, c : c (+) new[v].add, cpu, DOMAIN new)
          ELSE state' = loaded /\ UNCHANGED <<active, cpu>>
    /\ pc' = "gather"
    /\ UNCHANGED <<job, phase, superp, disk, in, out, todo, pend, vote, total>>

Waiting == {u \in in : SuperOf(u.to) = superp}

\* partition_callback in phase_gather: one update, in any order.
Gather ==
    /\ pc = "gather"
    /\ \E u \in Waiting :
         LET did == Apply(state[u.to], u, FALSE)
             activate == ~Async /\ (did.yes \/ Python)
         IN /\ state' = [state EXCEPT ![u.to] = did.rec]
            /\ cpu' = cpu (+) did.add
            /\ active' = IF activate THEN active \cup {PartitionOf(u.to)} ELSE active
            /\ vote' = (vote /\ ~activate)
            /\ in' = in \ {u}
    /\ UNCHANGED <<job, pc, phase, superp, disk, out, todo, pend, total>>

\* The edges of the queued partitions; when the filters are asked they can
\* leave out the pages without an edge of a vertex for which check_bsp holds.
Asked == ~Async /\ ~Python /\ job.ask /\ phase >= MinSuperPhases - 1 /\ MinSuperPhases > 0
EdgesOfSuper == {e \in Graph : SuperOf(e.src) = superp /\ (Async \/ PartitionOf(e.src) \in active)}

Ask ==
    /\ pc = "gather" /\ Waiting = {}
    /\ todo' = IF Asked THEN {e \in EdgesOfSuper : Check(state[e.src])} ELSE EdgesOfSuper
    /\ pc' = "scatter"
    /\ UNCHANGED <<job, phase, superp, state, disk, in, out, active, pend, vote, cpu, total>>

Place(e) == 100 * e.src + e.dst        \* of an edge in the file

\* partition_callback in phase_scatter: the next edge.
Scatter ==
    /\ pc = "scatter" /\ todo # {}
    /\ LET e == CHOOSE x \in todo : \A y \in todo : Place(x) <= Place(y)
           did == Generate(state[e.src], e)
           sent == IF did.yes THEN {[to |-> e.dst, from |-> e.src, val |-> did.val]} ELSE {}
       IN /\ state' = [state EXCEPT ![e.src] = did.rec]
          /\ cpu' = cpu (+) did.add
          /\ todo' = todo \ {e}
          /\ IF Async THEN pend' = pend \cup sent /\ UNCHANGED out
                      ELSE out' = out \cup sent /\ UNCHANGED pend
    /\ UNCHANGED <<job, pc, phase, superp, disk, in, active, vote, total>>

\* flush_buffer with loopback: when the output buffer is full or the scatter
\* ends, the updates for this super partition are applied, the others written.
Here == {u \in pend : SuperOf(u.to) = superp}
Flush ==
    /\ pc = "scatter" /\ pend # {}
    /\ out' = out \cup (pend \ Here) /\ pend' = Here /\ pc' = "loopback"
    /\ UNCHANGED <<job, phase, superp, state, disk, in, active, todo, vote, cpu, total>>

\* Mutant of LoopBack: an applied update stays in the buffer.
LoopBackKeep ==
    /\ pc = "loopback"
    /\ \/ /\ pend = {} /\ pc' = "scatter"
          /\ UNCHANGED <<pend, state, cpu>>
       \/ /\ \E u \in pend :
               LET did == Apply(state[u.to], u, TRUE)
               IN /\ state' = [state EXCEPT ![u.to] = did.rec]
                  /\ cpu' = cpu (+) did.add
          /\ UNCHANGED <<pc, pend>>
    /\ UNCHANGED <<job, phase, superp, disk, in, out, active, todo, vote, total>>

LoopBack ==
    /\ pc = "loopback"
    /\ \/ /\ pend = {} /\ pc' = "scatter"
          /\ UNCHANGED <<pend, state, cpu>>
       \/ /\ \E u \in pend :
               LET did == Apply(state[u.to], u, TRUE)
               IN /\ state' = [state EXCEPT ![u.to] = did.rec]
                  /\ cpu' = cpu (+) did.add
                  /\ pend' = pend \ {u}
          /\ UNCHANGED pc
    /\ UNCHANGED <<job, phase, superp, disk, in, out, active, todo, vote, total>>

\* The changed records are marked and, after post_scatter with the reduction of
\* the last super partition, stored.
Last == superp = job.supers - 1
Store ==
    /\ pc = "scatter" /\ todo = {} /\ pend = {}
    /\ IF job.supers = 1 THEN UNCHANGED disk
       ELSE disk' = [v \in Vertices |->
                       IF v \notin DOMAIN state THEN disk[v]
                       ELSE IF Async \/ Python THEN state[v]
                       ELSE IF Changed(state[v]) THEN Reset(state[v]) ELSE disk[v]]
    /\ active' = {}
    /\ IF Last THEN total' = Reduced /\ cpu' = EmptyBag /\ pc' = IF Stop THEN "stop" ELSE "end"
               ELSE UNCHANGED <<total, cpu>> /\ pc' = "load"
    /\ superp' = IF Last THEN superp ELSE superp + 1
    /\ UNCHANGED <<job, phase, state, in, out, todo, pend, vote>>

\* The driver stops when reduce says so or when every processor votes to stop.
Ends == phase + 1 > MinSuperPhases /\ (pc = "stop" \/ (vote /\ ~Async))

\* The streams change roles; with one super partition the state is stored last.
End ==
    /\ pc \in {"end", "stop"}
    /\ phase' = phase + 1
    /\ in' = out /\ out' = {}
    /\ pc' = IF Ends THEN "done" ELSE "begin"
    /\ disk' = IF Ends /\ job.supers = 1 THEN state ELSE disk
    /\ UNCHANGED <<job, superp, state, active, todo, pend, vote, cpu, total>>

Next == \/ Begin \/ Load \/ Gather \/ Ask \/ Scatter
        \/ Flush \/ LoopBack \/ Store \/ End

Spec == Init /\ [][Next]_vars

\* The driver's loop and the workers go on while there is something to do.
FairSpec == Spec /\ WF_vars(Next)
-----------------------------------------------------------------------------
(* Properties *)

Benches == {"mis", "cc", "sssp", "sssp_forest", "bfs_forest", "bfs_async", "bfs_py",
            "degree_cnt", "conductance", "range_check", "checkbip", "spmv",
            "pagerank", "pagerank_ddf", "hyperanf"}
Updates == [to : Vertices, from : Vertices,
            val : UNION {{u.val} : u \in in \cup out \cup pend}]

\* The variables stay within their types: an update names two vertices, an edge
\* that waits to be read is one of the super partition in memory.
TypeOK ==
    /\ job \in Jobs /\ bench \in Benches
    /\ pc \in {"begin", "load", "gather", "scatter", "loopback", "stop", "end", "done"}
    /\ phase \in 0..Infinity /\ superp \in Supers /\ vote \in BOOLEAN
    /\ DOMAIN disk = Vertices
    /\ pc \in {"gather", "scatter", "loopback"} => DOMAIN state = VerticesOf(superp)
    /\ in \cup out \cup pend \subseteq Updates
    /\ pc = "loopback" => \A u \in pend : u.to \in DOMAIN state
    /\ todo \subseteq Graph /\ \A e \in todo : SuperOf(e.src) = superp
    /\ active \subseteq 0..CachedPartitions - 1
    /\ IsABag(cpu) /\ IsABag(total)

(* What the programs compute *)

Done == pc = "done"
Arcs == {<<e.src, e.dst>> : e \in Graph}
Weight(u, v) == (CHOOSE e \in Graph : <<e.src, e.dst>> = <<u, v>>).w

Reach(v) == \* the vertices from which, with k steps at most, v can be reached
    LET ball[k \in Nat] == IF k = 0 THEN {v}
                           ELSE ball[k - 1] \cup {a[1] : a \in {b \in Arcs : b[2] \in ball[k - 1]}}
    IN ball
Component(v) == Reach(v)[NumVertices]

Distance(u) == \* the smallest sum of weights of a path from u, per vertex
    LET d[k \in Nat] ==
          [v \in Vertices |->
             IF k = 0 THEN IF v = u THEN 0 ELSE Infinity
             ELSE Min({d[k - 1][v]}
                      \cup {Min({d[k - 1][e.src] + e.w, Infinity}) : e \in {f \in Graph : f.dst = v}})]
    IN d[NumVertices]

\* A tree edge is an edge of the graph along which the distance is tight.
Tight(v, p, dist) == <<p, v>> \in Arcs /\ disk[v].distance = dist[p] + Weight(p, v)

\* When mis ends, no two neighbours are in the set and every vertex out of it has
\* a neighbour in it: the count mis_per_processor_data::reduce compares is equal
\* in two supersteps only when the set is.
MaximalIndependent ==
    Done /\ bench = "mis" =>
        LET set == {v \in Vertices : disk[v].in_mis}
        IN /\ \A a \in Arcs : ~(a[1] \in set /\ a[2] \in set)
           /\ \A v \in Vertices \ set : \E u \in set : <<u, v>> \in Arcs

\* When a program that spreads labels ends, every vertex has the best label that
\* reaches it, from whoever it says, in whatever order the updates were applied;
\* cc has counted the components.
LabelsExact ==
    Done =>
        /\ bench \in {"cc", "bfs_forest", "sssp_forest"} =>
              \A v \in Vertices : disk[v].component = Min(Component(v))
        /\ bench = "cc" =>
              NumVertices - CopiesIn("cc_neg", total) = Cardinality({Component(v) : v \in Vertices})
        /\ bench = "bfs_forest" =>
              \A v \in Vertices : LET p == disk[v].bfs_parent
                                  IN \/ p = v
                                     \/ <<p, v>> \in Arcs /\ disk[p].component = disk[v].component
        /\ bench = "sssp" =>
              LET dist == Distance(Root)
              IN \A v \in Vertices :
                   /\ disk[v].distance = dist[v]
                   /\ v # Root /\ dist[v] < Infinity => Tight(v, disk[v].predecessor, dist)
        /\ bench = "sssp_forest" =>
              \A v \in Vertices :
                 LET c == disk[v].component
                 IN /\ disk[v].distance = Distance(c)[v]
                    /\ v # c => Tight(v, disk[v].predecessor, Distance(c))
        /\ bench \in {"bfs_async", "bfs_py"} =>
              LET found == {v \in Vertices : disk[v].bfs_parent # NONE}
              IN /\ found = {v \in Vertices : Root \in Component(v)}
                 /\ \A v \in found \ {Root} : <<disk[v].bfs_parent, v>> \in Arcs
                 /\ Cardinality(found) = CopiesIn("vertices_discovered", total) + 1

EdgesFrom(S) == {e \in Graph : e.src \in S}
Rank[n \in Nat] == \* power iteration
    [v \in Vertices |->
       IF n = 0 THEN Unit
       ELSE Base + Damped(MapThenSumSet(LAMBDA e : Rank[n - 1][e.src] \div Cardinality(EdgesFrom({e.src})),
                                        {e \in Graph : e.dst = v}))]

\* When a program that adds up ends, every contribution was added once: the
\* product of spmv, the degrees, the classes of edges of conductance, the ranks of
\* as many iterations as asked for; hyperanf's sums are the estimates of the balls
\* that grow by a step in each superstep, though the counters are only ever
\* united along the edges, and sent when they changed.
Estimate(vs) == CountHll(FoldSet(LAMBDA v, ctr : AddHll(ctr, Jenkins[v]), HllInit, vs))
SumsExact ==
    /\ Done =>
         /\ bench = "spmv" =>
               \A v \in Vertices :
                  disk[v].value_out = MapThenSumSet(LAMBDA e : e.w * e.src, {e \in Graph : e.dst = v})
         /\ bench = "degree_cnt" =>
               \A v \in Vertices : disk[v].degree = Cardinality(EdgesFrom({v}))
         /\ bench = "conductance" =>
               /\ CopiesIn("red", total) = Cardinality(EdgesFrom({v \in Vertices : IsRed(v)}))
               /\ CopiesIn("red", total) + CopiesIn("black", total) = Cardinality(Graph)
               /\ CopiesIn("crossover", total)
                    = Cardinality({e \in Graph : (e.src + e.dst) % 2 = 1})
         /\ bench = "range_check" =>
               (CopiesIn("failed", total) = 0 <=> \A e \in Graph : e.dst \in Vertices)
         /\ bench = "pagerank" => \A v \in Vertices : disk[v].rank = Rank[Niters - 1][v]
    /\ pc = "begin" /\ bench = "hyperanf" /\ phase > 1 =>
          CopiesIn("neighbours", total)
             = MapThenSumSet(LAMBDA v : Estimate(Reach(v)[phase - 2]), Vertices)

\* pagerank_ddf loses no rank: between supersteps no vertex is half way through
\* its edges, and what the vertices hold and what is on its way is what they
\* started with and 0.85 of what was pushed.
MassConserved ==
    bench = "pagerank_ddf" /\ pc = "begin" /\ phase > 0 =>
        LET held == IF job.supers = 1 THEN state ELSE disk
            pushed == {v \in Vertices : held[v].degree > 0}
        IN /\ \A v \in Vertices : held[v].updates_pushed = 0
           /\ MapThenSumSet(LAMBDA v : held[v].rank + held[v].delta, Vertices)
                 + MapThenSumSet(LAMBDA u : Damped(u.val), in)
              = NumVertices * (Base + Unit)
                 + MapThenSumSet(LAMBDA v : Damped(held[v].rank - Base), pushed)

\* A graph without a cycle of odd length is the only one checkbip accepts.
BipartiteSound ==
    Done /\ bench = "checkbip" /\ CopiesIn("not_bip", total) = 0 =>
        \E left \in SUBSET Vertices : \A a \in Arcs : a[1] \in left <=> a[2] \notin left

\* Every program ends: the labels only improve, the iterations are counted, and
\* the rank below the threshold is pushed no further.
ProgramEnds == <>Done

\* The invariants of a program that is under way.
ProgramsInv == TypeOK /\ MassConserved /\ BipartiteSound
=============================================================================
