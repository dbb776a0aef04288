------------------------------ MODULE Standalone ------------------------------
(* The programs that drive the streams of core/x-lib.hpp themselves: their  *)
(* operator(), with the vertex state, the streams and the per-processor     *)
(* data it works on, and utils/feeder.cpp, which feeds cc_online.           *)
(*                                                                          *)
(* A step of a pass goes through its stream item by item.  The state of one *)
(* super partition at a time is in memory.  The programs are modelled as    *)
(* built without assertions, for cc_online plays a batch with edges of two  *)
(* super partitions only then.                                              *)
EXTENDS Mcst, Scc, Betweenness, Triangles, BeliefPropagation, OnlineComponents

Sets == INSTANCE FiniteSetsExt

CONSTANTS Jobs,    \* bench, graph, supers, and what else the program is given:
                   \* the hashes drawn, the seed vertices or the batches to feed
          Leftovers          \* the weights a buffer may hold from an earlier use

ASSUME JobsAssumption ==
    \A j \in Jobs : /\ j.supers \in Nat \ {0}
                    /\ \A e \in j.graph : {e.src, e.dst} \subseteq Vertices /\ e.w \in Nat

VARIABLES job,       \* the program that runs, and what it runs on
          pass, at,  \* the pass and the step of it; 0 before the state is loaded
          superp,    \* i
          clock,     \* the program's static iteration counters
          mem,       \* state_buffer
          disk,      \* the vertex file
          streams,   \* the items of every stream; ingest is the batch that is played
          todo,      \* the items of this step that are not read yet
          cpu,       \* the per-processor data, summed over the processors
          total,     \* the program's static counters
          feed       \* the feeder's batches and the shared segment

vars == <<job, pass, at, superp, clock, mem, disk, streams, todo, cpu, total, feed>>

bench == job.bench
Graph == job.graph
Supers == 0..job.supers - 1
SuperOf(v) == v % job.supers
Offset(v) == v \div job.supers
VerticesOf(s) == {v \in Vertices : SuperOf(v) = s}
Offsets == {Offset(v) : v \in Vertices}

StreamNames == McstStreams \cup SccStreams \cup BcStreams \cup TcStreams \cup BpStreams
               \cup OnlineStreams \cup {"ingest", "reversed"}

Item(e) == [key |-> e.src, dst |-> e.dst, weight |-> e.w, id |-> 10 * e.src + e.dst]

-----------------------------------------------------------------------------
(* The program that runs *)

Passes == CASE bench = "mcst" -> McstPasses
            [] bench = "scc" -> SccPasses
            [] bench = "bc" -> BcPasses
            [] bench = "triangle_counting" -> TcPasses
            [] bench \in {"belief_propagation", "graphchi"} -> BpPasses
            [] bench = "cc_online" -> OnlinePasses
            [] bench = "reverse" -> [reverse |-> <<Read("reverse", "init", "reversed")>>]

First == CASE bench = "mcst" -> [pass |-> "split", clock |-> McstClock]
           [] bench = "scc" -> [pass |-> "split", clock |-> SccClock]
           [] bench = "bc" -> [pass |-> "init", clock |-> <<>>]
           [] bench = "triangle_counting" ->
                 [pass |-> IF job.supers > 1 THEN "hstream" ELSE "zstream", clock |-> TcClock]
           [] bench \in {"belief_propagation", "graphchi"} -> [pass |-> "gen", clock |-> BpClock]
           [] bench = "cc_online" -> [pass |-> "ingest", clock |-> OnlineClock]
           [] bench = "reverse" -> [pass |-> "reverse", clock |-> <<>>]

After(sum) ==
    CASE bench = "mcst" -> McstAfter(pass, clock, streams, sum)
      [] bench = "scc" -> SccAfter(pass, clock, streams, sum, Cardinality(Graph))
      [] bench = "bc" -> [pass |-> BcAfter(pass, streams), clock |-> clock]
      [] bench = "triangle_counting" -> TcAfter(pass, clock)
      [] bench \in {"belief_propagation", "graphchi"} -> BpAfter(pass, clock)
      [] bench = "cc_online" -> OnlineAfter(pass, clock)
      [] bench = "reverse" -> [pass |-> "done", clock |-> clock]

\* A pass for super partition 0 only, without the vertices' state.
Once == pass \in {"split", "edges", "hstream", "zstream", "gen", "reverse", "terminate", "reduce"}

\* Whether the state of the super partition is read before its steps.
Loads == CASE bench = "mcst" -> McstLoads(pass, clock)
           [] bench = "scc" -> SccLoads(pass, superp, clock)
           [] bench = "bc" -> BcLoads(pass)
           [] bench = "triangle_counting" -> TcLoads(clock)
           [] bench \in {"belief_propagation", "graphchi"} -> BpLoads(clock)
           [] bench = "cc_online" -> OnlineLoads(pass, superp)
           [] OTHER -> FALSE

OnIter(step, r, v) ==
    CASE bench = "mcst" -> Keeps(McstIter(v))
      [] bench = "scc" -> SccIter(step, r, v, clock)
      [] bench = "bc" -> BcIter(step, r, v)
      [] bench = "triangle_counting" -> TcIter(step, r, v, clock, job.draw)
      [] bench = "belief_propagation" -> BpIter(step, r, v)
      [] bench = "graphchi" -> GraphchiIter(step, r, v, clock, job.seeds)
      [] bench = "cc_online" -> Keeps(OnlineIter(v))

OnItem(step, r, m, left) ==
    CASE bench = "mcst" -> McstItem(step, r, m, clock, left)
      [] bench = "scc" -> SccItem(step, r, m, clock)
      [] bench = "bc" -> BcItem(step, r, m)
      [] bench = "triangle_counting" -> TcItem(step, r, m, clock)
      [] bench = "belief_propagation" -> BpItem(step, r, m)
      [] bench = "graphchi" -> GraphchiItem(step, r, m)
      [] bench = "cc_online" -> OnlineItem(step, r, m, clock)
      [] bench = "reverse" -> Writes(r, {[m EXCEPT !.key = m.dst, !.dst = m.key]})

\* The counters reduce adds up after this step.
Folds(step) == CASE bench = "mcst" -> McstFolds(step)
                 [] bench = "scc" -> SccFolds(step)
                 [] bench = "bc" -> BagToSet(cpu)
                 [] bench = "triangle_counting" -> TcFolds(step)
                 [] bench = "cc_online" -> OnlineFolds(step)
                 [] OTHER -> {}

\* The steps that change the state of the vertices, one item after the other;
\* of the others, whose items are written apart, the order does not matter.
Ordered(step) == step \in {"compute_min", "absorb_root", "wcc_in", "update_path", "updates_in",
                           "rcv_hash", "updates_out_ingest"}

-----------------------------------------------------------------------------
(* The streams *)

Waiting(in) == CASE in = "init" -> streams["init"]
                 [] in = "state" -> {[key |-> v, id |-> v] : v \in VerticesOf(superp)}
                 [] OTHER -> {m \in streams[in] : SuperOf(m.key) = superp}

Steps == IF pass \in DOMAIN Passes THEN Passes[pass] ELSE <<>>
Step == Steps[at]

\* Step k begins; a stream that is read is rewound before.
Open(k) ==
    /\ at' = k
    /\ todo' = IF k \in DOMAIN Steps /\ Steps[k].do = "stream" THEN Waiting(Steps[k].in) ELSE {}

\* Reduce the per-processor data of the program.
Reduce(step) ==
    LET folded == [c \in BagToSet(cpu) \cap Folds(step) |-> cpu[c]]
    IN total' = total (+) folded /\ cpu' = cpu (-) folded

Init ==
    /\ job \in Jobs
    /\ pass = First.pass /\ clock = First.clock /\ at = 0 /\ superp = 0
    /\ mem = [o \in Offsets |-> NONE] /\ disk = [v \in Vertices |-> NONE]
    /\ streams = [[s \in StreamNames |-> {}]
                    EXCEPT !["init"] = {Item(e) : e \in Graph},
                           !["edges"] = IF bench = "triangle_counting" /\ job.supers = 1
                                        THEN {Item(e) : e \in Graph} ELSE {}]
    /\ todo = {} /\ cpu = EmptyBag /\ total = EmptyBag
    /\ feed = [left |-> IF bench = "cc_online" THEN job.batches ELSE <<>>,
               segment |-> {}, stage |-> "empty", eof |-> FALSE]

\* state_load and state_prepare; the first step begins.
Load ==
    /\ Steps # <<>> /\ at = 0
    /\ mem' = IF job.supers = 1 \/ Once \/ ~Loads THEN mem
              ELSE [o \in Offsets |-> disk[o * job.supers + superp]]
    /\ Open(1)
    /\ UNCHANGED <<job, pass, superp, clock, disk, streams, cpu, total, feed>>

\* do_state_iter
IterVertices ==
    /\ at \in DOMAIN Steps /\ Step.do = "iter"
    /\ LET did == [v \in VerticesOf(superp) |-> OnIter(Step.step, mem[Offset(v)], v)]
       IN /\ mem' = [o \in Offsets |-> did[o * job.supers + superp].rec]
          /\ cpu' = Sets!FoldSet(LAMBDA v, c : c (+) did[v].add, cpu, DOMAIN did)
    /\ Open(at + 1)
    /\ UNCHANGED <<job, pass, superp, clock, disk, streams, total, feed>>

\* partition_callback: an item of the stream that is read; what it writes for
\* this super partition goes back to it at once if the stream is looped back.
Stream ==
    /\ at \in DOMAIN Steps /\ todo # {}
    /\ \E m \in todo, left \in IF Step.step = "rewrite_unknown" THEN Leftovers ELSE {0} :
         /\ Ordered(Step.step) \/ \A other \in todo : m.id <= other.id
         /\ LET did == OnItem(Step.step, mem[Offset(m.key)], m, left)
                new == IF Once THEN mem ELSE [mem EXCEPT ![Offset(m.key)] = did.rec]
                back == {x \in did.out : Step.loopback /\ SuperOf(x.key) = superp}
            IN /\ mem' = Sets!FoldSet(LAMBDA x, s : [s EXCEPT ![Offset(x.key)] = RcvHash(@, x).rec],
                                      new, back)
               /\ cpu' = cpu (+) did.add
               /\ streams' = IF Step.out = NONE THEN streams
                             ELSE [streams EXCEPT ![Step.out] = @ \cup (did.out \ back)]
         /\ todo' = todo \ {m}
    /\ UNCHANGED <<job, pass, at, superp, clock, disk, total, feed>>

\* The stream is at its end: reduce, and reset_stream where the program says so.
StreamEnd ==
    /\ at \in DOMAIN Steps /\ Step.do = "stream" /\ todo = {}
    /\ Reduce(Step.step)
    /\ streams' = IF Step.reset
                  THEN [streams EXCEPT ![Step.in] = {m \in @ : SuperOf(m.key) # superp}]
                  ELSE streams
    /\ Open(at + 1)
    /\ UNCHANGED <<job, pass, superp, clock, mem, disk, feed>>

\* do_cpu
DoCpu ==
    /\ at \in DOMAIN Steps /\ Step.do = "cpu"
    /\ Reduce(Step.step)
    /\ Open(at + 1)
    /\ UNCHANGED <<job, pass, superp, clock, mem, disk, streams, feed>>

\* state_store; the next super partition, or what the loops say comes next.
LastSuper == Once \/ superp = job.supers - 1
Store ==
    /\ Steps # <<>> /\ at = Len(Steps) + 1
    /\ disk' = IF job.supers = 1 \/ Once \/ pass = "count" THEN disk
               ELSE [v \in Vertices |-> IF SuperOf(v) = superp THEN mem[Offset(v)] ELSE disk[v]]
    /\ superp' = IF LastSuper THEN 0 ELSE superp + 1
    /\ IF LastSuper THEN pass' = After(total).pass /\ clock' = After(total).clock
                    ELSE UNCHANGED <<pass, clock>>
    /\ at' = 0 /\ todo' = {}
    /\ UNCHANGED <<job, mem, streams, cpu, total, feed>>

-----------------------------------------------------------------------------
(* Ingest: the feeder fills the shared segment, the program empties it *)

\* feed: the next batch is read into the segment when it is free, then avail is set.
FeedBatch ==
    /\ feed.left # <<>> /\ feed.stage = "empty"
    /\ feed' = [feed EXCEPT !.segment = Head(feed.left), !.left = Tail(@), !.stage = "written"]
    /\ UNCHANGED <<job, pass, at, superp, clock, mem, disk, streams, todo, cpu, total>>
FeedSignal ==
    /\ feed.stage = "written"
    /\ feed' = [feed EXCEPT !.stage = "avail"]
    /\ UNCHANGED <<job, pass, at, superp, clock, mem, disk, streams, todo, cpu, total>>
\* Mutant of FeedEof: the end is announced before the last batch is taken.
FeedEofEarly ==
    /\ bench = "cc_online" /\ feed.left = <<>> /\ ~feed.eof
    /\ feed' = [feed EXCEPT !.eof = TRUE]
    /\ UNCHANGED <<job, pass, at, superp, clock, mem, disk, streams, todo, cpu, total>>
FeedEof ==
    /\ bench = "cc_online" /\ feed.left = <<>> /\ feed.stage = "empty" /\ ~feed.eof
    /\ feed' = [feed EXCEPT !.eof = TRUE]
    /\ UNCHANGED <<job, pass, at, superp, clock, mem, disk, streams, todo, cpu, total>>

\* ingest: wait for a batch or the end; copy the batch, then free the segment.
IngestCopy ==
    /\ pass = "ingest" /\ feed.stage = "avail" /\ ~feed.eof
    /\ streams' = [streams EXCEPT !["ingest"] = {Item(e) : e \in feed.segment}]
    /\ pass' = "free"
    /\ UNCHANGED <<job, at, superp, clock, mem, disk, todo, cpu, total, feed>>
IngestFree ==
    /\ pass = "free"
    /\ feed' = [feed EXCEPT !.stage = "empty"]
    /\ pass' = IF clock.bfs = 0 THEN "first" ELSE "out"
    /\ UNCHANGED <<job, at, superp, clock, mem, disk, streams, todo, cpu, total>>
IngestEof ==
    /\ pass = "ingest" /\ feed.eof
    /\ pass' = "done"
    /\ UNCHANGED <<job, at, superp, clock, mem, disk, streams, todo, cpu, total, feed>>

\* merge_ingest; a batch is done when its last pass wrote no update.
MergeIngest ==
    /\ pass = "merge"
    /\ streams' = [streams EXCEPT !["edges"] = @ \cup streams["ingest"], !["ingest"] = {}]
    /\ IF streams["updates"] = {} THEN pass' = "ingest" /\ UNCHANGED clock
                                  ELSE pass' = "in" /\ clock' = [bfs |-> clock.bfs + 1]
    /\ UNCHANGED <<job, at, superp, mem, disk, todo, cpu, total, feed>>

-----------------------------------------------------------------------------
Program == \/ Load \/ IterVertices \/ Stream \/ StreamEnd \/ DoCpu \/ Store
           \/ IngestCopy \/ IngestFree \/ IngestEof \/ MergeIngest
Feeder == FeedBatch \/ FeedSignal \/ FeedEof
Next == Program \/ Feeder

Spec == Init /\ [][Next]_vars

\* The program's loops and the feeder's go on while they have something to do.
FairSpec == Spec /\ WF_vars(Program) /\ WF_vars(Feeder)
-----------------------------------------------------------------------------
(* Properties *)

Done == pass = "done"
State(v) == IF job.supers = 1 THEN mem[Offset(v)] ELSE disk[v]

\* The variables stay within their types: an item is filed under a vertex, an item
\* that waits to be read is one of the super partition in memory.
TypeOK ==
    /\ job \in Jobs
    /\ pass \in DOMAIN Passes \cup {"ingest", "free", "merge", "done"}
    /\ at \in 0..Len(Steps) + 1 /\ superp \in Supers
    /\ DOMAIN mem = Offsets /\ DOMAIN disk = Vertices /\ DOMAIN streams = StreamNames
    /\ \A s \in StreamNames : \A m \in streams[s] : m.key \in Vertices
    /\ Once \/ \A m \in todo : SuperOf(m.key) = superp
    /\ IsABag(cpu) /\ IsABag(total)
    /\ feed.stage \in {"empty", "written", "avail"} /\ feed.eof \in BOOLEAN

(* What the programs compute *)

Arcs == {<<e.src, e.dst>> : e \in Graph}
Ball(arcs, v, k) == \* the vertices v is reached from in at most k steps
    LET ball[i \in 0..k] == IF i = 0 THEN {v}
                            ELSE ball[i - 1] \cup {a[1] : a \in {b \in arcs : b[2] \in ball[i - 1]}}
    IN ball[k]
From(arcs, v) == Ball(arcs, v, NumVertices)
Least(S) == Sets!Min(S)

\* The forest of least weight: an edge belongs to it iff its ends are not
\* connected by edges that come before it in mcst's order of the edges.
Place(e) == <<e.w, Least({e.src, e.dst}), Sets!Max({e.src, e.dst})>>
Before(p, q) == \/ p[1] < q[1]
                \/ p[1] = q[1] /\ (p[2] < q[2] \/ (p[2] = q[2] /\ p[3] < q[3]))
InForest(e) ==
    /\ e.src # e.dst
    /\ e.src \notin From({<<f.src, f.dst>> : f \in {g \in Graph : Before(Place(g), Place(e))}}, e.dst)
Forest == {e \in Graph : InForest(e)}

\* mcst builds a forest: it writes one edge fewer than there are vertices in each
\* component, in both directions, those of the first iteration are edges of the
\* forest of least weight, and it counts the components.
ForestExact ==
    bench = "mcst" =>
        /\ pass = "rename" /\ at = 0 /\ superp = 0 /\ clock.iteration = 0 =>
              \A t \in streams["tree"] : \E e \in Forest : e.src = t.src /\ e.dst = t.key
        /\ Done =>
              LET components == Cardinality({From(Arcs, v) : v \in Vertices})
              IN /\ CopiesIn("tree", total) = NumVertices - components
                 /\ Cardinality(streams["tree"]) = 2 * (NumVertices - components)
                 /\ NumVertices - CopiesIn("absorbed", total) = components

\* The components found are the components: a vertex for which both labels of scc
\* agree has the smallest vertex of its strong component for label, no vertex of a
\* larger component is left without one at the end, and no edge within a component
\* that is not found is lost; the labels of cc_online are, after each batch, the
\* smallest vertex of the component of the edges fed so far, and it counts them.
Strong(v) == {u \in From(Arcs, v) : v \in From(Arcs, u)}
SccExact ==
    bench = "scc" =>
        /\ Done \/ (pass = "start" /\ at = 0 /\ superp = 0 /\ clock.scc > 0) =>
              \A v \in Vertices : SccFound(State(v)) => State(v).component_root = Least(Strong(v))
        /\ Done => /\ \A v \in Vertices : Cardinality(Strong(v)) > 1 => SccFound(State(v))
                   /\ CopiesIn("elims", total) = Cardinality(Graph)
OnlineExact ==
    bench = "cc_online" /\ pass = "ingest" /\ clock.bfs > 0 =>
        LET arcs == {<<m.key, m.dst>> : m \in streams["edges"]}
            fed == {<<e.src, e.dst>> : e \in Graph} \ UNION {{<<e.src, e.dst>> : e \in feed.left[i]} : i \in DOMAIN feed.left}
        IN /\ \A v \in Vertices : State(v).component = Least(From(arcs, v))
           /\ feed.stage = "empty" => arcs = fed
           /\ (\A a \in arcs : <<a[2], a[1]>> \in arcs) =>
                 NumVertices - CopiesIn("merges", total) = Cardinality({From(arcs, v) : v \in Vertices})
OnlineComplete ==
    bench = "cc_online" /\ Done => {<<m.key, m.dst>> : m \in streams["edges"]} = Arcs
ComponentsExact == SccExact /\ OnlineExact /\ OnlineComplete

\* The number of walks of a given weight from u, per vertex.
Walks(u) ==
    LET walks[d \in 0..Infinity] ==
          [v \in Vertices |->
             (IF d = 0 /\ v = u THEN 1 ELSE 0)
             + Sets!MapThenSumSet(LAMBDA e : walks[d - e.w][e.src], {e \in Graph : e.dst = v /\ e.w <= d})]
    IN walks
Longest == Sets!MapThenSumSet(LAMBDA e : e.w, Graph)
DistanceFrom(u) ==
    [v \in Vertices |->
        LET ds == {d \in 0..Longest : Walks(u)[d][v] > 0}
        IN IF ds = {} THEN Infinity ELSE Least(ds)]
Sigma(u, v) == LET d == DistanceFrom(u)[v] IN IF d = Infinity THEN 0 ELSE Walks(u)[d][v]

\* bc has for every vertex the sum, over the vertices behind it, of the share of
\* the shortest paths from the source that lead through it.
MostCentral ==
    {v \in Vertices \ {Source} : \A u \in Vertices \ {Source} : 0 < State(v).path /\ State(u).path <= State(v).path}
CentralityExact ==
    bench = "bc" /\ Done =>
        /\ MaxCentrality(total) = MostCentral
        /\ \A v \in Vertices :
            LET d == DistanceFrom(Source)
                behind == {w \in Vertices \ {v} : /\ d[v] < Infinity /\ d[w] < Infinity
                                                  /\ d[w] = d[v] + DistanceFrom(v)[w]}
            IN State(v).path = Sets!MapThenSumSet(
                   LAMBDA w : Sigma(Source, v) * Sigma(v, w) * (Scale \div Sigma(Source, w)), behind)

\* triangle_counting, with one super partition, has the estimate of Becchetti et
\* al.: z of an edge is the number of draws whose least hash its ends share.
Neighbours(v) == {a[1] : a \in {b \in Arcs : b[2] = v}}
Degree(v) == Cardinality({a \in Arcs : a[1] = v})
LeastHash(n, v) == LET hs == {job.draw[n][u] : u \in Neighbours(v)}
                   IN IF hs = {} THEN Infinity ELSE Least(hs)
EstimateExact ==
    bench = "triangle_counting" /\ job.supers = 1 /\ Done =>
        LET z(a) == Cardinality({n \in 0..Niters - 1 : LeastHash(n, a[1]) = LeastHash(n, a[2])})
            share(a) == (Scale * z(a) * (Degree(a[1]) + Degree(a[2]))) \div (z(a) + Niters)
            at_vertex(v) == Sets!MapThenSumSet(share, {a \in Arcs : a[1] = v}) \div 2
        IN CopiesIn("triangles", total) = Sets!MapThenSumSet(at_vertex, Vertices)

\* On a tree a message of belief propagation holds each potential it should once:
\* those of the vertices on the sender's side that are as near as there were
\* exchanges, and never what the receiver sent.  The first superstep of niters has
\* nothing to exchange.
EvidenceOnce ==
    bench \in {"belief_propagation", "graphchi"} /\ at = 0 /\ superp = 0
      /\ clock.bsp_phase > 0 /\ (\A v \in Vertices : v \notin job.seeds) =>
        LET both == Arcs \cup {<<a[2], a[1]>> : a \in Arcs}
            hops == clock.bsp_phase - IF bench = "graphchi" THEN 1 ELSE 2
            side(m) == IF hops < 0 THEN {}
                       ELSE Ball(both \ {<<m.src, m.key>>, <<m.key, m.src>>}, m.src, hops)
        IN /\ \A m \in streams["updates0"] \cup streams["updates1"] :
                 \A v \in Vertices : m.msg[v] = IF v \in side(m) THEN 1 ELSE 0
           /\ Cardinality(streams["updates0"] \cup streams["updates1"]) = Cardinality(both)

\* reverse turns every edge round, once.
ReverseExact ==
    bench = "reverse" /\ Done =>
        {<<m.dst, m.key, m.weight>> : m \in streams["reversed"]} = {<<e.src, e.dst, e.w>> : e \in Graph}

\* What the counting programs and reverse compute is right: see the three parts.
CountsExact == CentralityExact /\ EstimateExact /\ ReverseExact

\* Every program ends, and so does the feeder: none of its waits for the other,
\* for a free segment, for a batch or for the end, is for ever.
ProgramEnds == <>Done

\* The invariants of a program that is under way.
StandaloneInv == TypeOK /\ EvidenceOnce
=============================================================================
