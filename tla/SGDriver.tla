------------------------------ MODULE SGDriver ------------------------------
(* The superstep driver of core/sg_driver.hpp (scatter_gather::operator()) *)
(* running breadth first search (algorithms/bfs/bfs.hpp).  A superstep     *)
(* visits every super partition: load its vertex state, gather the updates *)
(* addressed to it, let the Bloom filters name the pages of its edge file  *)
(* that can hold an edge of an active vertex, scatter the edges of those   *)
(* pages into updates and store the vertex blocks that changed.            *)
(*                                                                         *)
(* The work inside a phase is one step: Work shows that every update       *)
(* reaches its file once, Filter that a partition is processed by one      *)
(* thread.  Which of several updates reaches a vertex first is left open.  *)
EXTENDS Integers, Sequences, FiniteSets, FiniteSetsExt, SequencesExt

CONSTANTS NumVertices,
          CachedPartitions,
          Processors,
          Root,              \* the option bfs::root
          BufferPages,       \* pages of edges that fit in a memory buffer
          VertexSize,        \* sizes of a vertex and of a block of its file
          BlockSize,
          Settings,          \* the edge files, super partition -> Seq(page), and the
                             \* options max_check_v and chip_v_once to choose from
          TOMBSTONE,         \* a deleted edge, both ids 0xFFFFFFFF
          NONE               \* the parent of an undiscovered vertex

Vertices == 0..NumVertices - 1
Edges == Vertices \X Vertices
Records == [parent : Vertices \cup {NONE}, level : Nat, changed : BOOLEAN]

ASSUME SizesAssumption ==
    {NumVertices, CachedPartitions, Processors, BufferPages, VertexSize, BlockSize}
        \subseteq Nat \ {0}
ASSUME SettingsAssumption ==
    \A o \in Settings : /\ o.maxCheckV \in Nat /\ o.chipVOnce \in Nat \ {0}
                        /\ LET n == Cardinality(DOMAIN o.file)
                           IN /\ n \in Nat \ {0}
                              /\ o.file \in [0..n - 1 -> Seq(Seq(Edges \cup {TOMBSTONE}))]
\* What partition_super_partition did: an edge is in the file of its source.
ASSUME PlacementAssumption ==
    \A o \in Settings : \A s \in DOMAIN o.file : \A page \in ToSet(o.file[s]) :
        \A e \in ToSet(page) \ {TOMBSTONE} : e[1] % Cardinality(DOMAIN o.file) = s
ASSUME RootAssumption == Root \in Vertices /\ NONE \notin Vertices

MinSuperPhases == 1     \* bfs::min_super_phases

VARIABLES pc,        \* the next phase of operator()
          phase,     \* bsp_phase
          superp,    \* i
          setting,   \* the element of Settings
          buf,       \* state_buffer: a record per position
          disk,      \* the vertex file: a record per vertex and block of it
          in, out,   \* the two update streams: a set of updates per super partition
          active,    \* scatter_filter: the queued partitions
          asked,     \* the filters were asked which pages to read
          bitset,    \* BF_bitset: their answer
          cnt,       \* all_BF_cnt
          cached,    \* edge_stream keeps the whole file in a buffer
          vote,      \* no processor has seen an activation this superstep
          fatal      \* the assertion that failed, or "no"

vars == <<pc, phase, superp, setting, buf, disk, in, out, active, asked, bitset, cnt, cached, vote, fatal>>

-----------------------------------------------------------------------------
(* Where a vertex is: configuration::map_* and the layout of the buffer *)

file == setting.file
SuperPartitions == Cardinality(DOMAIN file)    \* a power of two
Supers == 0..SuperPartitions - 1

SuperOf(v) == v % SuperPartitions
PartitionOf(v) == (v \div SuperPartitions) % CachedPartitions

VerticesOf(s) == {v \in Vertices : SuperOf(v) = s}
Before(u, v) == \/ PartitionOf(u) < PartitionOf(v)
                \/ PartitionOf(u) = PartitionOf(v) /\ u < v
Position(v) == Cardinality({u \in VerticesOf(SuperOf(v)) : Before(u, v)})
Positions == 0..NumVertices - 1

\* The blocks of the vertex file that hold (a part of) vertex v.
FirstBlock(v) == (Position(v) * VertexSize) \div BlockSize
LastBlock(v) == (Position(v) * VertexSize + VertexSize - 1) \div BlockSize
BlocksOf(v) == {FirstBlock(v), LastBlock(v)}

\* The worker whose share of state_iter_work the vertex is in.
ProcessorOf(v) ==
    LET share == CachedPartitions \div Processors
    IN IF share = 0 THEN Processors - 1
       ELSE Min({PartitionOf(v) \div share, Processors - 1})

\* The record of v, when its super partition is in memory.
Rec(v) == buf[Position(v)]
With(new) ==  \* the buffer with new[v] for every v of the super partition
    [p \in Positions |-> LET at == {v \in DOMAIN new : Position(v) = p}
                         IN IF at = {} THEN buf[p] ELSE new[CHOOSE v \in at : TRUE]]

EdgesIn(pages) == (UNION {ToSet(page) : page \in pages}) \ {TOMBSTONE}
Graph == UNION {EdgesIn(ToSet(file[s])) : s \in Supers}

Blank == [parent |-> 0, level |-> 0, changed |-> FALSE]    \* zeroed memory

Init == /\ pc = "begin" /\ phase = 0 /\ superp = 0
        /\ setting \in Settings
        /\ buf = [p \in Positions |-> Blank]
        /\ disk = [v \in Vertices |-> [b \in BlocksOf(v) |-> Blank]]
        /\ in = [s \in Supers |-> {}] /\ out = [s \in Supers |-> {}]
        /\ active = {} /\ asked = FALSE /\ bitset = {} /\ cnt = 0
        /\ cached = FALSE /\ vote = FALSE /\ fatal = "no"

-----------------------------------------------------------------------------
(* One superstep *)

\* superphase_begin: every processor votes to stop until it sees an activation.
Begin ==
    /\ pc = "begin"
    /\ vote' = TRUE /\ superp' = 0 /\ pc' = "load"
    /\ UNCHANGED <<phase, setting, buf, disk, in, out, active, asked, bitset, cnt, cached, fatal>>

\* state_load: the blocks of the super partition's vertices; a record whose
\* blocks disagree is torn.
LoadedRec(v) ==
    LET parts == {disk[v][b] : b \in BlocksOf(v)}
    IN IF Cardinality(parts) = 1 THEN CHOOSE r \in parts : TRUE
       ELSE [parent |-> NONE, level |-> phase, changed |-> TRUE]

\* bfs::init
InitRec(v) == [parent |-> IF v = Root THEN Root ELSE NONE,
               level |-> IF v = Root THEN 0 ELSE Rec(v).level,
               changed |-> TRUE]

\* In the first superstep the state is initialised in place, later it is read
\* from the vertex file unless there is only one super partition.
Load ==
    /\ pc = "load"
    /\ IF phase = 0
       THEN /\ buf' = With([v \in VerticesOf(superp) |-> InitRec(v)])
            /\ active' = active \cup {PartitionOf(v) : v \in VerticesOf(superp) \cap {Root}}
       ELSE /\ buf' = IF SuperPartitions > 1
                      THEN With([v \in VerticesOf(superp) |-> LoadedRec(v)]) ELSE buf
            /\ UNCHANGED active
    /\ pc' = "gather"
    /\ UNCHANGED <<phase, superp, setting, disk, in, out, asked, bitset, cnt, cached, vote, fatal>>

\* bfs::apply_one_update for the updates of this super partition: the first one
\* to reach an undiscovered vertex becomes its parent and activates its partition.
Reached == {v \in VerticesOf(superp) : Rec(v).parent = NONE /\ \E e \in in[superp] : e[2] = v}

Gather ==
    /\ pc = "gather"
    /\ \E p \in [Reached -> Vertices] :
         /\ \A v \in Reached : <<p[v], v>> \in in[superp]
         /\ buf' = With([v \in Reached |-> [parent |-> p[v], level |-> phase, changed |-> TRUE]])
    /\ active' = active \cup {PartitionOf(v) : v \in Reached}
    /\ vote' = (vote /\ Reached = {})
    /\ in' = [in EXCEPT ![superp] = {}]              \* reset_stream
    /\ pc' = "check"
    /\ UNCHANGED <<phase, superp, setting, disk, out, asked, bitset, cnt, cached, fatal>>

-----------------------------------------------------------------------------
(* The Bloom query *)

\* Mutant of Frontier: the phase a vertex was discovered in does not matter.
FrontierAll == {v \in VerticesOf(superp) : Rec(v).parent # NONE}

\* bfs::check_bsp and the guard of bfs::generate_update
Frontier == {v \in VerticesOf(superp) : Rec(v).parent # NONE /\ Rec(v).level = phase}

Limit == Max({setting.maxCheckV \div SuperPartitions, 1})
Ask(n) == MinSuperPhases - 1 <= phase /\ n < Limit /\ Limit # 1

\* Up to a multiple of chip_v_once, by repeating the last vertex.
Padded(n) == ((n + setting.chipVOnce - 1) \div setting.chipVOnce) * setting.chipVOnce

\* Mutant of Hits: a filter that misses an edge of its page.
HitsFirstEdge(vs) == {k \in DOMAIN file[superp] :
                        file[superp][k][1] # TOMBSTONE /\ file[superp][k][1][1] \in vs}

\* The pages whose filter was built with one of the vertices.
Hits(vs) == {k \in DOMAIN file[superp] : \E e \in EdgesIn({file[superp][k]}) : e[1] \in vs}

\* Mutant of Answer: page 1 is only asked for when its filter says so.
AnswerOnly(vs, wrong) == Hits(vs) \cup wrong

\* Page 1 is always asked for.  Filters have false positives, but none when
\* there is no vertex to ask about.
Answer(vs, wrong) == {1} \cup Hits(vs) \cup (IF vs = {} THEN {} ELSE wrong)

\* Count the active vertices and, if they are few, ask the filters about them;
\* the padded number is compared again before the answer is used.
Check ==
    /\ pc = "check"
    /\ LET n == Cardinality(Frontier) IN
       /\ cnt' = IF Ask(n) THEN Padded(n) ELSE n
       /\ asked' = (Ask(n) /\ Ask(Padded(n)))
       /\ \E wrong \in SUBSET (DOMAIN file[superp]) :
            bitset' = IF asked' THEN Answer(Frontier, wrong) ELSE {}
    /\ pc' = "scatter"
    /\ UNCHANGED <<phase, superp, setting, buf, disk, in, out, active, cached, vote, fatal>>

-----------------------------------------------------------------------------
(* Scatter, store and the end of the superstep *)

PagesRead == IF cached \/ ~asked THEN ToSet(file[superp])
             ELSE {file[superp][k] : k \in bitset \cap DOMAIN file[superp]}

To(s, updates) == {e \in updates : SuperOf(e[2]) = s}

\* What set_bitset and clear_bitset assert: there is a page to read, and all
\* pages have been read.
BitsetAssertion ==
    CASE asked /\ bitset = {} -> "Cannot find any set bits!"
      [] asked /\ bitset # {} /\ (cached \/ file[superp] = <<>>) -> "clear bitset error (in use)!"
      [] OTHER -> "no"

\* bfs::generate_update for the edges read, in the active partitions; a file
\* read from start to end in one buffer stays cached when it is the only one.
Scatter ==
    /\ pc = "scatter"
    /\ LET sent == {e \in EdgesIn(PagesRead) : /\ PartitionOf(e[1]) \in active
                                               /\ e[1] \in Frontier}
       IN out' = [s \in Supers |-> out[s] \cup To(s, sent)]
    /\ cached' = (cached \/ /\ SuperPartitions = 1 /\ ~asked
                            /\ Len(file[superp]) \in 1..BufferPages)
    /\ fatal' = BitsetAssertion
    /\ pc' = "store"
    /\ UNCHANGED <<phase, superp, setting, buf, disk, in, active, asked, bitset, cnt, vote>>

ChangedVertices == {v \in VerticesOf(superp) : Rec(v).changed}

\* The changed vertex that the processor of v came by before v.
Previous(v) ==
    LET earlier == {u \in ChangedVertices : ProcessorOf(u) = ProcessorOf(v) /\ Before(u, v)}
    IN {u \in earlier : \A w \in earlier : w = u \/ Before(w, u)}

\* Mutant of Marks: the last block of a record is not looked at.
MarksFirst(v) == {FirstBlock(v)}

\* The blocks that v marks in ver_buf_chg: none when previous_pos already is
\* the one block that v is in.
Marks(v) == IF \E u \in Previous(v) : FirstBlock(u) = FirstBlock(v) /\ FirstBlock(u) = LastBlock(v)
            THEN {} ELSE BlocksOf(v)

ChangedBlocks == {0} \cup UNION {Marks(v) : v \in ChangedVertices}

\* phase_post_scatter: reset the changed flags and write their blocks, empty
\* the scatter filter and go to the next super partition.
Store ==
    /\ pc = "store" /\ fatal = "no"
    /\ IF SuperPartitions > 1
       THEN LET new == [v \in VerticesOf(superp) |-> [Rec(v) EXCEPT !.changed = FALSE]]
            IN /\ buf' = With(new)
               /\ disk' = [v \in Vertices |->
                     [b \in BlocksOf(v) |->
                        IF SuperOf(v) = superp /\ b \in ChangedBlocks THEN new[v] ELSE disk[v][b]]]
       ELSE UNCHANGED <<buf, disk>>
    /\ active' = {}
    /\ IF superp = SuperPartitions - 1
       THEN pc' = "end" /\ UNCHANGED superp
       ELSE pc' = "load" /\ superp' = superp + 1
    /\ UNCHANGED <<phase, setting, in, out, asked, bitset, cnt, cached, vote, fatal>>

\* Mutant of End: the first superstep may be the last.
EndAtOnce ==
    /\ pc = "end"
    /\ phase' = phase + 1
    /\ in' = out /\ out' = in
    /\ pc' = IF vote THEN "final" ELSE "begin"
    /\ UNCHANGED <<superp, setting, buf, disk, active, asked, bitset, cnt, cached, vote, fatal>>

\* Mutant of End: the superstep is not counted.
EndUncounted ==
    /\ pc = "end"
    /\ in' = out /\ out' = in
    /\ pc' = IF phase > MinSuperPhases /\ vote THEN "final" ELSE "begin"
    /\ UNCHANGED <<phase, superp, setting, buf, disk, active, asked, bitset, cnt, cached, vote, fatal>>

\* Rewind and swap the update streams; stop when all processors vote for it.
End ==
    /\ pc = "end"
    /\ phase' = phase + 1
    /\ in' = out /\ out' = in
    /\ pc' = IF phase + 1 > MinSuperPhases /\ vote THEN "final" ELSE "begin"
    /\ UNCHANGED <<superp, setting, buf, disk, active, asked, bitset, cnt, cached, vote, fatal>>

\* The only super partition is stored when the search is over.
Final ==
    /\ pc = "final"
    /\ disk' = IF SuperPartitions = 1
               THEN [v \in Vertices |-> [b \in BlocksOf(v) |-> Rec(v)]] ELSE disk
    /\ pc' = "done"
    /\ UNCHANGED <<phase, superp, setting, buf, in, out, active, asked, bitset, cnt, cached, vote, fatal>>

Next == Begin \/ Load \/ Gather \/ Check \/ Scatter \/ Store \/ End \/ Final

Spec == Init /\ [][Next]_vars

\* The driver is one thread that keeps running.
FairSpec == Spec /\ WF_vars(Next)

-----------------------------------------------------------------------------
(* Properties *)

TypeOK ==
    /\ pc \in {"begin", "load", "gather", "check", "scatter", "store", "end", "final", "done"}
    /\ phase \in Nat /\ superp \in Supers /\ cnt \in Nat
    /\ buf \in [Positions -> Records]
    /\ \A v \in Vertices : disk[v] \in [BlocksOf(v) -> Records]
    /\ \A s \in Supers : \A e \in in[s] \cup out[s] : e \in Vertices \X Vertices /\ SuperOf(e[2]) = s
    /\ active \subseteq 0..CachedPartitions - 1
    /\ bitset \subseteq {1} \cup UNION {DOMAIN file[s] : s \in Supers}
    /\ {cached, vote, asked} \subseteq BOOLEAN
    /\ fatal \in {"no", "clear bitset error (in use)!", "Cannot find any set bits!"}

\* The state of a vertex: in memory while its super partition is worked on,
\* and always when there is only one, else in the vertex file.
InMemory(v) == \/ SuperPartitions = 1
               \/ SuperOf(v) = superp /\ pc \in {"gather", "check", "scatter", "store"}
State(v) == IF InMemory(v) THEN Rec(v) ELSE LoadedRec(v)

\* The vertices at distance at most n from the root.
Within[n \in Nat] ==
    IF n = 0 THEN {Root}
    ELSE LET nearer == Within[n - 1] IN nearer \cup {e[2] : e \in {d \in Graph : d[1] \in nearer}}

\* After a superstep exactly the vertices nearer than the phase number are
\* discovered, each with its distance as level and a parent one level up that
\* has an edge to it: no page with a needed edge was skipped and no vertex
\* block with a change was left out of the file.
LevelsExact ==
    pc \in {"begin", "final"} /\ phase > 0 =>
        \A v \in Vertices :
            /\ State(v).parent # NONE <=> v \in Within[phase - 1]
            /\ State(v).parent # NONE /\ v # Root =>
                 /\ v \in Within[State(v).level] \ Within[State(v).level - 1]
                 /\ <<State(v).parent, v>> \in Graph
                 /\ State(State(v).parent).level = State(v).level - 1

\* What ends up in the vertex file is a search tree of everything reachable.
ResultComplete ==
    pc = "done" =>
        \A v \in Vertices :
            LET r == CHOOSE x \in {disk[v][b] : b \in BlocksOf(v)} : TRUE
            IN /\ {disk[v][b] : b \in BlocksOf(v)} = {r}
               /\ r.parent # NONE <=> v \in Within[NumVertices]

\* After a super partition was stored its file holds what was in memory,
\* although only blocks with a changed vertex were written.
StoreComplete ==
    [][Store /\ SuperPartitions > 1 =>
         \A v \in VerticesOf(superp) : \A b \in BlocksOf(v) :
             disk'[v][b] = [Rec(v) EXCEPT !.changed = FALSE]]_vars

\* A partition that holds an active vertex is queued for the scatter phase, and
\* none is left over for the next super partition.
FilterMatchesFrontier ==
    /\ pc \in {"check", "scatter"} => active = {PartitionOf(v) : v \in Frontier}
    /\ pc \in {"begin", "load", "end"} => active = {}

\* The driver gets to its end.
SearchEnds == <>(pc = "done")

\* No assertion of the streams fails.
NoAssertionFails == fatal = "no"

\* The driver implements level-synchronous search: a round ends with a superstep.
Shown(v) == State(v).parent # NONE /\ State(v).level < phase
BFS == INSTANCE AbstractBFS WITH
         edges <- Graph, round <- phase,
         parent <- [v \in Vertices |-> IF phase > 0 /\ Shown(v) THEN State(v).parent ELSE NONE],
         level <- [v \in Vertices |-> IF phase > 0 /\ Shown(v) THEN State(v).level ELSE 0],
         stopped <- pc \in {"final", "done"}
ImplementsBFS == BFS!AbsSpec

\* The invariants of the driver: levels and result are exact, the partitions queued
\* for scatter are those of the frontier, and no assertion fails.
DriverInv ==
    TypeOK /\ LevelsExact /\ ResultComplete /\ FilterMatchesFrontier /\ NoAssertionFails
=============================================================================
