--------------------------- MODULE SGDriverProofs ---------------------------
(* Proofs about SGDriver, for any graph, any root, any number of super     *)
(* partitions, any sizes of vertices, blocks and pages, and any false      *)
(* positives of the filters: the driver running bfs implements             *)
(* level-synchronous search.                                               *)
EXTENDS SGDriver, FiniteSetTheorems, WellFoundedInduction, TLAPS

-----------------------------------------------------------------------------
(* The inductive invariant *)

\* The phases inside a superstep, and those with a super partition in memory.
SuperstepPcs == {"load", "gather", "check", "scatter", "store"}
LoadedPcs == {"gather", "check", "scatter", "store"}

\* The types that the rest of the invariant needs; the driver is at the end of
\* a superstep only when it has done the last super partition, and does not
\* stop with the first one.
Types ==
    /\ setting \in Settings
    /\ pc \in SuperstepPcs \cup {"begin", "end", "final", "done"}
    /\ phase \in Nat /\ superp \in Supers
    /\ pc = "end" => superp = SuperPartitions - 1
    /\ buf \in [Positions -> Records]
    /\ \A v \in Vertices : \A b \in BlocksOf(v) : disk[v][b] \in Records
    /\ in \in [Supers -> SUBSET Graph] /\ out \in [Supers -> SUBSET Graph]
    /\ vote \in BOOLEAN
    /\ pc \in {"final", "done"} => phase > 1

\* Has the record of v been set by bfs::init?
Inited(v) == \/ phase > 0 \/ pc = "end"
             \/ pc \in SuperstepPcs /\ SuperOf(v) < superp
             \/ pc \in LoadedPcs /\ SuperOf(v) = superp

\* The updates of this superstep have been applied to super partition s.
Gathered(s) == \/ pc = "end"
               \/ pc \in SuperstepPcs /\ s < superp
               \/ pc \in {"check", "scatter", "store"} /\ s = superp

\* The edges of super partition s have been scattered in this superstep.
Scattered(s) == \/ pc = "end"
                \/ pc \in SuperstepPcs /\ s < superp
                \/ pc = "store" /\ s = superp

\* With several super partitions a record in memory is marked as changed or is
\* as it is in the file, and a record in the file is not torn between blocks.
FileInv ==
    SuperPartitions > 1 =>
        \A v \in Vertices :
            IF InMemory(v) THEN Rec(v).changed \/ \A b \in BlocksOf(v) : disk[v][b] = Rec(v)
            ELSE Inited(v) => \A b, c \in BlocksOf(v) : disk[v][b] = disk[v][c]

\* Found at all, found in this superstep, and the updates that the superstep
\* before has sent: one for each edge of what it found.
Found(v) == State(v).parent # NONE
Fresh(v) == Found(v) /\ State(v).level = phase
Sent == {e \in Graph : Found(e[1]) /\ State(e[1]).level = phase - 1}

\* No vertex is found ahead of its time; one is found in this superstep by an
\* update of the superstep before, in a super partition that was gathered; and
\* in such a super partition no update was without effect.
SearchInv ==
    \A v \in Vertices :
        Inited(v) =>
            /\ Found(v) => State(v).level <= phase
            /\ phase = 0 => /\ Found(v) <=> v = Root
                            /\ v = Root => State(v).level = 0 /\ State(v).parent = Root
            /\ phase > 0 => /\ Fresh(v) => /\ Gathered(SuperOf(v))
                                           /\ <<State(v).parent, v>> \in Sent
                            /\ Gathered(SuperOf(v)) /\ ~Found(v) => \A e \in Sent : e[2] # v

\* The input has all updates that were sent to a super partition until it is
\* gathered, the output those of the super partitions that were scattered.
StreamInv ==
    \A s \in Supers :
        /\ in[s] = IF phase = 0 \/ Gathered(s) THEN {} ELSE {e \in Sent : SuperOf(e[2]) = s}
        /\ out[s] = {e \in Graph : SuperOf(e[2]) = s /\ Scattered(SuperOf(e[1])) /\ Fresh(e[1])}

\* The scatter filter has the partitions of the frontier.
ActiveInv ==
    /\ pc \in {"gather", "check", "scatter"} => active = {PartitionOf(v) : v \in Frontier}
    /\ pc \in {"begin", "load", "end"} => active = {}

\* The vote to stop stands until something is found, the root excepted.
VoteInv == pc \in SuperstepPcs \cup {"end"} =>
    (vote <=> phase = 0 \/ \A v \in Vertices : Gathered(SuperOf(v)) => ~Fresh(v))

\* When the filters were asked, the pages with an edge of the frontier are read.
QueryInv == pc = "scatter" /\ asked => Hits(Frontier) \subseteq bitset

\* What a step inside a superstep may never do: change what earlier supersteps
\* discovered.
Kept ==
    phase > 0 =>
        \A v \in Vertices :
            /\ Shown(v)' <=> Shown(v)
            /\ Shown(v) => State(v)'.parent = State(v).parent /\ State(v)'.level = State(v).level

IInv == Types /\ FileInv /\ SearchInv /\ StreamInv /\ ActiveInv /\ VoteInv /\ QueryInv

-----------------------------------------------------------------------------
(* Vertices, positions and blocks *)

\* What the assumptions on the constants say.
LEMMA Basics ==
  /\ NumVertices \in Nat \ {0} /\ CachedPartitions \in Nat \ {0} /\ Processors \in Nat \ {0}
  /\ VertexSize \in Nat \ {0} /\ BlockSize \in Nat \ {0} /\ BufferPages \in Nat \ {0}
  /\ Root \in Vertices /\ NONE \notin Vertices /\ Vertices \subseteq Nat
BY SizesAssumption, RootAssumption DEF Vertices

\* The edge files: as many as super partitions, each with the edges that have
\* their source there.
LEMMA EdgeFiles ==
  ASSUME setting \in Settings
  PROVE  /\ SuperPartitions \in Nat \ {0}
         /\ file \in [Supers -> Seq(Seq(Edges \cup {TOMBSTONE}))]
         /\ Graph \subseteq Edges
         /\ \A s \in Supers : EdgesIn(ToSet(file[s])) = {e \in Graph : SuperOf(e[1]) = s}
<1>1. SuperPartitions \in Nat \ {0} /\ file \in [Supers -> Seq(Seq(Edges \cup {TOMBSTONE}))]
  BY SettingsAssumption DEF file, SuperPartitions, Supers
<1>2. \A s \in Supers : \A page \in ToSet(file[s]) : \A e \in ToSet(page) \ {TOMBSTONE} : SuperOf(e[1]) = s
  BY <1>1, PlacementAssumption DEF file, SuperOf, SuperPartitions
<1>3. \A s \in Supers : \A page \in ToSet(file[s]) : ToSet(page) \subseteq Edges \cup {TOMBSTONE}
  BY <1>1 DEF ToSet
<1>4. \A s \in Supers : EdgesIn(ToSet(file[s])) \subseteq Edges
  BY <1>3 DEF EdgesIn
<1>5. \A s \in Supers : \A e \in EdgesIn(ToSet(file[s])) : SuperOf(e[1]) = s
  BY <1>2 DEF EdgesIn
<1>6. Graph \subseteq Edges
  BY <1>4 DEF Graph
<1>7. \A s \in Supers : EdgesIn(ToSet(file[s])) = {e \in Graph : SuperOf(e[1]) = s}
  BY <1>5 DEF Graph
<1>8. QED
  BY <1>1, <1>6, <1>7

\* Every vertex has a super partition.
LEMMA SuperType ==
  ASSUME setting \in Settings, NEW v \in Vertices
  PROVE  SuperOf(v) \in Supers /\ v \in VerticesOf(SuperOf(v)) /\ VerticesOf(SuperOf(v)) \subseteq Vertices
BY Basics, EdgeFiles DEF SuperOf, Supers, VerticesOf

\* state_iter_work's order of the vertices of a super partition.
LEMMA BeforeIsOrder ==
  ASSUME NEW u \in Vertices, NEW v \in Vertices, NEW w \in Vertices, setting \in Settings
  PROVE  /\ ~Before(u, u)
         /\ Before(u, v) /\ Before(v, w) => Before(u, w)
         /\ u # v => Before(u, v) \/ Before(v, u)
<1>1. PartitionOf(u) \in Int /\ PartitionOf(v) \in Int /\ PartitionOf(w) \in Int
  BY Basics, EdgeFiles DEF PartitionOf
<1>2. u \in Int /\ v \in Int /\ w \in Int
  BY Basics
<1>3. QED
  BY <1>1, <1>2 DEF Before

\* The positions of the vertices of a super partition: in order, all different,
\* and inside the state buffer.
LEMMA PositionType ==
  ASSUME setting \in Settings, NEW v \in Vertices
  PROVE  Position(v) \in Positions
<1> DEFINE A == {u \in VerticesOf(SuperOf(v)) : Before(u, v)}
<1>1. IsFiniteSet(Vertices) /\ Cardinality(Vertices) = NumVertices
  BY Basics, FS_Interval DEF Vertices
<1>2. A \in SUBSET Vertices /\ v \notin A
  BY BeforeIsOrder DEF VerticesOf
<1>3. /\ IsFiniteSet(A) /\ Cardinality(A) <= Cardinality(Vertices)
      /\ Cardinality(A) = Cardinality(Vertices) => A = Vertices
  BY <1>1, <1>2, FS_Subset
<1>4. Cardinality(A) \in Nat
  BY <1>3, FS_CardinalityType
<1>5. Cardinality(A) < NumVertices
  BY <1>1, <1>2, <1>3, <1>4, Basics
<1>6. QED
  BY <1>4, <1>5, Basics DEF Position, Positions

\* Positions follow the order of the vertices.
LEMMA PositionGrows ==
  ASSUME setting \in Settings, NEW u \in Vertices, NEW v \in Vertices,
         SuperOf(u) = SuperOf(v), Before(u, v)
  PROVE  Position(u) < Position(v)
<1> DEFINE A == {w \in VerticesOf(SuperOf(v)) : Before(w, u)}
           B == {w \in VerticesOf(SuperOf(v)) : Before(w, v)}
<1>1. IsFiniteSet(Vertices)
  BY Basics, FS_Interval DEF Vertices
<1>2. A \in SUBSET B /\ B \in SUBSET Vertices
  BY BeforeIsOrder DEF VerticesOf
<1>3. u \in B /\ u \notin A
  BY BeforeIsOrder, SuperType
<1>4. IsFiniteSet(B) /\ IsFiniteSet(A)
  BY <1>1, <1>2, FS_Subset
<1>5. Cardinality(A) <= Cardinality(B) /\ (Cardinality(A) = Cardinality(B) => A = B)
  BY <1>2, <1>4, FS_Subset
<1>6. Cardinality(A) \in Nat /\ Cardinality(B) \in Nat
  BY <1>4, FS_CardinalityType
<1>7. Cardinality(A) < Cardinality(B)
  BY <1>3, <1>5, <1>6
<1>8. QED
  BY <1>7 DEF Position

\* No two vertices of a super partition share a position.
LEMMA PositionUnique ==
  ASSUME setting \in Settings, NEW u \in Vertices, NEW v \in Vertices,
         SuperOf(u) = SuperOf(v), Position(u) = Position(v)
  PROVE  u = v
<1> SUFFICES ASSUME u # v PROVE FALSE
  OBVIOUS
<1>1. Before(u, v) \/ Before(v, u)
  BY BeforeIsOrder
<1>2. Position(u) \in Int /\ Position(v) \in Int
  BY PositionType, Basics DEF Positions
<1>3. QED
  BY <1>1, <1>2, PositionGrows

-----------------------------------------------------------------------------
(* Records in memory and in the file *)

\* The layout depends on the edge files alone, which no step changes.
LEMMA SameLayout ==
  ASSUME setting' = setting
  PROVE  /\ file' = file /\ SuperPartitions' = SuperPartitions /\ Supers' = Supers
         /\ Graph' = Graph
         /\ \A v \in Vertices : /\ SuperOf(v)' = SuperOf(v) /\ PartitionOf(v)' = PartitionOf(v)
                                /\ Position(v)' = Position(v) /\ BlocksOf(v)' = BlocksOf(v)
         /\ \A s \in Supers : VerticesOf(s)' = VerticesOf(s)
<1>1. file' = file /\ SuperPartitions' = SuperPartitions /\ Supers' = Supers
  BY DEF file, SuperPartitions, Supers
<1>2. Graph' = Graph
  BY <1>1 DEF Graph
<1>3. \A v \in Vertices : SuperOf(v)' = SuperOf(v) /\ PartitionOf(v)' = PartitionOf(v)
  BY <1>1 DEF SuperOf, PartitionOf
<1>4. \A s : VerticesOf(s)' = VerticesOf(s)
  BY <1>3 DEF VerticesOf
<1>5. \A v \in Vertices : Position(v)' = Position(v)
  BY <1>1 DEF Position, VerticesOf, Before, SuperOf, PartitionOf
<1>6. \A v \in Vertices : BlocksOf(v)' = BlocksOf(v)
  BY <1>5 DEF BlocksOf, FirstBlock, LastBlock
<1>7. QED
  BY <1>1, <1>2, <1>3, <1>4, <1>5, <1>6

\* A record in memory is a record.
LEMMA RecType ==
  ASSUME Types, NEW v \in Vertices
  PROVE  Rec(v) \in Records
BY PositionType DEF Types, Rec

\* With changes the records of the given vertices of one super partition, and
\* no other vertex of it shares their positions.
LEMMA WithRec ==
  ASSUME Types, NEW s \in Supers, NEW new,
         DOMAIN new \subseteq VerticesOf(s), \A v \in DOMAIN new : new[v] \in Records
  PROVE  /\ With(new) \in [Positions -> Records]
         /\ \A v \in VerticesOf(s) :
              With(new)[Position(v)] = IF v \in DOMAIN new THEN new[v] ELSE Rec(v)
<1> DEFINE at(p) == {v \in DOMAIN new : Position(v) = p}
<1>1. setting \in Settings /\ buf \in [Positions -> Records]
  BY DEF Types
<1>2. \A p \in Positions : With(new)[p] = IF at(p) = {} THEN buf[p] ELSE new[CHOOSE v \in at(p) : TRUE]
  BY DEF With
<1>3. With(new) \in [Positions -> Records]
  <2>1. \A p \in Positions : at(p) # {} => (CHOOSE v \in at(p) : TRUE) \in DOMAIN new
    OBVIOUS
  <2>2. \A p \in Positions : With(new)[p] \in Records
    BY <1>1, <1>2, <2>1
  <2>3. QED
    BY <2>2 DEF With
<1>4. ASSUME NEW v \in VerticesOf(s)
      PROVE  With(new)[Position(v)] = IF v \in DOMAIN new THEN new[v] ELSE Rec(v)
  <2>1. v \in Vertices /\ SuperOf(v) = s /\ Position(v) \in Positions
    BY <1>1, PositionType DEF VerticesOf
  <2>2. \A u \in at(Position(v)) : u = v
    BY <1>1, <2>1, PositionUnique DEF VerticesOf
  <2>3. CASE v \in DOMAIN new
    <3>1. at(Position(v)) = {v}
      BY <2>2, <2>3
    <3>2. QED
      BY <1>2, <2>1, <2>3, <3>1
  <2>4. CASE v \notin DOMAIN new
    <3>1. at(Position(v)) = {}
      BY <2>2, <2>4
    <3>2. QED
      BY <1>2, <2>1, <2>4, <3>1 DEF Rec
  <2>5. QED
    BY <2>3, <2>4
<1>5. QED
  BY <1>3, <1>4

\* A record whose blocks agree is read back whole.
LEMMA Whole ==
  ASSUME NEW v \in Vertices, NEW r, \A b \in BlocksOf(v) : disk[v][b] = r
  PROVE  LoadedRec(v) = r
<1> DEFINE parts == {disk[v][b] : b \in BlocksOf(v)}
<1>1. parts = {r}
  BY DEF BlocksOf
<1>2. Cardinality(parts) = 1
  BY <1>1, FS_Singleton
<1>3. (CHOOSE x \in parts : TRUE) = r
  BY <1>1
<1>4. QED
  BY <1>2, <1>3 DEF LoadedRec

\* What is read is a record.
LEMMA LoadedType ==
  ASSUME Types, NEW v \in Vertices
  PROVE  LoadedRec(v) \in Records
<1> DEFINE parts == {disk[v][b] : b \in BlocksOf(v)}
<1>1. parts \subseteq Records /\ parts # {}
  BY DEF BlocksOf, Types
<1>2. (CHOOSE x \in parts : TRUE) \in Records
  BY <1>1
<1>3. [parent |-> NONE, level |-> phase, changed |-> TRUE] \in Records
  BY DEF Records, Types
<1>4. QED
  BY <1>2, <1>3 DEF LoadedRec

\* The state of a vertex, wherever it is, is a record.
LEMMA StateType ==
  ASSUME Types, NEW v \in Vertices
  PROVE  State(v) \in Records
BY RecType, LoadedType DEF State

\* Every changed record is written as a whole: a vertex that marks no block is
\* in the one block of the changed vertex before it.
LEMMA MarkedBlocks ==
  ASSUME setting \in Settings, superp \in Supers, NEW v \in ChangedVertices
  PROVE  BlocksOf(v) \subseteq ChangedBlocks
<1> DEFINE Bad == {u \in ChangedVertices : ~(BlocksOf(u) \subseteq ChangedBlocks)}
           T == {Position(u) : u \in Bad}
<1>1. \A u \in ChangedVertices : u \in Vertices /\ SuperOf(u) = superp /\ Position(u) \in Nat
  BY PositionType, Basics DEF ChangedVertices, VerticesOf, Positions
<1>2. SUFFICES ASSUME T # {} PROVE FALSE
  OBVIOUS
<1>3. T \subseteq Nat
  BY <1>1
<1>4. PICK p \in T : \A q \in T : ~(<<q, p>> \in OpToRel(<, Nat))
  BY <1>2, <1>3, WFMin, NatLessThanWellFounded
<1>5. PICK w \in Bad : Position(w) = p
  BY <1>4
<1>6. \A u \in Bad : ~(Position(u) < Position(w))
  BY <1>1, <1>4, <1>5 DEF OpToRel
<1>7. w \in ChangedVertices /\ ~(BlocksOf(w) \subseteq ChangedBlocks)
  BY <1>5
<1>8. Marks(w) # BlocksOf(w)
  BY <1>7 DEF ChangedBlocks
<1>9. PICK u \in Previous(w) : FirstBlock(u) = FirstBlock(w) /\ FirstBlock(u) = LastBlock(w)
  BY <1>8 DEF Marks
<1>10. u \in ChangedVertices /\ Before(u, w)
  BY <1>9 DEF Previous
<1>11. Position(u) < Position(w)
  BY <1>1, <1>7, <1>10, PositionGrows
<1>12. BlocksOf(u) \subseteq ChangedBlocks
  BY <1>6, <1>10, <1>11
<1>13. BlocksOf(w) \subseteq ChangedBlocks
  BY <1>9, <1>12 DEF BlocksOf
<1>14. QED
  BY <1>7, <1>13

-----------------------------------------------------------------------------
(* What a step leaves alone *)

\* A super partition is gathered, or scattered, only when its vertices have a
\* record.
LEMMA GatheredInited ==
  ASSUME Types, NEW v \in Vertices
  PROVE  Gathered(SuperOf(v)) \/ Scattered(SuperOf(v)) => Inited(v)
BY DEF Gathered, Scattered, Inited, SuperstepPcs, LoadedPcs

\* The two ends of an edge are vertices.
LEMMA EdgeEnds ==
  ASSUME Types, NEW e \in Graph
  PROVE  /\ e[1] \in Vertices /\ e[2] \in Vertices /\ e = <<e[1], e[2]>>
         /\ SuperOf(e[1]) \in Supers /\ SuperOf(e[2]) \in Supers
<1>1. e \in Edges
  BY EdgeFiles DEF Types
<1>2. e[1] \in Vertices /\ e[2] \in Vertices /\ e = <<e[1], e[2]>>
  BY <1>1 DEF Edges
<1>3. QED
  BY <1>2, SuperType DEF Types

\* A step inside a superstep that keeps what is known of the vertices keeps
\* what is known of the search.
LEMMA SearchFrame ==
  ASSUME Types, setting' = setting, phase' = phase,
         \A v \in Vertices : Inited(v) =>
             State(v)'.parent = State(v).parent /\ State(v)'.level = State(v).level
  PROVE  /\ \A v \in Vertices : Inited(v) => (Found(v)' <=> Found(v)) /\ (Fresh(v)' <=> Fresh(v))
         /\ phase > 0 => Sent' = Sent
<1>1. \A v \in Vertices : Inited(v) => (Found(v)' <=> Found(v)) /\ (Fresh(v)' <=> Fresh(v))
  BY DEF Found, Fresh
<1>2. ASSUME phase > 0 PROVE Sent' = Sent
  <2>1. Graph' = Graph
    BY SameLayout
  <2>2. \A e \in Graph : e[1] \in Vertices /\ Inited(e[1])
    BY <1>2, EdgeEnds DEF Inited
  <2>3. \A e \in Graph : (Found(e[1]) /\ State(e[1]).level = phase - 1)'
                           <=> Found(e[1]) /\ State(e[1]).level = phase - 1
    BY <2>2, <1>1
  <2>4. QED
    BY <2>1, <2>3 DEF Sent
<1>3. QED
  BY <1>1, <1>2

\* In particular it keeps what earlier supersteps discovered.
LEMMA StatesKept ==
  ASSUME Types, setting' = setting, phase' = phase,
         \A v \in Vertices : Inited(v) =>
             State(v)'.parent = State(v).parent /\ State(v)'.level = State(v).level
  PROVE  Kept
<1>1. phase > 0 => \A v \in Vertices : Inited(v)
  BY DEF Inited
<1>2. QED
  BY <1>1 DEF Kept, Shown

\* If it gathers nothing either, what is known of the search stays true.
LEMMA SearchKept ==
  ASSUME Types, SearchInv, setting' = setting, phase' = phase,
         \A v \in Vertices : Inited(v) =>
             State(v)'.parent = State(v).parent /\ State(v)'.level = State(v).level,
         \A v \in Vertices : Inited(v)' => Inited(v),
         \A s \in Supers : Gathered(s)' <=> Gathered(s)
  PROVE  SearchInv'
<1>1. /\ \A v \in Vertices : Inited(v) => (Found(v)' <=> Found(v)) /\ (Fresh(v)' <=> Fresh(v))
      /\ phase > 0 => Sent' = Sent
  BY SearchFrame
<1>2. \A v \in Vertices : /\ SuperOf(v)' = SuperOf(v) /\ SuperOf(v) \in Supers
                          /\ Gathered(SuperOf(v))' <=> Gathered(SuperOf(v))
  <2>1. ASSUME NEW v \in Vertices
        PROVE  /\ SuperOf(v)' = SuperOf(v) /\ SuperOf(v) \in Supers
               /\ Gathered(SuperOf(v))' <=> Gathered(SuperOf(v))
    <3>1. SuperOf(v)' = SuperOf(v) /\ SuperOf(v) \in Supers
      BY SameLayout, SuperType DEF Types
    <3>2. Gathered(SuperOf(v))' <=> Gathered(SuperOf(v))
      BY <3>1
    <3>3. QED
      BY <3>1, <3>2
  <2>2. QED
    BY <2>1
<1>3. phase \in Nat
  BY DEF Types
<1>4. QED
  BY <1>1, <1>2, <1>3 DEF SearchInv

\* Such a step keeps what is known of a stream that it does not change.
LEMMA InKept ==
  ASSUME Types, StreamInv, setting' = setting, phase' = phase, phase > 0 => Sent' = Sent,
         NEW s \in Supers, in'[s] = in[s], Gathered(s)' <=> Gathered(s)
  PROVE  in'[s] = IF phase' = 0 \/ Gathered(s)' THEN {} ELSE {e \in Sent' : SuperOf(e[2])' = s}
<1>1. phase \in Nat
  BY DEF Types
<1>2. \A e \in Sent : SuperOf(e[2])' = SuperOf(e[2])
  BY SameLayout, EdgeEnds DEF Sent
<1>3. CASE phase = 0 \/ Gathered(s)
  BY <1>3 DEF StreamInv
<1>4. CASE phase > 0 /\ ~Gathered(s)
  <2>1. ~(phase = 0 \/ Gathered(s))
    BY <1>1, <1>4
  <2>2. in[s] = {e \in Sent : SuperOf(e[2]) = s}
    BY <2>1, Zenon DEF StreamInv
  <2>3. {e \in Sent' : SuperOf(e[2])' = s} = {e \in Sent : SuperOf(e[2]) = s}
    BY <1>2, <1>4
  <2>4. ~(phase' = 0 \/ Gathered(s)')
    BY <2>1
  <2>5. QED
    BY <2>2, <2>3, <2>4
<1>5. QED
  BY <1>1, <1>3, <1>4

\* The same for the updates that are being produced.
LEMMA OutKept ==
  ASSUME Types, StreamInv, setting' = setting, phase' = phase, out' = out,
         \A v \in Vertices : Scattered(SuperOf(v)) => (Fresh(v)' <=> Fresh(v)),
         \A s \in Supers : Scattered(s)' <=> Scattered(s)
  PROVE  \A s \in Supers :
           out'[s] = {e \in Graph : SuperOf(e[2])' = s /\ Scattered(SuperOf(e[1]))' /\ Fresh(e[1])'}
<1>1. ASSUME NEW e \in Graph
      PROVE  /\ SuperOf(e[2])' = SuperOf(e[2])
             /\ (Scattered(SuperOf(e[1]))' /\ Fresh(e[1])') <=> (Scattered(SuperOf(e[1])) /\ Fresh(e[1]))
  <2>1. e[1] \in Vertices /\ e[2] \in Vertices /\ SuperOf(e[1]) \in Supers
    BY EdgeEnds
  <2>2. SuperOf(e[1])' = SuperOf(e[1]) /\ SuperOf(e[2])' = SuperOf(e[2])
    BY <2>1, SameLayout
  <2>3. Scattered(SuperOf(e[1]))' <=> Scattered(SuperOf(e[1]))
    BY <2>1, <2>2
  <2>4. QED
    BY <2>1, <2>2, <2>3
<1>2. QED
  BY <1>1 DEF StreamInv

\* A step that touches neither stream keeps both.
LEMMA StreamKept ==
  ASSUME Types, StreamInv, setting' = setting, phase' = phase, in' = in, out' = out,
         \A v \in Vertices : Inited(v) => (Fresh(v)' <=> Fresh(v)),
         phase > 0 => Sent' = Sent,
         \A s \in Supers : (Gathered(s)' <=> Gathered(s)) /\ (Scattered(s)' <=> Scattered(s))
  PROVE  StreamInv'
<1>1. Supers' = Supers /\ Graph' = Graph
  BY SameLayout
<1>2. \A s \in Supers : Scattered(s)' <=> Scattered(s)
  OBVIOUS
<1>3. \A v \in Vertices : Scattered(SuperOf(v)) => (Fresh(v)' <=> Fresh(v))
  BY GatheredInited
<1>4. \A s \in Supers :
         out'[s] = {e \in Graph : SuperOf(e[2])' = s /\ Scattered(SuperOf(e[1]))' /\ Fresh(e[1])'}
  BY <1>2, <1>3, OutKept
<1>5. \A s \in Supers :
         in'[s] = IF phase' = 0 \/ Gathered(s)' THEN {} ELSE {e \in Sent' : SuperOf(e[2])' = s}
  <2>1. \A s \in Supers : in'[s] = in[s] /\ (Gathered(s)' <=> Gathered(s))
    OBVIOUS
  <2>2. QED
    BY <2>1, InKept
<1>6. QED
  BY <1>1, <1>4, <1>5 DEF StreamInv

\* When the records and the numbers of the superstep stay, so does the frontier.
LEMMA FrontierKept ==
  ASSUME Types, setting' = setting, phase' = phase, superp' = superp,
         \A v \in VerticesOf(superp) : Rec(v)'.parent = Rec(v).parent /\ Rec(v)'.level = Rec(v).level
  PROVE  /\ Frontier' = Frontier
         /\ {PartitionOf(v) : v \in Frontier}' = {PartitionOf(v) : v \in Frontier}
<1>1. superp \in Supers /\ VerticesOf(superp)' = VerticesOf(superp)
  BY SameLayout DEF Types
<1>2. Frontier' = Frontier
  BY <1>1 DEF Frontier
<1>3. \A v \in Frontier : PartitionOf(v)' = PartitionOf(v)
  BY SameLayout DEF Frontier, VerticesOf
<1>4. QED
  BY <1>2, <1>3

\* While the vertex file stays, so does what is read from it.
LEMMA LoadedKept ==
  ASSUME setting' = setting, phase' = phase, disk' = disk, NEW v \in Vertices
  PROVE  LoadedRec(v)' = LoadedRec(v)
<1>1. BlocksOf(v)' = BlocksOf(v)
  BY SameLayout
<1>2. QED
  BY <1>1 DEF LoadedRec

\* When memory and file stay, so does every record.
LEMMA RecKept ==
  ASSUME setting' = setting, phase' = phase, buf' = buf, disk' = disk
  PROVE  \A v \in Vertices : /\ Rec(v)' = Rec(v) /\ LoadedRec(v)' = LoadedRec(v)
                             /\ BlocksOf(v)' = BlocksOf(v) /\ SuperOf(v)' = SuperOf(v)
<1>1. \A v \in Vertices : Rec(v)' = Rec(v)
  BY SameLayout DEF Rec
<1>2. \A v \in Vertices : LoadedRec(v)' = LoadedRec(v)
  BY LoadedKept
<1>3. QED
  BY <1>1, <1>2, SameLayout

\* A step that moves no record, and counts no vertex or super partition in or
\* out, keeps what is known of the vertices.
LEMMA MemoryKept ==
  ASSUME Types, FileInv, SearchInv, setting' = setting, phase' = phase, buf' = buf, disk' = disk,
         \A v \in Vertices : (InMemory(v)' <=> InMemory(v)) /\ (Inited(v)' <=> Inited(v)),
         \A s \in Supers : Gathered(s)' <=> Gathered(s)
  PROVE  /\ FileInv' /\ SearchInv' /\ Kept
         /\ \A v \in Vertices : Inited(v) => (Fresh(v)' <=> Fresh(v))
         /\ phase > 0 => Sent' = Sent
<1>1. \A v \in Vertices : /\ Rec(v)' = Rec(v) /\ LoadedRec(v)' = LoadedRec(v)
                          /\ BlocksOf(v)' = BlocksOf(v) /\ SuperOf(v)' = SuperOf(v)
  BY RecKept
<1>2. SuperPartitions' = SuperPartitions
  BY SameLayout
<1>3. \A v \in Vertices : State(v)' = State(v)
  BY <1>1 DEF State
<1>4. FileInv'
  BY <1>1, <1>2 DEF FileInv
<1>5. \A v \in Vertices : Inited(v)' => Inited(v)
  OBVIOUS
<1>6. \A v \in Vertices : Inited(v) =>
         State(v)'.parent = State(v).parent /\ State(v)'.level = State(v).level
  BY <1>3
<1>7. SearchInv'
  BY <1>5, <1>6, SearchKept
<1>8. /\ \A v \in Vertices : Inited(v) => (Fresh(v)' <=> Fresh(v))
      /\ phase > 0 => Sent' = Sent
  BY <1>5, <1>6, SearchFrame
<1>9. Kept
  BY <1>6, StatesKept
<1>10. QED
  BY <1>4, <1>7, <1>8, <1>9

-----------------------------------------------------------------------------
(* One lemma for each action *)

\* superphase_begin: nothing is gathered or scattered yet.
LEMMA BeginInv == ASSUME IInv, Begin PROVE IInv' /\ Kept
<1> USE DEF SuperstepPcs, LoadedPcs
<1>1. Types /\ FileInv /\ SearchInv /\ StreamInv
  BY DEF IInv
<1>2. /\ pc = "begin" /\ pc' = "load" /\ superp' = 0 /\ vote' = TRUE
      /\ UNCHANGED <<phase, setting, buf, disk, in, out, active>>
  BY DEF Begin
<1>3. /\ file' = file /\ SuperPartitions' = SuperPartitions /\ Supers' = Supers /\ Graph' = Graph
      /\ \A v \in Vertices : SuperOf(v)' = SuperOf(v) /\ SuperOf(v) \in Supers
      /\ SuperPartitions \in Nat \ {0} /\ Supers = 0..SuperPartitions - 1
  BY <1>1, <1>2, SameLayout, SuperType, EdgeFiles DEF Types, Supers
<1>4. Types'
  BY <1>1, <1>2, <1>3, SameLayout DEF Types
<1>5. \A v \in Vertices : Inited(v)' <=> Inited(v)
  BY <1>1, <1>2, <1>3 DEF Inited
<1>6. \A s \in Supers : ~Gathered(s) /\ ~Scattered(s) /\ ~Gathered(s)' /\ ~Scattered(s)'
  BY <1>2, <1>3 DEF Gathered, Scattered
<1>7. \A v \in Vertices : InMemory(v)' <=> InMemory(v)
  BY <1>2, <1>3 DEF InMemory
<1>8. /\ FileInv' /\ SearchInv' /\ Kept
      /\ \A v \in Vertices : Inited(v) => (Fresh(v)' <=> Fresh(v))
      /\ phase > 0 => Sent' = Sent
  BY <1>1, <1>2, <1>5, <1>6, <1>7, MemoryKept
<1>9. StreamInv'
  BY <1>1, <1>2, <1>6, <1>8, StreamKept
<1>12. ActiveInv'
  BY <1>2 DEF ActiveInv, IInv
<1>13. VoteInv'
  BY <1>2, <1>3, <1>6 DEF VoteInv
<1>14. QED
  BY <1>2, <1>4, <1>8, <1>9, <1>12, <1>13 DEF IInv, QueryInv

\* Inside a super partition the frontier is what this superstep discovered in it.
LEMMA FrontierFresh ==
  ASSUME Types, pc \in LoadedPcs, NEW v \in Vertices
  PROVE  v \in Frontier <=> SuperOf(v) = superp /\ Fresh(v)
BY DEF Frontier, Fresh, Found, State, InMemory, VerticesOf, LoadedPcs

\* check_bsp and the query: the answer has every page with an edge of the frontier.
LEMMA CheckInv == ASSUME IInv, Check PROVE IInv' /\ Kept
<1> USE DEF SuperstepPcs, LoadedPcs
<1>1. Types /\ FileInv /\ SearchInv /\ StreamInv /\ VoteInv /\ ActiveInv
  BY DEF IInv
<1>2. /\ pc = "check" /\ pc' = "scatter"
      /\ UNCHANGED <<phase, superp, setting, buf, disk, in, out, active, cached, vote, fatal>>
  BY DEF Check
<1>3. /\ file' = file /\ SuperPartitions' = SuperPartitions /\ Supers' = Supers /\ Graph' = Graph
      /\ \A v \in Vertices : SuperOf(v)' = SuperOf(v) /\ SuperOf(v) \in Supers
      /\ superp \in Supers /\ Supers \subseteq Int
  BY <1>1, <1>2, SameLayout, SuperType DEF Types, Supers
<1>4. Types'
  BY <1>1, <1>2, <1>3, SameLayout DEF Types
<1>5. \A v \in Vertices : (InMemory(v)' <=> InMemory(v)) /\ (Inited(v)' <=> Inited(v))
  BY <1>2, <1>3 DEF Inited, InMemory
<1>6. \A s \in Supers : (Gathered(s)' <=> Gathered(s)) /\ (Scattered(s)' <=> Scattered(s))
  BY <1>2, <1>3 DEF Gathered, Scattered
<1>7. \A s \in Supers : Gathered(s)' <=> Gathered(s)
  BY <1>6
<1>8. /\ FileInv' /\ SearchInv' /\ Kept
      /\ \A v \in Vertices : Inited(v) => (Fresh(v)' <=> Fresh(v))
      /\ phase > 0 => Sent' = Sent
  BY <1>1, <1>2, <1>5, <1>7, MemoryKept
<1>9. StreamInv'
  BY <1>1, <1>2, <1>6, <1>8, StreamKept
<1>10. /\ Frontier' = Frontier
       /\ {PartitionOf(v) : v \in Frontier}' = {PartitionOf(v) : v \in Frontier}
  <2>1. \A v \in VerticesOf(superp) : Rec(v)'.parent = Rec(v).parent /\ Rec(v)'.level = Rec(v).level
    BY <1>2, RecKept DEF VerticesOf
  <2>2. QED
    BY <1>1, <1>2, <2>1, FrontierKept
<1>11. ActiveInv'
  BY <1>1, <1>2, <1>10 DEF ActiveInv
<1>12. VoteInv'
  <2>1. \A v \in Vertices : (Gathered(SuperOf(v)))' <=> Gathered(SuperOf(v))
    BY <1>3, <1>7
  <2>2. \A v \in Vertices : Gathered(SuperOf(v)) => Inited(v)
    BY <1>1, GatheredInited
  <2>3. QED
    BY <1>1, <1>2, <1>8, <2>1, <2>2 DEF VoteInv
<1>13. QueryInv'
  <2>1. Hits(Frontier)' = Hits(Frontier)
    BY <1>2, <1>3, <1>10 DEF Hits
  <2>2. asked' => Hits(Frontier) \subseteq bitset'
    BY DEF Check, Answer
  <2>3. QED
    BY <2>1, <2>2 DEF QueryInv
<1>14. QED
  BY <1>4, <1>8, <1>9, <1>11, <1>12, <1>13 DEF IInv

\* generate_update sees every edge of the frontier: the pages skipped have none.
LEMMA SentEdges ==
  ASSUME IInv, pc = "scatter"
  PROVE  {e \in EdgesIn(PagesRead) : PartitionOf(e[1]) \in active /\ e[1] \in Frontier}
           = {e \in Graph : SuperOf(e[1]) = superp /\ Fresh(e[1])}
<1> DEFINE Mine == {e \in Graph : SuperOf(e[1]) = superp}
<1>1. Types /\ superp \in Supers /\ setting \in Settings
  BY DEF IInv, Types
<1>2. EdgesIn(ToSet(file[superp])) = Mine
  BY <1>1, EdgeFiles
<1>3. \A e \in Graph : e[1] \in Vertices
  BY <1>1, EdgeEnds
<1>4. \A e \in Mine : e[1] \in Frontier <=> Fresh(e[1])
  BY <1>1, <1>3, FrontierFresh DEF LoadedPcs
<1>5. \A v \in Frontier : PartitionOf(v) \in active
  BY DEF IInv, ActiveInv
<1>6. PagesRead \subseteq ToSet(file[superp])
  BY DEF PagesRead, ToSet
<1>7. EdgesIn(PagesRead) \subseteq Mine
  BY <1>2, <1>6 DEF EdgesIn
<1>8. ASSUME NEW e \in Mine, e[1] \in Frontier PROVE e \in EdgesIn(PagesRead)
  <2>1. CASE cached \/ ~asked
    BY <1>2, <1>8, <2>1 DEF PagesRead
  <2>2. CASE ~(cached \/ ~asked)
    <3>1. e \in EdgesIn(ToSet(file[superp]))
      BY <1>2, <1>8
    <3>2. PICK k \in DOMAIN file[superp] : e \in ToSet(file[superp][k]) /\ e # TOMBSTONE
      BY <3>1 DEF EdgesIn, ToSet
    <3>3. e \in EdgesIn({file[superp][k]})
      BY <3>2 DEF EdgesIn
    <3>4. k \in Hits(Frontier)
      BY <1>8, <3>2, <3>3 DEF Hits
    <3>5. k \in bitset
      BY <2>2, <3>4 DEF IInv, QueryInv
    <3>6. file[superp][k] \in PagesRead
      BY <2>2, <3>2, <3>5 DEF PagesRead
    <3>7. QED
      BY <3>2, <3>6 DEF EdgesIn
  <2>3. QED
    BY <2>1, <2>2
<1>9. QED
  BY <1>4, <1>5, <1>7, <1>8

\* The scatter phase puts the edges of the frontier into the output stream.
LEMMA ScatterInv == ASSUME IInv, Scatter PROVE IInv' /\ Kept
<1> USE DEF SuperstepPcs, LoadedPcs
<1>1. Types /\ FileInv /\ SearchInv /\ StreamInv /\ VoteInv /\ ActiveInv
  BY DEF IInv
<1> DEFINE sent == {e \in EdgesIn(PagesRead) : PartitionOf(e[1]) \in active /\ e[1] \in Frontier}
<1>2. /\ pc = "scatter" /\ pc' = "store"
      /\ out' = [s \in Supers |-> out[s] \cup To(s, sent)]
      /\ UNCHANGED <<phase, superp, setting, buf, disk, in, active, asked, bitset, cnt, vote>>
  BY DEF Scatter
<1>3. /\ file' = file /\ SuperPartitions' = SuperPartitions /\ Supers' = Supers /\ Graph' = Graph
      /\ \A v \in Vertices : SuperOf(v)' = SuperOf(v) /\ SuperOf(v) \in Supers
      /\ superp \in Supers /\ Supers \subseteq Int
  BY <1>1, <1>2, SameLayout, SuperType DEF Types, Supers
<1>4. sent = {e \in Graph : SuperOf(e[1]) = superp /\ Fresh(e[1])}
  BY <1>2, SentEdges
<1> HIDE DEF sent
<1>5. \A v \in Vertices : (InMemory(v)' <=> InMemory(v)) /\ (Inited(v)' <=> Inited(v))
  BY <1>2, <1>3 DEF Inited, InMemory
<1>6. \A s \in Supers : Gathered(s)' <=> Gathered(s)
  BY <1>2, <1>3 DEF Gathered
<1>7. \A s \in Supers : Scattered(s)' <=> Scattered(s) \/ s = superp
  BY <1>2, <1>3 DEF Scattered
<1>8. /\ FileInv' /\ SearchInv' /\ Kept
      /\ \A v \in Vertices : Inited(v) => (Fresh(v)' <=> Fresh(v))
      /\ phase > 0 => Sent' = Sent
  BY <1>1, <1>2, <1>5, <1>6, MemoryKept
<1>9. StreamInv'
  <2>1. \A s \in Supers :
           in'[s] = IF phase' = 0 \/ Gathered(s)' THEN {} ELSE {e \in Sent' : SuperOf(e[2])' = s}
    <3>1. \A s \in Supers : in'[s] = in[s] /\ (Gathered(s)' <=> Gathered(s))
      BY <1>2, <1>6
    <3>2. QED
      BY <1>1, <1>2, <1>8, <3>1, InKept
  <2>2. ASSUME NEW e \in Graph
        PROVE  /\ SuperOf(e[2])' = SuperOf(e[2])
               /\ (Scattered(SuperOf(e[1]))' /\ Fresh(e[1])')
                    <=> ((Scattered(SuperOf(e[1])) \/ SuperOf(e[1]) = superp) /\ Fresh(e[1]))
    <3>1. e[1] \in Vertices /\ e[2] \in Vertices /\ SuperOf(e[1]) \in Supers
      BY <1>1, EdgeEnds
    <3>2. SuperOf(e[1])' = SuperOf(e[1]) /\ SuperOf(e[2])' = SuperOf(e[2])
      BY <1>3, <3>1
    <3>3. Scattered(SuperOf(e[1]))' <=> Scattered(SuperOf(e[1])) \/ SuperOf(e[1]) = superp
      BY <1>7, <3>1, <3>2
    <3>4. Scattered(SuperOf(e[1])) => Inited(e[1])
      BY <1>1, <3>1, GatheredInited
    <3>5. SuperOf(e[1]) = superp => Inited(e[1])
      BY <1>2 DEF Inited
    <3>6. QED
      BY <1>8, <3>1, <3>2, <3>3, <3>4, <3>5
  <2>3. ASSUME NEW s \in Supers
        PROVE  out'[s] = {e \in Graph : SuperOf(e[2])' = s /\ Scattered(SuperOf(e[1]))' /\ Fresh(e[1])'}
    <3>1. out'[s] = out[s] \cup {e \in sent : SuperOf(e[2]) = s}
      BY <1>2 DEF To
    <3>2. out[s] = {e \in Graph : SuperOf(e[2]) = s /\ Scattered(SuperOf(e[1])) /\ Fresh(e[1])}
      BY <1>1 DEF StreamInv
    <3>3. QED
      BY <1>4, <2>2, <3>1, <3>2
  <2>4. QED
    BY <1>3, <2>1, <2>3 DEF StreamInv
<1>10. Types'
  <2>1. \A s \in Supers : out[s] \subseteq Graph /\ To(s, sent) \subseteq Graph
    BY <1>1, <1>4 DEF Types, To
  <2>2. out' \in [Supers -> SUBSET Graph]
    BY <1>2, <2>1
  <2>3. QED
    BY <1>1, <1>2, <1>3, <2>2, SameLayout DEF Types
<1>11. ActiveInv'
  BY <1>2 DEF ActiveInv
<1>12. VoteInv'
  <2>1. \A v \in Vertices : (Gathered(SuperOf(v)))' <=> Gathered(SuperOf(v))
    BY <1>3, <1>6
  <2>2. \A v \in Vertices : Gathered(SuperOf(v)) => Inited(v)
    BY <1>1, GatheredInited
  <2>3. QED
    BY <1>1, <1>2, <1>8, <2>1, <2>2 DEF VoteInv
<1>13. QED
  BY <1>2, <1>8, <1>9, <1>10, <1>11, <1>12 DEF IInv, QueryInv

\* What a step wrote as a whole is read back whole.
LEMMA WholeNext ==
  ASSUME setting' = setting, NEW v \in Vertices, NEW r, \A b \in BlocksOf(v) : disk'[v][b] = r
  PROVE  LoadedRec(v)' = r
<1> DEFINE parts == {disk[v][b] : b \in BlocksOf(v)}
<1>1. BlocksOf(v)' = BlocksOf(v)
  BY SameLayout
<1>2. parts' = {r}
  BY <1>1 DEF BlocksOf
<1>3. Cardinality(parts') = 1
  BY <1>2, FS_Singleton
<1>4. (CHOOSE x \in parts' : TRUE) = r
  BY <1>2
<1>5. QED
  BY <1>3, <1>4 DEF LoadedRec

\* At the end of a superstep the next one sees the same states.
LEMMA EndStates ==
  ASSUME IInv, pc = "end", UNCHANGED <<superp, setting, buf, disk>>, pc' \in {"begin", "final"}
  PROVE  \A v \in Vertices : State(v)' = State(v)
<1> SUFFICES ASSUME NEW v \in Vertices PROVE State(v)' = State(v)
  OBVIOUS
<1>1. SuperPartitions' = SuperPartitions /\ Rec(v)' = Rec(v)
  BY SameLayout DEF Rec
<1>2. InMemory(v) <=> SuperPartitions = 1
  BY DEF InMemory
<1>3. InMemory(v)' <=> SuperPartitions = 1
  BY <1>1 DEF InMemory
<1>4. CASE SuperPartitions = 1
  BY <1>1, <1>2, <1>3, <1>4 DEF State
<1>5. CASE SuperPartitions # 1
  <2>1. SuperPartitions > 1
    BY <1>5, EdgeFiles DEF IInv, Types
  <2>2. \A b, c \in BlocksOf(v) : disk[v][b] = disk[v][c]
    BY <1>2, <1>5, <2>1 DEF IInv, FileInv, Inited
  <2>3. LoadedRec(v) = disk[v][FirstBlock(v)]
    BY <2>2, Whole DEF BlocksOf
  <2>4. LoadedRec(v)' = disk[v][FirstBlock(v)]
    BY <2>2, WholeNext DEF BlocksOf
  <2>5. QED
    BY <1>2, <1>3, <1>5, <2>3, <2>4 DEF State
<1>6. QED
  BY <1>4, <1>5

\* The end of a superstep: what was discovered in it is what was sent, which
\* is the input of the next superstep; nothing is discovered in that yet.
LEMMA EndInv == ASSUME IInv, End PROVE IInv'
<1> USE DEF SuperstepPcs, LoadedPcs
<1>1. Types /\ FileInv /\ SearchInv /\ StreamInv /\ ActiveInv
  BY DEF IInv
<1>2. /\ pc = "end" /\ phase' = phase + 1 /\ in' = out /\ out' = in
      /\ pc' = IF phase + 1 > MinSuperPhases /\ vote THEN "final" ELSE "begin"
      /\ UNCHANGED <<superp, setting, buf, disk, active, asked, bitset, cnt, cached, vote, fatal>>
  BY DEF End
<1>3. /\ file' = file /\ SuperPartitions' = SuperPartitions /\ Supers' = Supers /\ Graph' = Graph
      /\ \A v \in Vertices : SuperOf(v)' = SuperOf(v) /\ SuperOf(v) \in Supers
      /\ superp \in Supers /\ phase \in Nat
  BY <1>1, <1>2, SameLayout, SuperType DEF Types
<1>4. pc' \in {"begin", "final"} /\ (pc' = "final" => phase' > 1)
  BY <1>2, <1>3 DEF MinSuperPhases
<1>5. Types'
  BY <1>1, <1>2, <1>3, <1>4, SameLayout DEF Types
<1>6. \A v \in Vertices : State(v)' = State(v) /\ State(v) \in Records /\ Inited(v)
  BY <1>1, <1>2, <1>4, EndStates, StateType DEF Inited
<1>7. \A v \in Vertices : Rec(v)' = Rec(v) /\ BlocksOf(v)' = BlocksOf(v)
  BY <1>2, SameLayout DEF Rec
<1>8. FileInv'
  <2>1. \A v \in Vertices : InMemory(v)' <=> InMemory(v)
    BY <1>2, <1>3, <1>4 DEF InMemory
  <2>2. QED
    BY <1>1, <1>2, <1>3, <1>6, <1>7, <2>1 DEF FileInv
<1>9. \A v \in Vertices : (Found(v)' <=> Found(v)) /\ ~Fresh(v)' /\ (Found(v) => State(v).level <= phase)
  <2>1. \A v \in Vertices : (Found(v)' <=> Found(v)) /\ (Found(v) => State(v).level <= phase)
    BY <1>1, <1>6 DEF Found, SearchInv
  <2>2. \A v \in Vertices : State(v).level \in Nat
    BY <1>6 DEF Records
  <2>3. QED
    BY <1>2, <1>3, <1>6, <2>1, <2>2 DEF Fresh
<1>10. Sent' = {e \in Graph : Fresh(e[1])}
  <2>1. \A e \in Graph : e[1] \in Vertices
    BY <1>1, EdgeEnds
  <2>2. phase' - 1 = phase
    BY <1>2, <1>3
  <2>3. \A e \in Graph : (Found(e[1]) /\ State(e[1]).level = phase - 1)' <=> Fresh(e[1])
    BY <1>6, <1>9, <2>1, <2>2 DEF Fresh
  <2>4. QED
    BY <1>3, <2>3 DEF Sent
<1>11. \A s \in Supers : Gathered(s) /\ Scattered(s) /\ ~Gathered(s)' /\ ~Scattered(s)'
  BY <1>2, <1>4 DEF Gathered, Scattered
<1>12. SearchInv'
  <2>1. \A v \in Vertices : Found(v)' => State(v)'.level <= phase'
    <3>1. \A v \in Vertices : State(v).level \in Nat
      BY <1>6 DEF Records
    <3>2. QED
      BY <1>2, <1>3, <1>6, <1>9, <3>1
  <2>2. phase' > 0 /\ phase' # 0
    BY <1>2, <1>3
  <2>3. \A v \in Vertices : ~Gathered(SuperOf(v))'
    BY <1>3, <1>11
  <2>4. QED
    BY <1>9, <2>1, <2>2, <2>3 DEF SearchInv
<1>13. StreamInv'
  <2>1. phase' # 0
    BY <1>2, <1>3
  <2>2. \A e \in Graph : /\ SuperOf(e[1])' = SuperOf(e[1]) /\ SuperOf(e[2])' = SuperOf(e[2])
                         /\ SuperOf(e[1]) \in Supers
    BY <1>1, <1>3, EdgeEnds
  <2>3. ASSUME NEW s \in Supers
        PROVE  /\ in'[s] = {e \in Sent' : SuperOf(e[2])' = s}
               /\ out'[s] = {e \in Graph' : SuperOf(e[2])' = s /\ Scattered(SuperOf(e[1]))' /\ Fresh(e[1])'}
    <3>1. out[s] = {e \in Graph : SuperOf(e[2]) = s /\ Scattered(SuperOf(e[1])) /\ Fresh(e[1])}
      BY <1>1 DEF StreamInv
    <3>2. out[s] = {e \in Sent' : SuperOf(e[2])' = s}
      BY <1>10, <1>11, <2>2, <3>1
    <3>3. in[s] = {}
      BY <1>1, <1>11 DEF StreamInv
    <3>4. \A e \in Graph : ~Scattered(SuperOf(e[1]))'
      BY <1>11, <2>2
    <3>5. QED
      BY <1>2, <1>3, <3>2, <3>3, <3>4
  <2>4. QED
    BY <1>3, <1>11, <2>1, <2>3 DEF StreamInv
<1>14. ActiveInv' /\ VoteInv' /\ QueryInv'
  BY <1>1, <1>2, <1>4 DEF ActiveInv, VoteInv, QueryInv
<1>15. QED
  BY <1>5, <1>8, <1>12, <1>13, <1>14 DEF IInv

\* Writing the only super partition at the end changes no state.
LEMMA FinalInv == ASSUME IInv, Final PROVE IInv' /\ Kept
<1> USE DEF SuperstepPcs, LoadedPcs
<1>1. Types /\ FileInv /\ SearchInv /\ StreamInv /\ ActiveInv
  BY DEF IInv
<1>2. /\ pc = "final" /\ pc' = "done"
      /\ UNCHANGED <<phase, superp, setting, buf, in, out, active, asked, bitset, cnt, cached, vote, fatal>>
      /\ disk' = IF SuperPartitions = 1
                 THEN [v \in Vertices |-> [b \in BlocksOf(v) |-> Rec(v)]] ELSE disk
  BY DEF Final
<1>3. /\ file' = file /\ SuperPartitions' = SuperPartitions /\ Supers' = Supers /\ Graph' = Graph
      /\ \A v \in Vertices : SuperOf(v)' = SuperOf(v) /\ SuperOf(v) \in Supers
      /\ superp \in Supers /\ phase \in Nat /\ SuperPartitions \in Nat \ {0}
  BY <1>1, <1>2, SameLayout, SuperType, EdgeFiles DEF Types
<1>4. Types'
  <2>1. \A v \in Vertices : \A b \in BlocksOf(v) : disk'[v][b] \in Records
    BY <1>1, <1>2, RecType DEF Types
  <2>2. QED
    BY <1>1, <1>2, <1>3, <2>1, SameLayout DEF Types
<1>5. \A v \in Vertices : (InMemory(v)' <=> SuperPartitions = 1) /\ (InMemory(v) <=> SuperPartitions = 1)
  BY <1>2, <1>3 DEF InMemory
<1>6. \A v \in Vertices : Rec(v)' = Rec(v) /\ BlocksOf(v)' = BlocksOf(v)
  BY <1>2, SameLayout DEF Rec
<1>7. \A v \in Vertices : State(v)' = State(v)
  <2>1. CASE SuperPartitions = 1
    BY <2>1, <1>5, <1>6 DEF State
  <2>2. CASE SuperPartitions # 1
    BY <2>2, <1>2, <1>5, RecKept DEF State
  <2>3. QED
    BY <2>1, <2>2
<1>8. \A v \in Vertices : Inited(v)' <=> Inited(v)
  BY <1>2, <1>3 DEF Inited
<1>9. \A s \in Supers : ~Gathered(s) /\ ~Scattered(s) /\ ~Gathered(s)' /\ ~Scattered(s)'
  BY <1>2 DEF Gathered, Scattered
<1>10. FileInv'
  BY <1>1, <1>2, <1>3, <1>5, <1>6, <1>8 DEF FileInv
<1>11. SearchInv'
  BY <1>1, <1>2, <1>7, <1>8, <1>9, SearchKept
<1>12. /\ \A v \in Vertices : Inited(v) => (Fresh(v)' <=> Fresh(v))
       /\ phase > 0 => Sent' = Sent
  BY <1>1, <1>2, <1>7, <1>8, SearchFrame
<1>13. StreamInv'
  BY <1>1, <1>2, <1>9, <1>12, StreamKept
<1>14. ActiveInv' /\ VoteInv' /\ QueryInv'
  BY <1>2 DEF ActiveInv, VoteInv, QueryInv
<1>15. Kept
  BY <1>1, <1>2, <1>7, StatesKept
<1>16. QED
  BY <1>15, <1>4, <1>10, <1>11, <1>13, <1>14 DEF IInv

\* state_load: a record comes back as it was stored, or is initialised.
LEMMA LoadInv == ASSUME IInv, Load PROVE IInv' /\ Kept
<1> USE DEF SuperstepPcs, LoadedPcs
<1>1. Types /\ FileInv /\ SearchInv /\ StreamInv /\ VoteInv /\ ActiveInv
  BY DEF IInv
<1>2. /\ pc = "load" /\ pc' = "gather"
      /\ UNCHANGED <<phase, superp, setting, disk, in, out, asked, bitset, cnt, cached, vote, fatal>>
  BY DEF Load
<1>3. /\ file' = file /\ SuperPartitions' = SuperPartitions /\ Supers' = Supers /\ Graph' = Graph
      /\ \A v \in Vertices : SuperOf(v)' = SuperOf(v) /\ SuperOf(v) \in Supers
      /\ superp \in Supers /\ Supers = 0..SuperPartitions - 1 /\ phase \in Nat
      /\ SuperPartitions \in Nat \ {0}
  BY <1>1, <1>2, SameLayout, SuperType, EdgeFiles DEF Types, Supers
<1>4. \A v \in VerticesOf(superp) : /\ v \in Vertices /\ SuperOf(v) = superp
                                    /\ InitRec(v) \in Records /\ LoadedRec(v) \in Records
  <2>1. \A v \in VerticesOf(superp) : v \in Vertices /\ SuperOf(v) = superp
    BY DEF VerticesOf
  <2>2. \A v \in VerticesOf(superp) : Rec(v) \in Records /\ LoadedRec(v) \in Records
    BY <1>1, <2>1, RecType, LoadedType
  <2>3. \A v \in VerticesOf(superp) : InitRec(v) \in Records
    BY <2>2, Basics DEF InitRec, Records
  <2>4. QED
    BY <2>1, <2>2, <2>3
<1> DEFINE Loaded(v) == IF phase = 0 THEN InitRec(v)
                        ELSE IF SuperPartitions > 1 THEN LoadedRec(v) ELSE Rec(v)
<1>5. /\ buf' \in [Positions -> Records]
      /\ \A v \in VerticesOf(superp) : Rec(v)' = Loaded(v)
  <2>1. \A v \in VerticesOf(superp) : Rec(v)' = buf'[Position(v)]
    BY <1>2, <1>4, SameLayout DEF Rec
  <2>2. CASE phase = 0
    <3> DEFINE new == [v \in VerticesOf(superp) |-> InitRec(v)]
    <3>1. buf' = With(new)
      BY <2>2 DEF Load
    <3>2. DOMAIN new \subseteq VerticesOf(superp) /\ \A v \in DOMAIN new : new[v] \in Records
      BY <1>4
    <3> HIDE DEF new
    <3>3. /\ With(new) \in [Positions -> Records]
          /\ \A v \in VerticesOf(superp) :
               With(new)[Position(v)] = IF v \in DOMAIN new THEN new[v] ELSE Rec(v)
      BY <1>1, <1>3, <3>2, WithRec
    <3>4. QED
      BY <2>1, <2>2, <3>1, <3>3 DEF new
  <2>3. CASE phase # 0 /\ SuperPartitions > 1
    <3> DEFINE new == [v \in VerticesOf(superp) |-> LoadedRec(v)]
    <3>1. buf' = With(new)
      BY <2>3 DEF Load
    <3>2. DOMAIN new \subseteq VerticesOf(superp) /\ \A v \in DOMAIN new : new[v] \in Records
      BY <1>4
    <3> HIDE DEF new
    <3>3. /\ With(new) \in [Positions -> Records]
          /\ \A v \in VerticesOf(superp) :
               With(new)[Position(v)] = IF v \in DOMAIN new THEN new[v] ELSE Rec(v)
      BY <1>1, <1>3, <3>2, WithRec
    <3>4. QED
      BY <2>1, <2>3, <3>1, <3>3 DEF new
  <2>4. CASE phase # 0 /\ ~(SuperPartitions > 1)
    <3>1. buf' = buf
      BY <2>4 DEF Load
    <3>2. QED
      BY <1>1, <2>1, <2>4, <3>1 DEF Types, Rec
  <2>5. QED
    BY <2>2, <2>3, <2>4
<1> HIDE DEF Loaded
<1>6. \A v \in Vertices : /\ InMemory(v) <=> SuperPartitions = 1
                          /\ InMemory(v)' <=> SuperPartitions = 1 \/ SuperOf(v) = superp
                          /\ v \in VerticesOf(superp) <=> SuperOf(v) = superp
                          /\ SuperPartitions = 1 => SuperOf(v) = superp
                          /\ BlocksOf(v)' = BlocksOf(v)
  BY <1>2, <1>3, SameLayout DEF InMemory, VerticesOf
<1>7. \A v \in Vertices : LoadedRec(v)' = LoadedRec(v)
  BY <1>2, LoadedKept
<1>8. \A v \in Vertices : SuperOf(v) # superp => State(v)' = State(v)
  BY <1>6, <1>7 DEF State
<1>9. \A v \in Vertices : SuperOf(v) = superp =>
         State(v)' = IF phase = 0 THEN InitRec(v) ELSE State(v)
  BY <1>3, <1>5, <1>6 DEF State, Loaded
<1>10. \A v \in Vertices : /\ Inited(v)' <=> Inited(v) \/ SuperOf(v) = superp
                           /\ SuperOf(v) = superp /\ phase = 0 => ~Inited(v)
  BY <1>2, <1>3 DEF Inited
<1>11. \A s \in Supers : (Gathered(s)' <=> Gathered(s)) /\ (Scattered(s)' <=> Scattered(s))
  BY <1>2, <1>3 DEF Gathered, Scattered
<1>12. \A s \in Supers : Gathered(s)' <=> Gathered(s)
  BY <1>11
<1>13. \A v \in Vertices : Inited(v) =>
          State(v)'.parent = State(v).parent /\ State(v)'.level = State(v).level
  BY <1>8, <1>9, <1>10
<1>14. /\ \A v \in Vertices : Inited(v) => (Found(v)' <=> Found(v)) /\ (Fresh(v)' <=> Fresh(v))
       /\ phase > 0 => Sent' = Sent
  BY <1>1, <1>2, <1>13, SearchFrame
<1>15. Types'
  BY <1>1, <1>2, <1>3, <1>5, <1>6 DEF Types
<1>16. FileInv'
  <2>1. SUFFICES ASSUME SuperPartitions > 1, NEW v \in Vertices
                 PROVE  IF InMemory(v)' THEN Rec(v)'.changed \/ \A b \in BlocksOf(v) : disk[v][b] = Rec(v)'
                        ELSE Inited(v)' => \A b, c \in BlocksOf(v) : disk[v][b] = disk[v][c]
    BY <1>2, <1>3, <1>6 DEF FileInv
  <2>2. ~InMemory(v)
    BY <1>6, <2>1
  <2>3. Inited(v) => \A b, c \in BlocksOf(v) : disk[v][b] = disk[v][c]
    BY <1>1, <2>1, <2>2 DEF FileInv
  <2>4. CASE SuperOf(v) # superp
    BY <1>6, <1>10, <2>1, <2>3, <2>4
  <2>5. CASE SuperOf(v) = superp /\ phase = 0
    BY <1>5, <1>6, <2>5 DEF Loaded, InitRec
  <2>6. CASE SuperOf(v) = superp /\ phase # 0
    <3>1. Inited(v)
      BY <1>3, <2>6 DEF Inited
    <3>2. \A b \in BlocksOf(v) : \A c \in BlocksOf(v) : disk[v][c] = disk[v][b]
      BY <2>3, <3>1
    <3>3. \A b \in BlocksOf(v) : LoadedRec(v) = disk[v][b]
      BY <3>2, Whole
    <3>4. QED
      BY <1>5, <1>6, <2>1, <2>6, <3>3 DEF Loaded
  <2>7. QED
    BY <2>4, <2>5, <2>6
<1>17. SearchInv'
  <2>1. CASE phase = 0
    <3>1. ASSUME NEW v \in Vertices, Inited(v)'
          PROVE  /\ Found(v)' <=> v = Root
                 /\ v = Root => State(v)'.level = 0 /\ State(v)'.parent = Root
      <4>1. CASE SuperOf(v) = superp
        BY <1>9, <2>1, <4>1, Basics DEF Found, InitRec
      <4>2. CASE SuperOf(v) # superp
        <5>1. Inited(v) /\ State(v)' = State(v)
          BY <1>8, <1>10, <3>1, <4>2
        <5>2. QED
          BY <1>1, <1>14, <2>1, <5>1 DEF SearchInv
      <4>3. QED
        BY <4>1, <4>2
    <3>2. \A v \in Vertices : Inited(v)' => (Found(v)' => State(v)'.level <= phase)
      BY <2>1, <3>1
    <3>3. QED
      BY <1>2, <2>1, <3>1, <3>2 DEF SearchInv
  <2>2. CASE phase # 0
    <3>1. \A v \in Vertices : Inited(v)' => Inited(v)
      BY <1>3, <2>2 DEF Inited
    <3>2. QED
      BY <1>1, <1>2, <1>12, <1>13, <3>1, SearchKept
  <2>3. QED
    BY <2>1, <2>2
<1>18. StreamInv'
  <2>1. \A v \in Vertices : Inited(v) => (Fresh(v)' <=> Fresh(v))
    BY <1>14
  <2>2. QED
    BY <1>1, <1>2, <1>11, <1>14, <2>1, StreamKept
<1>19. ActiveInv'
  <2>1. Frontier' = {v \in VerticesOf(superp) : Fresh(v)'}
    <3>1. VerticesOf(superp)' = VerticesOf(superp)
      BY <1>2, <1>3, SameLayout
    <3>2. QED
      BY <1>2, <1>3, <1>4, <1>6, <3>1 DEF Frontier, Fresh, Found, State
  <2>2. \A v \in Frontier' : PartitionOf(v)' = PartitionOf(v)
    BY <1>2, <1>4, <2>1, SameLayout
  <2>3. active = {}
    BY <1>1, <1>2 DEF ActiveInv
  <2>4. CASE phase = 0
    <3>1. \A v \in VerticesOf(superp) : Fresh(v)' <=> v = Root
      <4>1. Root # NONE /\ phase' = 0
        BY <1>2, <2>4, Basics
      <4>2. ASSUME NEW v \in VerticesOf(superp) PROVE Fresh(v)' <=> v = Root
        <5>1. State(v)' = InitRec(v)
          BY <1>4, <1>9, <2>4
        <5>2. QED
          BY <4>1, <5>1 DEF Fresh, Found, InitRec
      <4>3. QED
        BY <4>2
    <3>2. Frontier' = VerticesOf(superp) \cap {Root}
      BY <2>1, <3>1
    <3>3. active' = {PartitionOf(v) : v \in VerticesOf(superp) \cap {Root}}
      BY <2>3, <2>4 DEF Load
    <3>4. QED
      BY <1>2, <2>2, <3>2, <3>3 DEF ActiveInv
  <2>5. CASE phase # 0
    <3>1. \A v \in VerticesOf(superp) : ~Fresh(v)'
      <4>1. ~Gathered(superp)
        BY <1>2, <1>3 DEF Gathered
      <4>2. \A v \in VerticesOf(superp) : Inited(v)
        BY <1>3, <2>5 DEF Inited
      <4>3. phase > 0
        BY <1>3, <2>5
      <4>4. QED
        BY <1>1, <1>4, <1>14, <4>1, <4>2, <4>3 DEF SearchInv
    <3>2. Frontier' = {}
      BY <2>1, <3>1
    <3>3. active' = {}
      BY <2>3, <2>5 DEF Load
    <3>4. QED
      BY <1>2, <3>2, <3>3 DEF ActiveInv
  <2>6. QED
    BY <2>4, <2>5
<1>20. VoteInv'
  <2>1. \A v \in Vertices : (Gathered(SuperOf(v)))' <=> Gathered(SuperOf(v))
    BY <1>3, <1>12
  <2>2. \A v \in Vertices : Gathered(SuperOf(v)) => Inited(v)
    BY <1>1, GatheredInited
  <2>3. QED
    BY <1>1, <1>2, <1>14, <2>1, <2>2 DEF VoteInv
<1>21. Kept
  BY <1>1, <1>2, <1>13, StatesKept
<1>22. QED
  BY <1>21, <1>2, <1>15, <1>16, <1>17, <1>18, <1>19, <1>20 DEF IInv, QueryInv

\* The gather phase discovers the vertices of the super partition that an
\* update reaches for the first time, and empties the input of that partition.
LEMMA GatherInv == ASSUME IInv, Gather PROVE IInv' /\ Kept
<1> USE DEF SuperstepPcs, LoadedPcs
<1>1. Types /\ FileInv /\ SearchInv /\ StreamInv /\ VoteInv /\ ActiveInv
  BY DEF IInv
<1>2. /\ pc = "gather" /\ pc' = "check"
      /\ active' = active \cup {PartitionOf(v) : v \in Reached}
      /\ vote' = (vote /\ Reached = {})
      /\ in' = [in EXCEPT ![superp] = {}]
      /\ UNCHANGED <<phase, superp, setting, disk, out, asked, bitset, cnt, cached, fatal>>
  BY DEF Gather
<1>3. PICK p \in [Reached -> Vertices] :
         /\ \A v \in Reached : <<p[v], v>> \in in[superp]
         /\ buf' = With([v \in Reached |-> [parent |-> p[v], level |-> phase, changed |-> TRUE]])
  BY DEF Gather
<1>4. /\ file' = file /\ SuperPartitions' = SuperPartitions /\ Supers' = Supers /\ Graph' = Graph
      /\ \A v \in Vertices : SuperOf(v)' = SuperOf(v) /\ SuperOf(v) \in Supers
      /\ superp \in Supers /\ Supers = 0..SuperPartitions - 1 /\ phase \in Nat
      /\ SuperPartitions \in Nat \ {0}
  BY <1>1, <1>2, SameLayout, SuperType, EdgeFiles DEF Types, Supers
<1>5. \A v \in VerticesOf(superp) : v \in Vertices /\ SuperOf(v) = superp
  BY DEF VerticesOf
<1>6. Reached \subseteq VerticesOf(superp)
  BY DEF Reached
<1> DEFINE New(v) == IF v \in Reached THEN [parent |-> p[v], level |-> phase, changed |-> TRUE]
                     ELSE Rec(v)
<1>7. /\ buf' \in [Positions -> Records]
      /\ \A v \in VerticesOf(superp) : Rec(v)' = New(v)
  <2> DEFINE new == [v \in Reached |-> [parent |-> p[v], level |-> phase, changed |-> TRUE]]
  <2>1. \A v \in VerticesOf(superp) : Rec(v)' = buf'[Position(v)]
    BY <1>2, <1>5, SameLayout DEF Rec
  <2>2. \A v \in DOMAIN new : new[v] \in Records
    BY <1>4 DEF Records
  <2>3. DOMAIN new \subseteq VerticesOf(superp)
    BY <1>6
  <2>4. DOMAIN new = Reached
    OBVIOUS
  <2>5. \A v \in Reached : new[v] = [parent |-> p[v], level |-> phase, changed |-> TRUE]
    OBVIOUS
  <2>6. buf' = With(new)
    BY <1>3
  <2> HIDE DEF new
  <2>7. /\ With(new) \in [Positions -> Records]
        /\ \A v \in VerticesOf(superp) :
             With(new)[Position(v)] = IF v \in DOMAIN new THEN new[v] ELSE Rec(v)
    BY <1>1, <1>4, <2>2, <2>3, WithRec
  <2>8. QED
    BY <2>1, <2>4, <2>5, <2>6, <2>7
<1> HIDE DEF New
<1>8. \A v \in Vertices : /\ InMemory(v) <=> SuperPartitions = 1 \/ SuperOf(v) = superp
                          /\ InMemory(v)' <=> InMemory(v)
                          /\ v \in VerticesOf(superp) <=> SuperOf(v) = superp
                          /\ SuperPartitions = 1 => SuperOf(v) = superp
                          /\ BlocksOf(v)' = BlocksOf(v)
  BY <1>2, <1>4, SameLayout DEF InMemory, VerticesOf
<1>9. \A v \in Vertices : LoadedRec(v)' = LoadedRec(v)
  BY <1>2, LoadedKept
<1>10. \A v \in Vertices : SuperOf(v) # superp => State(v)' = State(v)
  BY <1>8, <1>9 DEF State
<1>11. \A v \in Vertices : SuperOf(v) = superp => State(v) = Rec(v) /\ State(v)' = New(v)
  BY <1>7, <1>8 DEF State
<1>12. \A v \in Vertices : v \notin Reached => State(v)' = State(v)
  BY <1>10, <1>11 DEF New
<1>13. \A v \in Reached : /\ v \in Vertices /\ SuperOf(v) = superp /\ ~Found(v)
                          /\ State(v)'.parent = p[v] /\ State(v)'.level = phase
                          /\ Found(v)' /\ Fresh(v)'
  <2>1. \A v \in Reached : v \in Vertices /\ SuperOf(v) = superp /\ Rec(v).parent = NONE
    BY <1>5 DEF Reached
  <2>2. \A v \in Reached : State(v)' = [parent |-> p[v], level |-> phase, changed |-> TRUE]
    BY <1>11, <2>1 DEF New
  <2>3. \A v \in Reached : p[v] # NONE
    BY <1>3, Basics
  <2>4. QED
    BY <1>2, <1>11, <2>1, <2>2, <2>3 DEF Found, Fresh
<1>14. \A v \in Vertices : v \notin Reached => (Found(v)' <=> Found(v)) /\ (Fresh(v)' <=> Fresh(v))
  BY <1>2, <1>12 DEF Found, Fresh
<1>15. \A v \in Vertices : Inited(v)' <=> Inited(v)
  BY <1>2, <1>4 DEF Inited
<1>16. \A s \in Supers : /\ Gathered(s)' <=> Gathered(s) \/ s = superp
                         /\ Scattered(s)' <=> Scattered(s)
                         /\ Gathered(s) \/ Scattered(s) => s # superp
  BY <1>2, <1>4 DEF Gathered, Scattered
<1>17. in[superp] = IF phase = 0 THEN {} ELSE {e \in Sent : SuperOf(e[2]) = superp}
  <2>1. ~Gathered(superp)
    BY <1>4, <1>16
  <2>2. QED
    BY <1>1, <1>4, <2>1 DEF StreamInv
<1>18. \A v \in Reached : phase > 0 /\ <<p[v], v>> \in Sent
  <2>1. ASSUME NEW v \in Reached PROVE phase > 0 /\ <<p[v], v>> \in Sent
    <3>1. <<p[v], v>> \in in[superp]
      BY <1>3
    <3>2. phase # 0
      BY <1>17, <3>1
    <3>3. in[superp] = {e \in Sent : SuperOf(e[2]) = superp}
      BY <1>17, <3>2
    <3>4. QED
      BY <1>4, <3>1, <3>2, <3>3
  <2>2. QED
    BY <2>1
<1>19. phase > 0 => Sent' = Sent
  <2>1. \A e \in Graph : e[1] \in Vertices
    BY <1>1, EdgeEnds
  <2>2. \A v \in Reached : ~(Found(v)' /\ State(v)'.level = phase - 1) /\ ~Found(v)
    BY <1>4, <1>13
  <2>3. \A v \in Vertices : (Found(v)' /\ State(v)'.level = phase - 1)
                               <=> Found(v) /\ State(v).level = phase - 1
    BY <1>12, <1>14, <2>2
  <2>4. QED
    BY <1>2, <1>4, <2>1, <2>3 DEF Sent
<1>20. phase > 0 => \A v \in Vertices : SuperOf(v) = superp => ~Fresh(v) /\ (Fresh(v)' <=> v \in Reached)
  <2>1. ASSUME phase > 0, NEW v \in Vertices, SuperOf(v) = superp PROVE ~Fresh(v)
    <3>1. ~Gathered(SuperOf(v)) /\ Inited(v)
      BY <1>4, <1>16, <2>1 DEF Inited
    <3>2. QED
      BY <1>1, <2>1, <3>1 DEF SearchInv
  <2>2. QED
    BY <1>13, <1>14, <2>1
<1>21. Types'
  <2>1. in' \in [Supers -> SUBSET Graph]
    BY <1>1, <1>2 DEF Types
  <2>2. vote' \in BOOLEAN
    BY <1>2
  <2>3. \A v \in Vertices : \A b \in BlocksOf(v)' : disk'[v][b] \in Records
    BY <1>1, <1>2, <1>8 DEF Types
  <2>4. QED
    BY <1>1, <1>2, <1>4, <1>7, <2>1, <2>2, <2>3 DEF Types
<1>22. FileInv'
  <2>1. SUFFICES ASSUME SuperPartitions > 1, NEW v \in Vertices
                 PROVE  IF InMemory(v) THEN Rec(v)'.changed \/ \A b \in BlocksOf(v) : disk[v][b] = Rec(v)'
                        ELSE Inited(v) => \A b, c \in BlocksOf(v) : disk[v][b] = disk[v][c]
    BY <1>2, <1>4, <1>8, <1>15 DEF FileInv
  <2>2. IF InMemory(v) THEN Rec(v).changed \/ \A b \in BlocksOf(v) : disk[v][b] = Rec(v)
        ELSE Inited(v) => \A b, c \in BlocksOf(v) : disk[v][b] = disk[v][c]
    BY <1>1, <2>1 DEF FileInv
  <2>3. CASE SuperOf(v) # superp
    BY <1>8, <2>1, <2>2, <2>3
  <2>4. CASE SuperOf(v) = superp
    BY <1>7, <1>8, <2>2, <2>4 DEF New
  <2>5. QED
    BY <2>3, <2>4
<1>23. SearchInv'
  <2>1. CASE phase = 0
    <3>1. Reached = {}
      BY <1>18, <2>1
    <3>2. \A v \in Vertices : State(v)' = State(v)
      BY <1>12, <3>1
    <3>3. \A v \in Vertices : Found(v)' <=> Found(v)
      BY <3>2 DEF Found
    <3>4. QED
      BY <1>1, <1>2, <1>15, <2>1, <3>2, <3>3 DEF SearchInv
  <2>2. CASE phase > 0
    <3>1. \A v \in Vertices : Inited(v)
      BY <2>2 DEF Inited
    <3>2. \A v \in Vertices : (Gathered(SuperOf(v)))' <=> Gathered(SuperOf(v)) \/ SuperOf(v) = superp
      BY <1>4, <1>16
    <3>3. ASSUME NEW v \in Vertices PROVE Found(v)' => State(v)'.level <= phase
      <4>1. CASE v \in Reached
        BY <1>4, <1>13, <4>1
      <4>2. CASE v \notin Reached
        BY <1>1, <1>12, <1>14, <3>1, <4>2 DEF SearchInv
      <4>3. QED
        BY <4>1, <4>2
    <3>4. ASSUME NEW v \in Vertices, Fresh(v)'
          PROVE  (Gathered(SuperOf(v)))' /\ <<State(v)'.parent, v>> \in Sent
      <4>1. CASE v \in Reached
        BY <1>13, <1>18, <3>2, <4>1
      <4>2. CASE v \notin Reached
        <5>1. Fresh(v) /\ State(v)' = State(v)
          BY <1>12, <1>14, <3>4, <4>2
        <5>2. Gathered(SuperOf(v)) /\ <<State(v).parent, v>> \in Sent
          BY <1>1, <2>2, <3>1, <5>1 DEF SearchInv
        <5>3. QED
          BY <3>2, <5>1, <5>2
      <4>3. QED
        BY <4>1, <4>2
    <3>5. ASSUME NEW v \in Vertices, (Gathered(SuperOf(v)))', ~Found(v)', NEW e \in Sent
          PROVE  e[2] # v
      <4>1. v \notin Reached /\ ~Found(v)
        BY <1>13, <1>14, <3>5
      <4>2. CASE SuperOf(v) = superp
        <5>1. Rec(v).parent = NONE
          BY <1>11, <4>1, <4>2 DEF Found
        <5>2. \A d \in in[superp] : d[2] # v
          BY <1>8, <4>1, <4>2, <5>1 DEF Reached
        <5>3. in[superp] = {d \in Sent : SuperOf(d[2]) = superp}
          BY <1>17, <2>2
        <5>4. QED
          BY <4>2, <5>2, <5>3
      <4>3. CASE SuperOf(v) # superp
        <5>1. Gathered(SuperOf(v))
          BY <3>2, <3>5, <4>3
        <5>2. QED
          BY <1>1, <2>2, <3>1, <4>1, <5>1 DEF SearchInv
      <4>4. QED
        BY <4>2, <4>3
    <3>6. phase' > 0 /\ phase' # 0 /\ Sent' = Sent
      BY <1>2, <1>19, <2>2
    <3>7. QED
      BY <1>2, <3>3, <3>4, <3>5, <3>6 DEF SearchInv
  <2>3. QED
    BY <1>4, <2>1, <2>2
<1>24. StreamInv'
  <2>1. ASSUME NEW s \in Supers
        PROVE  in'[s] = IF phase' = 0 \/ Gathered(s)' THEN {} ELSE {e \in Sent' : SuperOf(e[2])' = s}
    <3>1. CASE s = superp
      <4>1. in'[s] = {} /\ Gathered(s)'
        BY <1>1, <1>2, <1>16, <3>1 DEF Types
      <4>2. QED
        BY <4>1
    <3>2. CASE s # superp
      <4>1. in'[s] = in[s] /\ (Gathered(s)' <=> Gathered(s))
        BY <1>1, <1>2, <1>16, <3>2 DEF Types
      <4>2. QED
        BY <1>1, <1>2, <1>19, <4>1, InKept
    <3>3. QED
      BY <3>1, <3>2
  <2>2. \A v \in Vertices : Scattered(SuperOf(v)) => (Fresh(v)' <=> Fresh(v))
    BY <1>4, <1>13, <1>14, <1>16
  <2>3. \A s \in Supers : Scattered(s)' <=> Scattered(s)
    BY <1>16
  <2>4. \A s \in Supers :
           out'[s] = {e \in Graph : SuperOf(e[2])' = s /\ Scattered(SuperOf(e[1]))' /\ Fresh(e[1])'}
    BY <1>1, <1>2, <2>2, <2>3, OutKept
  <2>5. QED
    BY <1>4, <2>1, <2>4 DEF StreamInv
<1>25. ActiveInv'
  <2>1. Frontier' = Frontier \cup Reached
    <3>1. VerticesOf(superp)' = VerticesOf(superp)
      BY <1>2, <1>4, SameLayout
    <3>2. \A v \in VerticesOf(superp) :
             (Rec(v)'.parent # NONE /\ Rec(v)'.level = phase)
               <=> (Rec(v).parent # NONE /\ Rec(v).level = phase) \/ v \in Reached
      <4>1. \A v \in Reached : p[v] # NONE
        BY <1>3, Basics
      <4>2. ASSUME NEW v \in VerticesOf(superp)
            PROVE  (Rec(v)'.parent # NONE /\ Rec(v)'.level = phase)
                     <=> (Rec(v).parent # NONE /\ Rec(v).level = phase) \/ v \in Reached
        BY <1>7, <4>1 DEF New
      <4>3. QED
        BY <4>2
    <3>3. QED
      BY <1>2, <1>6, <3>1, <3>2 DEF Frontier
  <2>2. \A v \in Frontier' : PartitionOf(v)' = PartitionOf(v)
    BY <1>2, <1>5, <1>6, <2>1, SameLayout DEF Frontier
  <2>3. active = {PartitionOf(v) : v \in Frontier}
    BY <1>1, <1>2 DEF ActiveInv
  <2>4. QED
    BY <1>2, <2>1, <2>2, <2>3 DEF ActiveInv
<1>26. VoteInv'
  <2>1. \A v \in Vertices : (Gathered(SuperOf(v)))' <=> Gathered(SuperOf(v)) \/ SuperOf(v) = superp
    BY <1>4, <1>16
  <2>2. CASE phase = 0
    <3>1. Reached = {}
      BY <1>18, <2>2
    <3>2. QED
      BY <1>1, <1>2, <2>2, <3>1 DEF VoteInv
  <2>3. CASE phase > 0
    <3>1. vote <=> \A v \in Vertices : Gathered(SuperOf(v)) => ~Fresh(v)
      BY <1>1, <1>2, <2>3 DEF VoteInv
    <3>2. \A v \in Vertices : Gathered(SuperOf(v)) => (Fresh(v)' <=> Fresh(v))
      BY <1>4, <1>13, <1>14, <1>16
    <3>3. \A v \in Vertices : SuperOf(v) = superp => (Fresh(v)' <=> v \in Reached)
      BY <1>20, <2>3
    <3>4. (\A v \in Vertices : Gathered(SuperOf(v)) \/ SuperOf(v) = superp => ~Fresh(v)')
             <=> (\A v \in Vertices : Gathered(SuperOf(v)) => ~Fresh(v)) /\ Reached = {}
      BY <1>13, <3>2, <3>3
    <3>5. phase' # 0
      BY <1>2, <2>3
    <3>6. QED
      BY <1>2, <2>1, <3>1, <3>4, <3>5 DEF VoteInv
  <2>4. QED
    BY <1>4, <2>2, <2>3
<1>27. Kept
  <2>1. \A v \in Reached : ~Shown(v) /\ ~Shown(v)'
    BY <1>2, <1>4, <1>13 DEF Shown, Found
  <2>2. \A v \in Vertices : v \notin Reached => (Shown(v)' <=> Shown(v))
    BY <1>2, <1>12 DEF Shown
  <2>3. QED
    BY <1>12, <2>1, <2>2 DEF Kept
<1>28. QED
  BY <1>27, <1>2, <1>21, <1>22, <1>23, <1>24, <1>25, <1>26 DEF IInv, QueryInv

\* phase_post_scatter leaves each record of the super partition in the file as
\* it is in memory: it was marked, or it is there since it was read.
LEMMA StoredBlocks ==
  ASSUME IInv, Store, SuperPartitions > 1, NEW v \in VerticesOf(superp)
  PROVE  \A b \in BlocksOf(v) : disk'[v][b] = [Rec(v) EXCEPT !.changed = FALSE]
<1>1. Types /\ FileInv /\ pc = "store" /\ v \in Vertices /\ SuperOf(v) = superp
  BY DEF IInv, Store, VerticesOf
<1>2. Rec(v) \in Records
  BY <1>1, RecType
<1> SUFFICES ASSUME NEW b \in BlocksOf(v)
             PROVE  disk'[v][b] = [Rec(v) EXCEPT !.changed = FALSE]
  OBVIOUS
<1>3. disk'[v][b] = IF b \in ChangedBlocks THEN [Rec(v) EXCEPT !.changed = FALSE] ELSE disk[v][b]
  <2> DEFINE new == [u \in VerticesOf(superp) |-> [Rec(u) EXCEPT !.changed = FALSE]]
  <2>1. disk' = [u \in Vertices |-> [c \in BlocksOf(u) |->
                   IF SuperOf(u) = superp /\ c \in ChangedBlocks THEN new[u] ELSE disk[u][c]]]
    BY DEF Store
  <2>2. new[v] = [Rec(v) EXCEPT !.changed = FALSE]
    OBVIOUS
  <2> HIDE DEF new
  <2>3. QED
    BY <1>1, <2>1, <2>2
<1>4. CASE b \in ChangedBlocks
  BY <1>3, <1>4
<1>5. CASE b \notin ChangedBlocks
  <2>1. v \notin ChangedVertices
    BY <1>1, <1>5, MarkedBlocks DEF Types
  <2>2. ~Rec(v).changed
    BY <2>1 DEF ChangedVertices
  <2>3. disk[v][b] = Rec(v)
    BY <1>1, <2>2 DEF FileInv, InMemory
  <2>4. Rec(v) = [Rec(v) EXCEPT !.changed = FALSE]
    BY <1>2, <2>2 DEF Records
  <2>5. QED
    BY <1>3, <1>5, <2>3, <2>4
<1>6. QED
  BY <1>4, <1>5

\* phase_post_scatter: what was in memory is read back from the file later.
LEMMA StoreInv == ASSUME IInv, Store PROVE IInv' /\ Kept
<1> USE DEF SuperstepPcs, LoadedPcs
<1>1. Types /\ FileInv /\ SearchInv /\ StreamInv /\ VoteInv /\ ActiveInv
  BY DEF IInv
<1>2. /\ pc = "store" /\ active' = {}
      /\ IF superp = SuperPartitions - 1
         THEN pc' = "end" /\ UNCHANGED superp
         ELSE pc' = "load" /\ superp' = superp + 1
      /\ UNCHANGED <<phase, setting, in, out, asked, bitset, cnt, cached, vote, fatal>>
  BY DEF Store
<1>3. /\ file' = file /\ SuperPartitions' = SuperPartitions /\ Supers' = Supers /\ Graph' = Graph
      /\ \A v \in Vertices : SuperOf(v)' = SuperOf(v) /\ SuperOf(v) \in Supers
      /\ superp \in Supers /\ Supers = 0..SuperPartitions - 1 /\ phase \in Nat
      /\ SuperPartitions \in Nat \ {0}
  BY <1>1, <1>2, SameLayout, SuperType, EdgeFiles DEF Types, Supers
<1>4. pc' \in {"load", "end"} /\ superp' \in Supers /\ (pc' = "end" => superp' = SuperPartitions - 1)
  BY <1>2, <1>3
<1>5. \A v \in VerticesOf(superp) : v \in Vertices /\ SuperOf(v) = superp
  BY DEF VerticesOf
<1>6. \A v \in Vertices : /\ InMemory(v) <=> SuperPartitions = 1 \/ SuperOf(v) = superp
                          /\ InMemory(v)' <=> SuperPartitions = 1
                          /\ v \in VerticesOf(superp) <=> SuperOf(v) = superp
                          /\ BlocksOf(v)' = BlocksOf(v)
  BY <1>2, <1>3, <1>4, SameLayout DEF InMemory, VerticesOf
<1>7. \A v \in Vertices : Inited(v)' <=> Inited(v)
  BY <1>2, <1>3 DEF Inited
<1>8. \A s \in Supers : (Gathered(s)' <=> Gathered(s)) /\ (Scattered(s)' <=> Scattered(s))
  BY <1>2, <1>3 DEF Gathered, Scattered
<1>9. ASSUME SuperPartitions > 1, NEW v \in Vertices, SuperOf(v) # superp
      PROVE  \A b \in BlocksOf(v) : disk'[v][b] = disk[v][b]
  BY <1>9 DEF Store
<1>10. ASSUME SuperPartitions > 1, NEW v \in Vertices, Inited(v)
       PROVE  \E r \in Records : /\ \A b \in BlocksOf(v) : disk'[v][b] = r
                                 /\ State(v).parent = r.parent /\ State(v).level = r.level
  <2>1. CASE SuperOf(v) = superp
    <3> DEFINE r == [Rec(v) EXCEPT !.changed = FALSE]
    <3>1. Rec(v) \in Records
      BY <1>1, RecType
    <3>2. r \in Records /\ r.parent = Rec(v).parent /\ r.level = Rec(v).level
      BY <3>1 DEF Records
    <3>3. \A b \in BlocksOf(v) : disk'[v][b] = r
      BY <1>6, <1>10, <2>1, StoredBlocks
    <3>4. State(v) = Rec(v)
      BY <1>6, <2>1 DEF State
    <3> HIDE DEF r
    <3>5. QED
      BY <3>2, <3>3, <3>4
  <2>2. CASE SuperOf(v) # superp
    <3> DEFINE r == disk[v][FirstBlock(v)]
    <3>1. ~InMemory(v)
      BY <1>6, <1>10, <2>2
    <3>2. \A b, c \in BlocksOf(v) : disk[v][b] = disk[v][c]
      BY <1>1, <1>10, <3>1 DEF FileInv
    <3>3. FirstBlock(v) \in BlocksOf(v)
      BY DEF BlocksOf
    <3>4. \A b \in BlocksOf(v) : disk[v][b] = r
      BY <3>2, <3>3
    <3>5. LoadedRec(v) = r
      BY <3>4, Whole
    <3>6. r \in Records
      BY <1>1, <3>3 DEF Types
    <3>7. \A b \in BlocksOf(v) : disk'[v][b] = r
      BY <1>9, <1>10, <2>2, <3>4
    <3>8. State(v) = r
      BY <3>1, <3>5 DEF State
    <3> HIDE DEF r
    <3>9. QED
      BY <3>6, <3>7, <3>8
  <2>3. QED
    BY <2>1, <2>2
<1>11. \A v \in Vertices : Inited(v) =>
          State(v)'.parent = State(v).parent /\ State(v)'.level = State(v).level
  <2>1. ASSUME NEW v \in Vertices, Inited(v)
        PROVE  State(v)'.parent = State(v).parent /\ State(v)'.level = State(v).level
    <3>1. CASE SuperPartitions = 1
      <4>1. buf' = buf
        BY <3>1 DEF Store
      <4>2. Rec(v)' = Rec(v)
        BY <1>2, <4>1, SameLayout DEF Rec
      <4>3. QED
        BY <1>6, <3>1, <4>2 DEF State
    <3>2. CASE SuperPartitions # 1
      <4>1. SuperPartitions > 1
        BY <1>3, <3>2
      <4>2. PICK r \in Records : /\ \A b \in BlocksOf(v) : disk'[v][b] = r
                                 /\ State(v).parent = r.parent /\ State(v).level = r.level
        BY <1>10, <2>1, <4>1
      <4>3. LoadedRec(v)' = r
        BY <1>2, <4>2, WholeNext
      <4>4. State(v)' = r
        BY <1>6, <3>2, <4>3 DEF State
      <4>5. QED
        BY <4>2, <4>4
    <3>3. QED
      BY <3>1, <3>2
  <2>2. QED
    BY <2>1
<1>12. Types'
  <2>1. buf' \in [Positions -> Records]
    <3>1. CASE SuperPartitions > 1
      <4> DEFINE new == [v \in VerticesOf(superp) |-> [Rec(v) EXCEPT !.changed = FALSE]]
      <4>1. buf' = With(new)
        BY <3>1 DEF Store
      <4>2. \A v \in VerticesOf(superp) : Rec(v) \in Records
        BY <1>1, <1>5, RecType
      <4>3. DOMAIN new \subseteq VerticesOf(superp) /\ \A v \in DOMAIN new : new[v] \in Records
        BY <4>2 DEF Records
      <4> HIDE DEF new
      <4>4. With(new) \in [Positions -> Records]
        BY <1>1, <1>3, <4>3, WithRec
      <4>5. QED
        BY <4>1, <4>4
    <3>2. CASE ~(SuperPartitions > 1)
      BY <1>1, <3>2 DEF Store, Types
    <3>3. QED
      BY <3>1, <3>2
  <2>2. \A v \in Vertices : \A b \in BlocksOf(v) : disk'[v][b] \in Records
    <3>1. CASE SuperPartitions > 1
      <4>1. ASSUME NEW v \in Vertices, NEW b \in BlocksOf(v) PROVE disk'[v][b] \in Records
        <5>1. CASE SuperOf(v) = superp
          <6>1. disk'[v][b] = [Rec(v) EXCEPT !.changed = FALSE]
            BY <1>6, <3>1, <5>1, StoredBlocks
          <6>2. Rec(v) \in Records
            BY <1>1, RecType
          <6>3. QED
            BY <6>1, <6>2 DEF Records
        <5>2. CASE SuperOf(v) # superp
          BY <1>1, <1>9, <3>1, <5>2 DEF Types
        <5>3. QED
          BY <5>1, <5>2
      <4>2. QED
        BY <4>1
    <3>2. CASE ~(SuperPartitions > 1)
      BY <1>1, <3>2 DEF Store, Types
    <3>3. QED
      BY <3>1, <3>2
  <2>3. QED
    BY <1>1, <1>2, <1>3, <1>4, <1>6, <2>1, <2>2 DEF Types
<1>13. FileInv'
  <2>1. SUFFICES ASSUME SuperPartitions > 1, NEW v \in Vertices, Inited(v)
                 PROVE  \A b, c \in BlocksOf(v) : disk'[v][b] = disk'[v][c]
    BY <1>3, <1>6, <1>7 DEF FileInv
  <2>2. QED
    BY <1>10, <2>1
<1>14. SearchInv'
  <2>1. \A v \in Vertices : Inited(v)' => Inited(v)
    BY <1>7
  <2>2. \A s \in Supers : Gathered(s)' <=> Gathered(s)
    BY <1>8
  <2>3. QED
    BY <1>1, <1>2, <1>11, <2>1, <2>2, SearchKept
<1>15. /\ \A v \in Vertices : Inited(v) => (Fresh(v)' <=> Fresh(v))
       /\ phase > 0 => Sent' = Sent
  BY <1>1, <1>2, <1>11, SearchFrame
<1>16. StreamInv'
  BY <1>1, <1>2, <1>8, <1>15, StreamKept
<1>17. ActiveInv'
  BY <1>2, <1>4 DEF ActiveInv
<1>18. VoteInv'
  <2>1. \A v \in Vertices : (Gathered(SuperOf(v)))' <=> Gathered(SuperOf(v))
    BY <1>3, <1>8
  <2>2. \A v \in Vertices : Gathered(SuperOf(v)) => Inited(v)
    BY <1>1, GatheredInited
  <2>3. QED
    BY <1>1, <1>2, <1>4, <1>15, <2>1, <2>2 DEF VoteInv
<1>19. Kept
  BY <1>1, <1>2, <1>11, StatesKept
<1>20. QED
  BY <1>19, <1>4, <1>12, <1>13, <1>14, <1>16, <1>17, <1>18 DEF IInv, QueryInv

\* The invariant holds before the first superstep.
LEMMA InitInv == ASSUME Init PROVE IInv
<1> USE DEF SuperstepPcs, LoadedPcs
<1>1. /\ pc = "begin" /\ phase = 0 /\ superp = 0 /\ setting \in Settings
      /\ buf = [p \in Positions |-> Blank]
      /\ disk = [v \in Vertices |-> [b \in BlocksOf(v) |-> Blank]]
      /\ in = [s \in Supers |-> {}] /\ out = [s \in Supers |-> {}]
      /\ active = {} /\ vote = FALSE
  BY DEF Init
<1>2. Blank \in Records
  BY Basics DEF Blank, Records, Vertices
<1>3. superp \in Supers /\ Supers = 0..SuperPartitions - 1
  BY <1>1, EdgeFiles DEF Supers
<1>4. Types
  BY <1>1, <1>2, <1>3 DEF Types
<1>5. \A v \in Vertices : ~Inited(v)
  BY <1>1 DEF Inited
<1>6. FileInv
  BY <1>1, <1>5 DEF FileInv, InMemory
<1>7. SearchInv
  BY <1>5 DEF SearchInv
<1>8. StreamInv
  <2>1. \A s : ~Gathered(s) /\ ~Scattered(s)
    BY <1>1 DEF Gathered, Scattered
  <2>2. QED
    BY <1>1, <2>1 DEF StreamInv
<1>9. ActiveInv /\ VoteInv /\ QueryInv
  BY <1>1 DEF ActiveInv, VoteInv, QueryInv
<1>10. QED
  BY <1>4, <1>6, <1>7, <1>8, <1>9 DEF IInv

\* The invariant is about the variables alone.
LEMMA StutterInv == ASSUME IInv, UNCHANGED vars PROVE IInv' /\ Kept
<1> USE DEF SuperstepPcs, LoadedPcs
<1>1. UNCHANGED <<pc, phase, superp, setting, buf, disk, in, out, active, asked, bitset, vote>>
  BY DEF vars
<1>2. /\ SuperPartitions' = SuperPartitions /\ Supers' = Supers /\ Graph' = Graph
      /\ superp \in Supers
      /\ \A v \in Vertices : SuperOf(v)' = SuperOf(v) /\ SuperOf(v) \in Supers
  BY <1>1, SameLayout, SuperType DEF IInv, Types
<1>3. Types'
  BY <1>1, <1>2, SameLayout DEF IInv, Types
<1>4. /\ \A v \in Vertices : (InMemory(v)' <=> InMemory(v)) /\ (Inited(v)' <=> Inited(v))
      /\ \A s \in Supers : Gathered(s)' <=> Gathered(s)
      /\ \A s \in Supers : (Gathered(s)' <=> Gathered(s)) /\ (Scattered(s)' <=> Scattered(s))
  BY <1>1, <1>2 DEF InMemory, Inited, Gathered, Scattered
<1>5. /\ FileInv' /\ SearchInv' /\ Kept
      /\ \A v \in Vertices : Inited(v) => (Fresh(v)' <=> Fresh(v))
      /\ phase > 0 => Sent' = Sent
  BY <1>1, <1>4, MemoryKept DEF IInv
<1>6. StreamInv'
  BY <1>1, <1>4, <1>5, StreamKept DEF IInv
<1>7. /\ Frontier' = Frontier
      /\ {PartitionOf(v) : v \in Frontier}' = {PartitionOf(v) : v \in Frontier}
  <2>1. \A v \in VerticesOf(superp) : Rec(v)'.parent = Rec(v).parent /\ Rec(v)'.level = Rec(v).level
    BY <1>1, RecKept DEF VerticesOf
  <2>2. QED
    BY <1>1, <2>1, FrontierKept DEF IInv
<1>8. ActiveInv'
  BY <1>1, <1>7 DEF ActiveInv, IInv
<1>9. VoteInv'
  <2>1. \A v \in Vertices : (Gathered(SuperOf(v)))' <=> Gathered(SuperOf(v))
    BY <1>2, <1>4
  <2>2. \A v \in Vertices : Gathered(SuperOf(v)) => Inited(v)
    BY GatheredInited DEF IInv
  <2>3. QED
    BY <1>1, <1>5, <2>1, <2>2 DEF VoteInv, IInv
<1>10. QueryInv'
  <2>1. Hits(Frontier)' = Hits(Frontier)
    BY <1>1, <1>7, SameLayout DEF Hits
  <2>2. QED
    BY <1>1, <2>1 DEF QueryInv, IInv
<1>11. QED
  BY <1>3, <1>5, <1>6, <1>8, <1>9, <1>10 DEF IInv

-----------------------------------------------------------------------------
(* Theorems *)

\* The invariant holds in every reachable state of the driver.
THEOREM Inductive == Spec => []IInv
<1>1. Init => IInv
  BY InitInv
<1>2. IInv /\ [Next]_vars => IInv'
  <2>1. SUFFICES ASSUME IInv, [Next]_vars PROVE IInv'
    OBVIOUS
  <2>2. CASE Begin
    BY <2>1, <2>2, BeginInv
  <2>3. CASE Load
    BY <2>1, <2>3, LoadInv
  <2>4. CASE Gather
    BY <2>1, <2>4, GatherInv
  <2>5. CASE Check
    BY <2>1, <2>5, CheckInv
  <2>6. CASE Scatter
    BY <2>1, <2>6, ScatterInv
  <2>7. CASE Store
    BY <2>1, <2>7, StoreInv
  <2>8. CASE End
    BY <2>1, <2>8, EndInv
  <2>9. CASE Final
    BY <2>1, <2>9, FinalInv
  <2>10. CASE UNCHANGED vars
    BY <2>1, <2>10, StutterInv
  <2>11. QED
    BY <2>1, <2>2, <2>3, <2>4, <2>5, <2>6, <2>7, <2>8, <2>9, <2>10 DEF Next
<1>3. QED
  BY <1>1, <1>2, PTL DEF Spec

\* After a super partition was stored its file holds what was in memory,
\* although only blocks with a changed vertex were written.
THEOREM StoreIsComplete == Spec => StoreComplete
<1>1. IInv /\ [Next]_vars =>
        [Store /\ SuperPartitions > 1 =>
           \A v \in VerticesOf(superp) : \A b \in BlocksOf(v) :
             disk'[v][b] = [Rec(v) EXCEPT !.changed = FALSE]]_vars
  BY StoredBlocks
<1>2. QED
  BY <1>1, Inductive, PTL DEF Spec, StoreComplete

\* A partition that holds an active vertex is queued for the scatter phase, and
\* none is left over for the next super partition.
THEOREM FilterIsFrontier == Spec => []FilterMatchesFrontier
<1>1. IInv => FilterMatchesFrontier
  BY DEF IInv, ActiveInv, FilterMatchesFrontier
<1>2. QED
  BY <1>1, Inductive, PTL

-----------------------------------------------------------------------------
(* The driver implements level-synchronous search *)

\* The variables of the search, as ImplementsBFS maps them.
ShownParent == [v \in Vertices |-> IF phase > 0 /\ Shown(v) THEN State(v).parent ELSE NONE]
ShownLevel == [v \in Vertices |-> IF phase > 0 /\ Shown(v) THEN State(v).level ELSE 0]
Over == pc \in {"final", "done"}

\* Inside a superstep nothing of the search is seen.
LEMMA InsideStep ==
  ASSUME IInv, Kept, setting' = setting, phase' = phase, Over' = Over
  PROVE  UNCHANGED <<Graph, ShownParent, ShownLevel, phase, Over>>
<1>1. phase \in Nat /\ Graph' = Graph
  BY SameLayout DEF IInv, Types
<1>2. ShownParent' = ShownParent
  BY DEF Kept, ShownParent
<1>3. ShownLevel' = ShownLevel
  BY DEF Kept, ShownLevel
<1>4. QED
  BY <1>1, <1>2, <1>3

\* What a superstep has discovered when it ends: every vertex with an update
\* from the superstep before, and no other.
LEMMA RoundFound ==
  ASSUME IInv, pc = "end", phase > 0, NEW v \in Vertices
  PROVE  /\ Shown(v) => Found(v)
         /\ Found(v) => Shown(v) \/ Fresh(v)
         /\ Fresh(v) => ~Shown(v)
         /\ ~Shown(v) => (Fresh(v) <=> \E u \in Vertices : <<u, v>> \in Sent)
         /\ Fresh(v) => State(v).parent \in Vertices /\ <<State(v).parent, v>> \in Sent
<1>1. /\ Inited(v) /\ Gathered(SuperOf(v)) /\ State(v).level \in Nat /\ phase \in Nat
      /\ Types /\ SearchInv
  BY StateType DEF IInv, Inited, Gathered, Types, Records
<1>2. /\ Found(v) => State(v).level <= phase
      /\ Fresh(v) => <<State(v).parent, v>> \in Sent
      /\ ~Found(v) => \A e \in Sent : e[2] # v
  BY <1>1 DEF SearchInv
<1>3. \A u : <<u, v>> \in Sent => u \in Vertices
  <2>1. ASSUME NEW u, <<u, v>> \in Sent PROVE u \in Vertices
    <3>1. <<u, v>> \in Graph
      BY <2>1 DEF Sent
    <3>2. QED
      BY <1>1, <3>1, EdgeEnds
  <2>2. QED
    BY <2>1
<1>4. \A u : <<u, v>> \in Sent => Found(v)
  BY <1>2
<1>5. (Shown(v) => Found(v)) /\ (Found(v) => Shown(v) \/ Fresh(v)) /\ (Fresh(v) => ~Shown(v))
  BY <1>1, <1>2 DEF Shown, Found, Fresh
<1>6. QED
  BY <1>2, <1>3, <1>4, <1>5

\* The end of a superstep is a round of the search.
LEMMA EndIsRound ==
  ASSUME IInv, End
  PROVE  BFS!AbsRound
<1>1. Types /\ SearchInv /\ VoteInv
  BY DEF IInv
<1>2. /\ pc = "end" /\ phase' = phase + 1 /\ phase \in Nat
      /\ pc' = IF phase + 1 > MinSuperPhases /\ vote THEN "final" ELSE "begin"
      /\ UNCHANGED <<superp, setting, buf, disk>>
  BY <1>1 DEF End, Types
<1>3. \A v \in Vertices : /\ Inited(v) /\ Gathered(SuperOf(v)) /\ State(v)' = State(v)
                          /\ State(v) \in Records /\ State(v).level \in Nat
  <2>1. pc' \in {"begin", "final"}
    BY <1>2
  <2>2. \A v \in Vertices : State(v)' = State(v) /\ State(v) \in Records
    BY <1>1, <1>2, <2>1, EndStates, StateType
  <2>3. QED
    BY <1>2, <2>2 DEF Inited, Gathered, Records
<1>4. \A v \in Vertices : (Shown(v)' <=> Found(v)) /\ (Found(v)' <=> Found(v))
  <2>1. \A v \in Vertices : Found(v) => State(v).level <= phase
    BY <1>1, <1>3 DEF SearchInv
  <2>2. QED
    BY <1>2, <1>3, <2>1 DEF Shown, Found
<1>5. /\ ShownParent' = [v \in Vertices |-> State(v).parent]
      /\ ShownLevel' = [v \in Vertices |-> IF Found(v) THEN State(v).level ELSE 0]
  BY <1>2, <1>3, <1>4 DEF ShownParent, ShownLevel, Found
<1>6. phase = 0 \/ phase > 0
  BY <1>2
<1> DEFINE disc == {v \in Vertices : ShownParent[v] # NONE}
           cand(v) == IF phase = 0 THEN {Root} \cap {v}
                      ELSE {u \in disc : ShownLevel[u] = phase - 1 /\ <<u, v>> \in Graph}
           found == {v \in Vertices \ disc : cand(v) # {}}
<1>7. /\ disc = BFS!Discovered /\ found = BFS!Found
      /\ \A v : cand(v) = BFS!Candidates(v)
  BY DEF ShownParent, ShownLevel, BFS!Discovered, BFS!Found, BFS!Candidates
<1>8. disc = {v \in Vertices : phase > 0 /\ Shown(v)}
  BY DEF ShownParent, Shown
<1>9. \A v \in Vertices : v \in found <=> v \notin disc /\ cand(v) # {}
  OBVIOUS
<1>10. ASSUME NEW v \in Vertices, phase = 0 PROVE cand(v) = {Root} \cap {v}
  BY <1>10
<1>11. ASSUME NEW v \in Vertices, phase > 0 PROVE cand(v) = {u \in Vertices : <<u, v>> \in Sent}
  BY <1>2, <1>3, <1>8, <1>11 DEF Sent, ShownLevel, Shown, Found
<1> HIDE DEF disc, cand, found
<1>12. \A v \in Vertices : v \in found <=> Fresh(v)
  <2>1. CASE phase = 0
    <3>1. ASSUME NEW v \in Vertices PROVE v \in found <=> v = Root
      <4>1. cand(v) = {Root} \cap {v}
        BY <1>10, <2>1
      <4>2. v \notin disc
        BY <1>8, <2>1
      <4>3. {Root} \cap {v} # {} <=> v = Root
        OBVIOUS
      <4>4. QED
        BY <1>9, <4>1, <4>2, <4>3
    <3>2. \A v \in Vertices : Fresh(v) <=> v = Root
      BY <1>1, <1>3, <2>1 DEF SearchInv, Fresh
    <3>3. QED
      BY <3>1, <3>2
  <2>2. CASE phase > 0
    <3>1. ASSUME NEW v \in Vertices PROVE v \in found <=> Fresh(v)
      <4>1. /\ ~Shown(v) => (Fresh(v) <=> \E u \in Vertices : <<u, v>> \in Sent)
            /\ Fresh(v) => ~Shown(v)
        BY <1>2, <2>2, RoundFound
      <4>2. v \in disc <=> Shown(v)
        BY <1>8, <2>2
      <4>3. cand(v) # {} <=> \E u \in Vertices : <<u, v>> \in Sent
        BY <1>11, <2>2
      <4>4. QED
        BY <1>9, <4>1, <4>2, <4>3
    <3>2. QED
      BY <3>1
  <2>3. QED
    BY <1>6, <2>1, <2>2
<1>13. ASSUME NEW v \in Vertices
       PROVE  IF v \in found THEN ShownParent'[v] \in cand(v) ELSE ShownParent'[v] = ShownParent[v]
  <2>1. CASE phase = 0
    <3>1. ShownParent'[v] = State(v).parent
      BY <1>5
    <3>2. ShownParent[v] = NONE
      BY <2>1 DEF ShownParent
    <3>3. Found(v) <=> v = Root
      BY <1>1, <1>3, <2>1 DEF SearchInv
    <3>4. v = Root => State(v).parent = Root /\ v \in found
      BY <1>1, <1>3, <1>12, <2>1 DEF SearchInv, Fresh
    <3>5. v # Root => v \notin found
      BY <1>12, <3>3 DEF Fresh
    <3>6. QED
      BY <1>10, <2>1, <3>1, <3>2, <3>3, <3>4, <3>5 DEF Found
  <2>2. CASE phase > 0
    <3>1. ShownParent'[v] = State(v).parent
      BY <1>5
    <3>2. ShownParent[v] = IF Shown(v) THEN State(v).parent ELSE NONE
      BY <2>2 DEF ShownParent
    <3>3. /\ Shown(v) => Found(v)
          /\ Found(v) => Shown(v) \/ Fresh(v)
          /\ Fresh(v) => State(v).parent \in Vertices /\ <<State(v).parent, v>> \in Sent
      BY <1>2, <2>2, RoundFound
    <3>4. v \in found => ShownParent'[v] \in cand(v)
      BY <1>11, <1>12, <2>2, <3>1, <3>3
    <3>5. v \notin found => ShownParent'[v] = ShownParent[v]
      BY <1>12, <3>1, <3>2, <3>3 DEF Found
    <3>6. QED
      BY <3>4, <3>5
  <2>3. QED
    BY <1>6, <2>1, <2>2
<1>14. ShownLevel' = [v \in Vertices |-> IF v \in found THEN phase ELSE ShownLevel[v]]
  <2>1. ASSUME NEW v \in Vertices
        PROVE  (IF Found(v) THEN State(v).level ELSE 0) = IF v \in found THEN phase ELSE ShownLevel[v]
    <3>1. CASE v \in found
      BY <1>12, <3>1 DEF Fresh
    <3>2. CASE v \notin found /\ phase = 0
      <4>1. ShownLevel[v] = 0
        BY <3>2 DEF ShownLevel
      <4>2. ~Found(v)
        BY <1>1, <1>3, <1>12, <3>2 DEF SearchInv, Fresh
      <4>3. QED
        BY <3>2, <4>1, <4>2
    <3>3. CASE v \notin found /\ phase > 0
      <4>1. ShownLevel[v] = IF Shown(v) THEN State(v).level ELSE 0
        BY <3>3 DEF ShownLevel
      <4>2. Shown(v) <=> Found(v)
        BY <1>2, <1>12, <3>3, RoundFound
      <4>3. QED
        BY <3>3, <4>1, <4>2
    <3>4. QED
      BY <1>6, <3>1, <3>2, <3>3
  <2>2. QED
    BY <1>5, <2>1
<1>15. Over' = (phase > 0 /\ found = {})
  <2>1. vote \in BOOLEAN /\ (vote <=> phase = 0 \/ \A v \in Vertices : ~Fresh(v))
    BY <1>1, <1>2, <1>3 DEF VoteInv, Types
  <2>2. found = {} <=> \A v \in Vertices : ~Fresh(v)
    <3>1. found \subseteq Vertices
      BY DEF found
    <3>2. QED
      BY <1>12, <3>1
  <2>3. Over' <=> phase > 0 /\ vote
    BY <1>2, <2>1 DEF Over, MinSuperPhases
  <2>4. Over' <=> phase > 0 /\ found = {}
    BY <1>6, <2>1, <2>2, <2>3
  <2>5. QED
    BY <2>4 DEF Over
<1>16. ShownParent' \in [Vertices -> Vertices \cup {NONE}]
  BY <1>3, <1>5 DEF Records
<1>17. Graph' = Graph /\ ~Over
  BY <1>2, SameLayout DEF Over
<1>18. QED
  BY <1>2, <1>7, <1>13, <1>14, <1>15, <1>16, <1>17
     DEF BFS!AbsRound, ShownParent, ShownLevel, Over

\* Before the first superstep nothing is shown to be discovered.
LEMMA RefinesInit == ASSUME Init PROVE BFS!AbsInit
<1>1. setting \in Settings /\ phase = 0 /\ pc = "begin"
  BY DEF Init
<1>2. Graph \subseteq Vertices \X Vertices
  BY <1>1, EdgeFiles DEF Edges
<1>3. QED
  BY <1>1, <1>2 DEF BFS!AbsInit

\* Each step of the driver is a round of the search or shows nothing of it.
LEMMA RefinesNext == ASSUME IInv, [Next]_vars PROVE [BFS!AbsRound]_BFS!absVars
<1>1. ASSUME Kept, setting' = setting, phase' = phase, Over' = Over
      PROVE  UNCHANGED BFS!absVars
  BY <1>1, InsideStep DEF BFS!absVars, ShownParent, ShownLevel, Over
<1>2. CASE End
  BY <1>2, EndIsRound
<1>3. CASE Begin
  BY <1>1, <1>3, BeginInv DEF Begin, Over
<1>4. CASE Load
  BY <1>1, <1>4, LoadInv DEF Load, Over
<1>5. CASE Gather
  <2>1. pc = "gather" /\ pc' = "check" /\ UNCHANGED <<setting, phase>>
    BY <1>5 DEF Gather
  <2>2. Kept
    BY <1>5, GatherInv
  <2>3. Over' = Over
    BY <2>1 DEF Over
  <2>4. QED
    BY <1>1, <2>1, <2>2, <2>3
<1>6. CASE Check
  BY <1>1, <1>6, CheckInv DEF Check, Over
<1>7. CASE Scatter
  BY <1>1, <1>7, ScatterInv DEF Scatter, Over
<1>8. CASE Store
  BY <1>1, <1>8, StoreInv DEF Store, Over
<1>9. CASE Final
  BY <1>1, <1>9, FinalInv DEF Final, Over
<1>10. CASE UNCHANGED vars
  BY <1>1, <1>10, StutterInv DEF vars, Over
<1>11. QED
  BY <1>2, <1>3, <1>4, <1>5, <1>6, <1>7, <1>8, <1>9, <1>10 DEF Next

\* Every behaviour of the driver is one of level-synchronous search: the end of
\* a superstep is a round, all other steps show nothing of it.
THEOREM Refinement == Spec => ImplementsBFS
<1>1. Init => BFS!AbsInit
  BY RefinesInit
<1>2. IInv /\ [Next]_vars => [BFS!AbsRound]_BFS!absVars
  BY RefinesNext
<1>3. QED
  BY <1>1, <1>2, Inductive, PTL DEF Spec, ImplementsBFS, BFS!AbsSpec

-----------------------------------------------------------------------------
(* Levels and result *)

\* The recursive definition of Within has a solution: the ends of the walks of
\* at most n edges from the root.
LEMMA WithinExists ==
  ASSUME setting \in Settings
  PROVE  \E W : W = [n \in Nat |-> IF n = 0 THEN {Root}
                     ELSE LET nearer == W[n - 1] IN nearer \cup {e[2] : e \in {d \in Graph : d[1] \in nearer}}]
<1> DEFINE Step(u, v) == u = v \/ <<u, v>> \in Graph
           Walk(n, g) == g[0] = Root /\ \A i \in 0..n - 1 : Step(g[i], g[i + 1])
           W == [n \in Nat |-> {v \in Vertices : \E g \in [0..n -> Vertices] : Walk(n, g) /\ g[n] = v}]
           From(S) == {e[2] : e \in {d \in Graph : d[1] \in S}}
<1>1. Graph \subseteq Vertices \X Vertices /\ Root \in Vertices
  BY EdgeFiles, Basics DEF Edges
<1>2. ASSUME NEW n \in Nat PROVE W[n] = {v \in Vertices : \E g \in [0..n -> Vertices] : Walk(n, g) /\ g[n] = v}
  OBVIOUS
<1>3. W[0] = {Root}
  <2> DEFINE g == [i \in 0..0 |-> Root]
  <2>1. g \in [0..0 -> Vertices] /\ Walk(0, g) /\ g[0] = Root
    BY <1>1
  <2> HIDE DEF g
  <2>2. Root \in W[0]
    BY <1>1, <1>2, <2>1
  <2>3. \A v \in W[0] : v = Root
    BY <1>2
  <2>4. QED
    BY <2>2, <2>3
<1>4. ASSUME NEW n \in Nat, n # 0 PROVE W[n] = W[n - 1] \cup From(W[n - 1])
  <2>1. n - 1 \in Nat /\ (n - 1) + 1 = n
    BY <1>4
  <2>2. ASSUME NEW v \in W[n] PROVE v \in W[n - 1] \cup From(W[n - 1])
    <3>1. PICK g \in [0..n -> Vertices] : Walk(n, g) /\ g[n] = v
      BY <1>2, <2>2
    <3> DEFINE h == [i \in 0..n - 1 |-> g[i]]
               u == g[n - 1]
    <3>2. h \in [0..n - 1 -> Vertices] /\ h[n - 1] = u /\ u \in Vertices
      BY <2>1
    <3>3. Walk(n - 1, h)
      BY <2>1, <3>1
    <3>4. Step(u, v)
      BY <2>1, <3>1
    <3> HIDE DEF h, u
    <3>5. u \in W[n - 1]
      BY <1>2, <2>1, <3>2, <3>3
    <3> HIDE DEF W
    <3>6. CASE u = v
      BY <3>5, <3>6
    <3>7. CASE <<u, v>> \in Graph
      BY <3>5, <3>7
    <3>8. QED
      BY <3>4, <3>6, <3>7
  <2>3. ASSUME NEW u \in W[n - 1], NEW v \in Vertices, Step(u, v) PROVE v \in W[n]
    <3>1. PICK g \in [0..n - 1 -> Vertices] : Walk(n - 1, g) /\ g[n - 1] = u
      BY <1>2, <2>1, <2>3
    <3> DEFINE h == [i \in 0..n |-> IF i = n THEN v ELSE g[i]]
    <3>2. h \in [0..n -> Vertices] /\ h[n] = v /\ \A i \in 0..n - 1 : h[i] = g[i]
      BY <2>1
    <3> HIDE DEF h
    <3>3. h[0] = Root
      BY <2>1, <3>1, <3>2
    <3>4. ASSUME NEW i \in 0..n - 1 PROVE Step(h[i], h[i + 1])
      <4>1. CASE i = n - 1
        BY <2>1, <2>3, <3>1, <3>2, <4>1
      <4>2. CASE i # n - 1
        <5>1. i \in 0..(n - 1) - 1 /\ i + 1 \in 0..n - 1
          BY <2>1, <4>2
        <5>2. QED
          BY <3>1, <3>2, <5>1
      <4>3. QED
        BY <4>1, <4>2
    <3>5. QED
      BY <1>2, <3>2, <3>3, <3>4
  <2>4. \A u \in W[n - 1] : u \in Vertices
    BY <1>2, <2>1
  <2> HIDE DEF W
  <2>5. W[n - 1] \subseteq W[n]
    BY <2>3, <2>4
  <2>6. From(W[n - 1]) \subseteq W[n]
    <3>1. ASSUME NEW e \in Graph, e[1] \in W[n - 1] PROVE e[2] \in W[n]
      BY <1>1, <2>3, <3>1
    <3>2. QED
      BY <3>1
  <2>7. QED
    BY <2>2, <2>5, <2>6
<1>5. W = [n \in Nat |-> IF n = 0 THEN {Root} ELSE W[n - 1] \cup From(W[n - 1])]
  <2>1. W = [n \in Nat |-> W[n]]
    OBVIOUS
  <2> HIDE DEF W
  <2>2. \A n \in Nat : W[n] = IF n = 0 THEN {Root} ELSE W[n - 1] \cup From(W[n - 1])
    BY <1>3, <1>4
  <2>3. QED
    BY <2>1, <2>2
<1> HIDE DEF W
<1>6. QED
  BY <1>5

\* So Within is the chain of neighbourhoods of the root.
LEMMA WithinChain ==
  ASSUME setting \in Settings
  PROVE  /\ Within[0] = {Root}
         /\ \A n \in Nat : Within[n + 1] = Within[n] \cup {e[2] : e \in {d \in Graph : d[1] \in Within[n]}}
<1>1. Within = [n \in Nat |-> IF n = 0 THEN {Root}
                 ELSE LET nearer == Within[n - 1]
                      IN nearer \cup {e[2] : e \in {d \in Graph : d[1] \in nearer}}]
  BY WithinExists, Zenon DEF Within
<1> HIDE DEF Within
<1>2. \A n \in Nat : Within[n] = IF n = 0 THEN {Root}
                 ELSE LET nearer == Within[n - 1]
                      IN nearer \cup {e[2] : e \in {d \in Graph : d[1] \in nearer}}
  BY <1>1
<1>3. Within[0] = {Root}
  BY <1>2
<1>4. ASSUME NEW n \in Nat
      PROVE  Within[n + 1] = Within[n] \cup {e[2] : e \in {d \in Graph : d[1] \in Within[n]}}
  <2>1. n + 1 \in Nat /\ n + 1 # 0 /\ (n + 1) - 1 = n
    OBVIOUS
  <2>2. Within[n + 1] = LET nearer == Within[(n + 1) - 1]
                        IN nearer \cup {e[2] : e \in {d \in Graph : d[1] \in nearer}}
    BY <1>2, <2>1
  <2>3. QED
    BY <2>1, <2>2
<1>5. QED
  BY <1>3, <1>4

\* What is proved of the search, of the search that the driver implements.
Search == INSTANCE AbstractBFSProofs WITH
            edges <- Graph, round <- phase, parent <- ShownParent, level <- ShownLevel,
            stopped <- Over

\* The root is a vertex and NONE is not.
LEMMA SearchParameters == Search!Parameters
BY Basics DEF Search!Parameters

\* What holds of every level-synchronous search holds of the driver.
LEMMA SearchInductive == Spec => []Search!SearchInv
<1>1. Init => Search!SearchInv
  <2>1. ASSUME Init PROVE Search!AbsInit
    BY <2>1, RefinesInit DEF BFS!AbsInit, Search!AbsInit, ShownParent, ShownLevel, Over
  <2>2. QED
    BY <2>1, SearchParameters, Search!InitSearchInv
<1>2. IInv /\ Search!SearchInv /\ [Next]_vars => Search!SearchInv'
  <2>1. ASSUME IInv, [Next]_vars PROVE [Search!AbsRound]_Search!absVars
    <3>1. [BFS!AbsRound]_BFS!absVars
      BY <2>1, RefinesNext
    <3>2. QED
      BY <3>1 DEF BFS!AbsRound, BFS!absVars, BFS!Found, BFS!Candidates, BFS!Discovered,
        Search!AbsRound, Search!absVars, Search!Found, Search!Candidates, Search!Discovered,
        ShownParent, ShownLevel, Over
  <2>2. QED
    BY <2>1, SearchParameters, Search!NextSearchInv
<1>3. QED
  BY <1>1, <1>2, Inductive, PTL DEF Spec

\* Between two supersteps all that is discovered is shown.
LEMMA BetweenSupersteps ==
  ASSUME IInv, pc \in {"begin", "final", "done"}, phase > 0, NEW v \in Vertices
  PROVE  /\ Shown(v) <=> Found(v)
         /\ ShownParent[v] = State(v).parent
         /\ Found(v) => ShownLevel[v] = State(v).level
<1>1. Inited(v) /\ ~Gathered(SuperOf(v)) /\ State(v).level \in Nat /\ phase \in Nat
  BY StateType DEF IInv, Inited, Gathered, SuperstepPcs, Types, Records
<1>2. ~Fresh(v) /\ (Found(v) => State(v).level <= phase)
  BY <1>1 DEF IInv, SearchInv
<1>3. Shown(v) <=> Found(v)
  BY <1>1, <1>2 DEF Shown, Found, Fresh
<1>4. QED
  BY <1>3 DEF ShownParent, ShownLevel, Found

\* What the search says of rounds, the state of the driver says between
\* supersteps.
LEMMA LevelsFromSearch ==
  ASSUME IInv, Search!SearchInv
  PROVE  LevelsExact
<1> SUFFICES ASSUME pc \in {"begin", "final"}, phase > 0, NEW v \in Vertices
             PROVE  /\ State(v).parent # NONE <=> v \in Within[phase - 1]
                    /\ State(v).parent # NONE /\ v # Root =>
                         /\ v \in Within[State(v).level] \ Within[State(v).level - 1]
                         /\ <<State(v).parent, v>> \in Graph
                         /\ State(State(v).parent).level = State(v).level - 1
  BY DEF LevelsExact
<1>1. phase \in Nat /\ setting \in Settings
  BY DEF IInv, Types
<1>2. \A u \in Vertices : /\ ShownParent[u] = State(u).parent
                          /\ Found(u) => ShownLevel[u] = State(u).level
  BY BetweenSupersteps
<1>3. \A u : u \in Search!Discovered <=> u \in Vertices /\ Found(u)
  BY <1>2 DEF Search!Discovered, Found
<1>4. Search!Neighbourhoods(Within)
  BY <1>1, WithinChain DEF Search!Neighbourhoods
<1>5. \A n \in Nat : n < phase => Within[n] = {u \in Search!Discovered : ShownLevel[u] <= n}
  BY <1>4, SearchParameters, Search!LevelsAreDistances
<1>6. \A u \in Search!Discovered :
         /\ ShownLevel[u] \in Nat /\ ShownLevel[u] < phase
         /\ ShownLevel[u] = 0 => u = Root
         /\ ShownLevel[u] # 0 => /\ ShownParent[u] \in Search!Discovered
                                 /\ ShownLevel[ShownParent[u]] = ShownLevel[u] - 1
                                 /\ <<ShownParent[u], u>> \in Graph
  BY SearchParameters, Search!DiscoveredVertex
<1>7. State(v).parent # NONE <=> v \in Within[phase - 1]
  <2>1. phase - 1 \in Nat /\ phase - 1 < phase
    BY <1>1
  <2>2. v \in Within[phase - 1] <=> v \in Search!Discovered /\ ShownLevel[v] <= phase - 1
    BY <1>5, <2>1
  <2>3. ASSUME v \in Search!Discovered PROVE ShownLevel[v] <= phase - 1
    <3>1. ShownLevel[v] \in Nat /\ ShownLevel[v] < phase
      BY <1>6, <2>3
    <3>2. QED
      BY <1>1, <3>1
  <2>4. QED
    BY <1>3, <2>2, <2>3 DEF Found
<1>8. ASSUME State(v).parent # NONE, v # Root
      PROVE  /\ v \in Within[State(v).level] \ Within[State(v).level - 1]
             /\ <<State(v).parent, v>> \in Graph
             /\ State(State(v).parent).level = State(v).level - 1
  <2> DEFINE l == State(v).level
             p == State(v).parent
  <2>1. v \in Search!Discovered /\ ShownLevel[v] = l /\ ShownParent[v] = p
    BY <1>2, <1>3, <1>8 DEF Found
  <2>2. l \in Nat /\ l < phase /\ l # 0
    BY <1>6, <1>8, <2>1
  <2>3. p \in Search!Discovered /\ ShownLevel[p] = l - 1 /\ <<p, v>> \in Graph
    BY <1>6, <2>1, <2>2
  <2>4. State(p).level = l - 1
    BY <1>2, <1>3, <2>3
  <2>5. l - 1 \in Nat /\ l - 1 < phase
    BY <1>1, <2>2
  <2>6. v \in Within[l]
    BY <1>5, <2>1, <2>2
  <2>7. v \notin Within[l - 1]
    BY <1>5, <2>1, <2>2, <2>5
  <2>8. QED
    BY <2>3, <2>4, <2>6, <2>7
<1>9. QED
  BY <1>7, <1>8

\* The only super partition is written as a whole when the search is over.
DoneInv == pc = "done" /\ SuperPartitions = 1 =>
              \A v \in Vertices : \A b \in BlocksOf(v) : disk[v][b] = Rec(v)

\* That holds in every reachable state.
LEMMA DoneInductive == Spec => []DoneInv
<1>1. Init => DoneInv
  BY DEF Init, DoneInv
<1>2. DoneInv /\ [Next]_vars => DoneInv'
  <2>1. SUFFICES ASSUME DoneInv, [Next]_vars, pc' = "done", SuperPartitions' = 1
                 PROVE  \A v \in Vertices : \A b \in BlocksOf(v)' : disk'[v][b] = Rec(v)'
    BY DEF DoneInv
  <2>2. CASE Final
    <3>1. setting' = setting /\ buf' = buf
      BY <2>2 DEF Final
    <3>2. /\ SuperPartitions = 1
          /\ \A v \in Vertices : BlocksOf(v)' = BlocksOf(v) /\ Rec(v)' = Rec(v)
      BY <2>1, <3>1, SameLayout DEF Rec
    <3>3. disk' = [v \in Vertices |-> [b \in BlocksOf(v) |-> Rec(v)]]
      BY <2>2, <3>2 DEF Final
    <3>4. QED
      BY <3>2, <3>3
  <2>3. CASE UNCHANGED vars
    <3>1. UNCHANGED <<pc, setting, buf, disk>>
      BY <2>3 DEF vars
    <3>2. /\ SuperPartitions = 1
          /\ \A v \in Vertices : BlocksOf(v)' = BlocksOf(v) /\ Rec(v)' = Rec(v)
      BY <2>1, <3>1, SameLayout DEF Rec
    <3>3. QED
      BY <2>1, <3>1, <3>2 DEF DoneInv
  <2>4. ~(Begin \/ Load \/ Gather \/ Check \/ Scatter \/ Store \/ End)
    BY <2>1 DEF Begin, Load, Gather, Check, Scatter, Store, End
  <2>5. QED
    BY <2>1, <2>2, <2>3, <2>4 DEF Next
<1>3. QED
  BY <1>1, <1>2, PTL DEF Spec

\* There are fewer levels than vertices.
LEMMA LevelsAreBounded ==
  ASSUME Search!SearchInv, NEW v \in Search!Discovered
  PROVE  ShownLevel[v] < NumVertices
<1> DEFINE D == Search!Discovered
           levels == {ShownLevel[u] : u \in D}
           l == ShownLevel[v]
           f == [u \in D |-> ShownLevel[u]]
<1>1. 0..l \subseteq levels
  BY SearchParameters, Search!NoLevelIsEmpty
<1>2. l \in Nat
  BY SearchParameters, Search!DiscoveredVertex
<1>3. IsFiniteSet(Vertices) /\ Cardinality(Vertices) = NumVertices
  BY Basics, FS_Interval DEF Vertices
<1>4. D \in SUBSET Vertices
  BY DEF Search!Discovered
<1> HIDE DEF D, l
<1>5. IsFiniteSet(D) /\ Cardinality(D) <= NumVertices /\ Cardinality(D) \in Nat
  BY <1>3, <1>4, FS_Subset, FS_CardinalityType
<1>6. f \in Surjection(D, levels)
  BY DEF Surjection
<1> HIDE DEF levels, f
<1>7. IsFiniteSet(levels) /\ Cardinality(levels) <= Cardinality(D)
  BY <1>5, <1>6, FS_Surjection
<1>8. Cardinality(0..l) = l + 1
  BY <1>2, FS_Interval
<1>9. 0..l \in SUBSET levels
  BY <1>1
<1>10. Cardinality(0..l) <= Cardinality(levels) /\ Cardinality(levels) \in Nat
  BY <1>7, <1>9, FS_Subset, FS_CardinalityType
<1>11. l < NumVertices
  BY <1>2, <1>5, <1>7, <1>8, <1>10, Basics
<1>12. QED
  BY <1>11 DEF l

\* What the stopped search discovered is what the vertex file ends up with.
LEMMA ResultFromSearch ==
  ASSUME IInv, DoneInv, Search!SearchInv
  PROVE  ResultComplete
<1> SUFFICES ASSUME pc = "done", NEW v \in Vertices
             PROVE  LET r == CHOOSE x \in {disk[v][b] : b \in BlocksOf(v)} : TRUE
                    IN /\ {disk[v][b] : b \in BlocksOf(v)} = {r}
                       /\ r.parent # NONE <=> v \in Within[NumVertices]
  BY DEF ResultComplete
<1>1. phase \in Nat /\ phase > 0 /\ setting \in Settings /\ SuperPartitions \in Nat \ {0}
  BY EdgeFiles DEF IInv, Types
<1>2. \A b \in BlocksOf(v) : disk[v][b] = State(v)
  <2>1. InMemory(v) <=> SuperPartitions = 1
    BY DEF InMemory
  <2>2. CASE SuperPartitions = 1
    BY <2>1, <2>2 DEF DoneInv, State
  <2>3. CASE SuperPartitions # 1
    <3>1. SuperPartitions > 1 /\ Inited(v)
      BY <1>1, <2>3 DEF Inited
    <3>2. \A b \in BlocksOf(v) : \A c \in BlocksOf(v) : disk[v][c] = disk[v][b]
      BY <2>1, <2>3, <3>1 DEF IInv, FileInv
    <3>3. \A b \in BlocksOf(v) : LoadedRec(v) = disk[v][b]
      BY <3>2, Whole
    <3>4. QED
      BY <2>1, <2>3, <3>3 DEF State
  <2>4. QED
    BY <2>2, <2>3
<1>3. {disk[v][b] : b \in BlocksOf(v)} = {State(v)}
  BY <1>2 DEF BlocksOf
<1>4. State(v).parent # NONE <=> v \in Within[NumVertices]
  <2>1. Search!Neighbourhoods(Within)
    BY <1>1, WithinChain DEF Search!Neighbourhoods
  <2>2. Over
    BY DEF Over
  <2>3. \A u \in Search!Discovered : ShownLevel[u] < NumVertices
    BY LevelsAreBounded
  <2>4. NumVertices \in Nat
    BY Basics
  <2>5. Within[NumVertices] = Search!Discovered
    BY <2>1, <2>2, <2>3, <2>4, SearchParameters, Search!StoppedIsReachable
  <2>6. ShownParent[v] = State(v).parent
    BY <1>1, BetweenSupersteps
  <2>7. QED
    BY <2>5, <2>6 DEF Search!Discovered
<1>5. QED
  BY <1>3, <1>4

\* After a superstep exactly the vertices nearer than the phase number are
\* discovered, each with its distance as level and a parent one level up that
\* has an edge to it.
THEOREM Levels == Spec => []LevelsExact
<1>1. IInv /\ Search!SearchInv => LevelsExact
  BY LevelsFromSearch
<1>2. QED
  BY <1>1, Inductive, SearchInductive, PTL

\* What ends up in the vertex file is a search tree of everything reachable.
THEOREM Result == Spec => []ResultComplete
<1>1. IInv /\ DoneInv /\ Search!SearchInv => ResultComplete
  BY ResultFromSearch
<1>2. QED
  BY <1>1, Inductive, DoneInductive, SearchInductive, PTL

-----------------------------------------------------------------------------
(* Types and assertions *)

\* The part of the type invariant that the search does not rest on.
Rest ==
    /\ cnt \in Nat
    /\ active \subseteq 0..CachedPartitions - 1
    /\ bitset \subseteq {1} \cup UNION {DOMAIN file[s] : s \in Supers}
    /\ cached \in BOOLEAN /\ asked \in BOOLEAN
    /\ fatal \in {"no", "clear bitset error (in use)!", "Cannot find any set bits!"}
    /\ \A v \in Vertices : disk[v] \in [BlocksOf(v) -> Records]

\* Every vertex has a partition.
LEMMA PartitionType ==
  ASSUME setting \in Settings, NEW v \in Vertices
  PROVE  PartitionOf(v) \in 0..CachedPartitions - 1
BY Basics, EdgeFiles DEF PartitionOf

\* The number of active vertices, padded or not, is a number.
LEMMA CountType ==
  ASSUME Types
  PROVE  Cardinality(Frontier) \in Nat /\ Padded(Cardinality(Frontier)) \in Nat
<1> DEFINE n == Cardinality(Frontier)
<1>1. IsFiniteSet(Vertices) /\ Frontier \in SUBSET Vertices
  BY Basics, FS_Interval DEF Vertices, Frontier, VerticesOf
<1>2. n \in Nat
  BY <1>1, FS_Subset, FS_CardinalityType
<1>3. setting.chipVOnce \in Nat \ {0}
  BY SettingsAssumption DEF Types
<1> HIDE DEF n
<1>4. (n + setting.chipVOnce - 1) \div setting.chipVOnce \in Nat
  BY <1>2, <1>3
<1>5. Padded(n) \in Nat
  BY <1>3, <1>4 DEF Padded
<1>6. QED
  BY <1>2, <1>5 DEF n

\* That holds in every reachable state, too.
LEMMA RestInductive == Spec => []Rest
<1>1. Init => Rest
  <2>1. SUFFICES ASSUME Init PROVE Rest
    OBVIOUS
  <2>2. Blank \in Records
    BY Basics DEF Blank, Records, Vertices
  <2>3. QED
    BY <2>1, <2>2 DEF Init, Rest
<1>2. IInv /\ Rest /\ [Next]_vars => Rest'
  <2>1. SUFFICES ASSUME IInv, Rest, [Next]_vars PROVE Rest'
    OBVIOUS
  <2>2. Types /\ setting \in Settings /\ superp \in Supers
    BY <2>1 DEF IInv, Types
  <2>3. ASSUME setting' = setting
        PROVE  /\ file' = file /\ Supers' = Supers
               /\ \A v \in Vertices : BlocksOf(v)' = BlocksOf(v)
    BY <2>3, SameLayout
  <2>4. \A v \in Vertices : PartitionOf(v) \in 0..CachedPartitions - 1
    BY <2>2, PartitionType
  <2>5. CASE Begin
    BY <2>1, <2>3, <2>5 DEF Begin, Rest
  <2>6. CASE Load
    <3>1. active' \subseteq 0..CachedPartitions - 1
      <4>1. \/ active' = active
            \/ active' = active \cup {PartitionOf(v) : v \in VerticesOf(superp) \cap {Root}}
        BY <2>6 DEF Load
      <4>2. active \subseteq 0..CachedPartitions - 1
        BY <2>1 DEF Rest
      <4>3. \A v \in VerticesOf(superp) \cap {Root} : PartitionOf(v) \in 0..CachedPartitions - 1
        BY <2>4 DEF VerticesOf
      <4>4. QED
        BY <4>1, <4>2, <4>3
    <3>2. UNCHANGED <<setting, disk, asked, bitset, cnt, cached, fatal>>
      BY <2>6 DEF Load
    <3>3. QED
      BY <2>1, <2>3, <3>1, <3>2 DEF Rest
  <2>7. CASE Gather
    <3>1. active' \subseteq 0..CachedPartitions - 1
      <4>1. active' = active \cup {PartitionOf(v) : v \in Reached}
        BY <2>7 DEF Gather
      <4>2. QED
        BY <2>1, <2>4, <4>1 DEF Rest, Reached, VerticesOf
    <3>2. UNCHANGED <<setting, disk, asked, bitset, cnt, cached, fatal>>
      BY <2>7 DEF Gather
    <3>3. QED
      BY <2>1, <2>3, <3>1, <3>2 DEF Rest
  <2>8. CASE Check
    <3>1. cnt' \in Nat
      BY <2>2, <2>8, CountType DEF Check
    <3>2. asked' \in BOOLEAN
      BY <2>8 DEF Check
    <3>3. bitset' \subseteq {1} \cup UNION {DOMAIN file[s] : s \in Supers}
      <4>1. PICK wrong \in SUBSET (DOMAIN file[superp]) :
               bitset' = IF asked' THEN Answer(Frontier, wrong) ELSE {}
        BY <2>8 DEF Check
      <4>2. Hits(Frontier) \subseteq DOMAIN file[superp]
        BY DEF Hits
      <4>3. bitset' \subseteq {1} \cup DOMAIN file[superp]
        BY <4>1, <4>2 DEF Answer
      <4>4. QED
        BY <2>2, <4>3
    <3>4. UNCHANGED <<setting, disk, active, cached, fatal>>
      BY <2>8 DEF Check
    <3>5. QED
      BY <2>1, <2>3, <3>1, <3>2, <3>3, <3>4 DEF Rest
  <2>9. CASE Scatter
    <3>1. UNCHANGED <<setting, disk, asked, active, bitset, cnt>> /\ fatal' = BitsetAssertion
      BY <2>9 DEF Scatter
    <3>2. cached' \in BOOLEAN
      BY <2>9 DEF Scatter
    <3>3. BitsetAssertion \in {"no", "clear bitset error (in use)!", "Cannot find any set bits!"}
      BY DEF BitsetAssertion
    <3>4. QED
      BY <2>1, <2>3, <3>1, <3>2, <3>3 DEF Rest
  <2>10. CASE Store
    <3>1. UNCHANGED <<setting, asked, bitset, cnt, cached, fatal>> /\ active' = {}
      BY <2>10 DEF Store
    <3>2. \A v \in Vertices : disk'[v] \in [BlocksOf(v) -> Records]
      <4>1. CASE SuperPartitions > 1
        <5> DEFINE new == [v \in VerticesOf(superp) |-> [Rec(v) EXCEPT !.changed = FALSE]]
        <5>1. disk' = [v \in Vertices |-> [b \in BlocksOf(v) |->
                 IF SuperOf(v) = superp /\ b \in ChangedBlocks THEN new[v] ELSE disk[v][b]]]
          BY <2>10, <4>1 DEF Store
        <5>2. \A v \in Vertices : SuperOf(v) = superp => new[v] \in Records
          <6>1. \A v \in VerticesOf(superp) : Rec(v) \in Records
            BY <2>2, RecType DEF VerticesOf
          <6>2. \A v \in VerticesOf(superp) : [Rec(v) EXCEPT !.changed = FALSE] \in Records
            BY <6>1 DEF Records
          <6>3. QED
            BY <6>2 DEF VerticesOf
        <5> HIDE DEF new
        <5>3. QED
          BY <2>1, <5>1, <5>2 DEF Rest
      <4>2. CASE ~(SuperPartitions > 1)
        BY <2>1, <2>10, <4>2 DEF Store, Rest
      <4>3. QED
        BY <4>1, <4>2
    <3>3. QED
      BY <2>1, <2>3, <3>1, <3>2 DEF Rest
  <2>11. CASE End
    BY <2>1, <2>3, <2>11 DEF End, Rest
  <2>12. CASE Final
    <3>1. \A v \in Vertices : disk'[v] \in [BlocksOf(v) -> Records]
      <4>1. \A v \in Vertices : Rec(v) \in Records
        BY <2>2, RecType
      <4>2. QED
        BY <2>1, <2>12, <4>1 DEF Final, Rest
    <3>2. UNCHANGED <<setting, active, asked, bitset, cnt, cached, fatal>>
      BY <2>12 DEF Final
    <3>3. QED
      BY <2>1, <2>3, <3>1, <3>2 DEF Rest
  <2>13. CASE UNCHANGED vars
    BY <2>1, <2>3, <2>13 DEF vars, Rest
  <2>14. QED
    BY <2>1, <2>5, <2>6, <2>7, <2>8, <2>9, <2>10, <2>11, <2>12, <2>13 DEF Next
<1>3. QED
  BY <1>1, <1>2, Inductive, PTL DEF Spec

\* Every variable has its type.
THEOREM TypeCorrect == Spec => []TypeOK
<1>1. IInv /\ Rest => TypeOK
  <2>1. SUFFICES ASSUME IInv, Rest PROVE TypeOK
    OBVIOUS
  <2>2. ASSUME NEW s \in Supers, NEW e \in in[s] \cup out[s]
        PROVE  e \in Vertices \X Vertices /\ SuperOf(e[2]) = s
    <3>1. e \in Graph /\ SuperOf(e[2]) = s
      BY <2>1, <2>2 DEF IInv, StreamInv, Sent
    <3>2. QED
      BY <2>1, <3>1, EdgeFiles DEF IInv, Types, Edges
  <2>3. QED
    BY <2>1, <2>2 DEF IInv, Types, Rest, TypeOK, SuperstepPcs
<1>2. QED
  BY <1>1, Inductive, RestInductive, PTL

\* No edge file is empty, and the only one does not fit in a buffer.
FilesOutOfCore ==
    \A o \in Settings : \A s \in DOMAIN o.file :
        Len(o.file[s]) > IF Cardinality(DOMAIN o.file) = 1 THEN BufferPages ELSE 0

AssertionInv == fatal = "no" /\ ~cached /\ (asked /\ pc = "scatter" => bitset # {})

\* No assertion of the streams fails, as long as the graph is larger than the
\* memory buffers; a file that fits in one is the other case, which a run with
\* such files shows.
THEOREM NoAssertion == ASSUME FilesOutOfCore PROVE Spec => []NoAssertionFails
<1>1. Init => AssertionInv
  BY DEF Init, AssertionInv
<1>2. IInv /\ AssertionInv /\ [Next]_vars => AssertionInv'
  <2>1. SUFFICES ASSUME IInv, AssertionInv, [Next]_vars PROVE AssertionInv'
    OBVIOUS
  <2>2. CASE Check
    <3>1. PICK wrong \in SUBSET (DOMAIN file[superp]) :
             bitset' = IF asked' THEN Answer(Frontier, wrong) ELSE {}
      BY <2>2 DEF Check
    <3>2. asked' => bitset' # {}
      BY <3>1 DEF Answer
    <3>3. QED
      BY <2>1, <2>2, <3>2 DEF Check, AssertionInv
  <2>3. CASE Scatter
    <3>1. /\ pc = "scatter" /\ pc' = "store" /\ fatal' = BitsetAssertion
          /\ cached' = (cached \/ /\ SuperPartitions = 1 /\ ~asked
                                  /\ Len(file[superp]) \in 1..BufferPages)
      BY <2>3 DEF Scatter
    <3>2. /\ setting \in Settings /\ superp \in Supers
          /\ file \in [Supers -> Seq(Seq(Edges \cup {TOMBSTONE}))]
      BY <2>1, EdgeFiles DEF IInv, Types
    <3>3. Len(file[superp]) > IF SuperPartitions = 1 THEN BufferPages ELSE 0
      BY <3>2 DEF FilesOutOfCore, file, SuperPartitions
    <3>4. Len(file[superp]) \in Nat /\ BufferPages \in Nat /\ Len(<<>>) = 0
      BY <3>2, Basics
    <3>5. file[superp] # <<>> /\ ~(SuperPartitions = 1 /\ Len(file[superp]) \in 1..BufferPages)
      BY <3>3, <3>4
    <3>6. BitsetAssertion = "no"
      BY <2>1, <3>1, <3>5 DEF BitsetAssertion, AssertionInv
    <3>7. ~cached'
      BY <2>1, <3>1, <3>5 DEF AssertionInv
    <3>8. QED
      BY <3>1, <3>6, <3>7 DEF AssertionInv
  <2>4. ASSUME Begin \/ Load \/ Gather \/ Store \/ End \/ Final \/ UNCHANGED vars
        PROVE  UNCHANGED <<fatal, cached, asked, bitset>> /\ (pc' = "scatter" => pc = "scatter")
    BY <2>4 DEF Begin, Load, Gather, Store, End, Final, vars
  <2>5. QED
    BY <2>1, <2>2, <2>3, <2>4 DEF Next, AssertionInv
<1>3. AssertionInv => NoAssertionFails
  BY DEF AssertionInv, NoAssertionFails
<1>4. QED
  BY <1>1, <1>2, <1>3, Inductive, PTL DEF Spec

\* All that the runs check of the driver in every state.
THEOREM DriverInvariant == ASSUME FilesOutOfCore PROVE Spec => []DriverInv
<1>1. TypeOK /\ LevelsExact /\ ResultComplete /\ FilterMatchesFrontier /\ NoAssertionFails
        => DriverInv
  BY DEF DriverInv
<1>2. QED
  BY <1>1, TypeCorrect, Levels, Result, FilterIsFrontier, NoAssertion, PTL
====
