------------------------------- MODULE Layout -------------------------------
(* How data is laid out between the disk and the workers.  A run chooses its *)
(* partitions and buffers (core/autotuner.hpp), reads the pages of the edge  *)
(* file that the bloom filters left (core/disk_io.hpp), splits every buffer  *)
(* by cached partition and the updates it caused by super partition          *)
(* (core/split_stream.hpp, core/x-splitter.hpp), and writes back the blocks  *)
(* of the vertex state that changed.                                         *)
(*                                                                           *)
(* The processors take the passes of the splitter in any order, the disk     *)
(* completes requests in any order.  A buffer is read while no other one is  *)
(* in use: the read-ahead is in DiskStream.  The auxiliary buffer and index  *)
(* are shared by all buffers, and only the splitter itself empties them.     *)
EXTENDS Mapping, Splitter, PageAccess

CONSTANTS Machines,             \* the configurations to start from
          BlockSize,            \* the 512 bytes written at once
          FileBytes,            \* items of the edge file
          Src(_), Dest(_)       \* the vertices of an edge

ASSUME FileAssumption ==
    /\ {FileBytes, BlockSize} \subseteq Nat \ {0}
    /\ \A e \in 1..FileBytes : Src(e) \in Nat /\ Dest(e) \in Nat

VARIABLES c,                    \* struct configuration
          stage,                \* the step of the main thread
          bits, reader,         \* random_bitset, and the stream that is read with it
          bufs, cur,            \* the memory buffers and the one at work
          aux,                  \* aux_buffer and aux_index
          pc, split,            \* per processor: its place in make_index, and its pass
          got,                  \* history: what the partitions of each buffer were given
          dirty, state, stateFile, writer, \* ver_buf_chg, and the vertex state's blocks
                                \* in memory and on disk: have they changed?
          fatal                 \* the assertion that failed, or "no"

tuneVars == <<c>>
readVars == <<bits, reader>>
splitVars == <<bufs, cur, aux, pc, split, got>>
storeVars == <<dirty, state, stateFile, writer>>
vars == <<tuneVars, stage, readVars, splitVars, storeVars, fatal>>

Edges == 1..FileBytes
Pages == 0..(FileBytes - 1) \div SubBufSize
Processors == 0..c.processors - 1
Partitions == 0..Max({c.cached, c.supers}) - 1
NumBlocks == StateSize(c) \div BlockSize   \* BlockSize divides DiskPageSize
Blocks == 0..NumBlocks - 1

Entries(b) == IF b = "in" THEN c.cached ELSE c.supers
PartitionOf(b, e) == IF e = 0 THEN 0
                     ELSE IF b = "in" THEN MapCached(c, Src(e)) ELSE MapSuper(c, Dest(e))

EmptyIndex == [k \in Partitions |-> 0]
EmptyBuffer == [data |-> [x \in 1..BufferSize(c) |-> 0], size |-> 0, indexed |-> FALSE, queue |-> {},
                index |-> [p \in Processors |-> EmptyIndex], per |-> [p \in Processors |-> 0]]
NoReader == [pos |-> NONE, processed |-> 0, eof |-> FALSE, inflight |-> {}, error |-> "no"]
NoWriter == [pos |-> NONE, inflight |-> {}]

Init ==
    /\ c \in Machines /\ stage = "tune"
    /\ bits = {} /\ reader = NoReader
    /\ bufs = [b \in {} |-> 0] /\ cur = "in" /\ aux = <<>>
    /\ pc = [p \in Processors |-> "idle"] /\ split = [p \in Processors |-> <<>>]
    /\ got = [b \in {"in", "out"} |-> [k \in 0..c.vertices |-> <<>>]]
    /\ dirty = {} /\ state = <<>> /\ stateFile = <<>> /\ writer = NoWriter
    /\ fatal = "no"

At(s) == stage = s /\ fatal = "no"

-----------------------------------------------------------------------------
(* make_config: the partitions and buffers *)

Manual ==
    /\ At("tune") /\ ~c.auto
    /\ c' = [c EXCEPT !.streamUnit = OptimumStreamUnit]
    /\ stage' = IF 10 * RamBudget(c') > 9 * c.ram THEN "exit" ELSE "check"
    /\ UNCHANGED <<readVars, splitVars, storeVars, fatal>>

StartTuning ==
    /\ At("tune") /\ c.auto
    /\ c' = SetCache([c EXCEPT !.streamUnit = OptimumStreamUnit], TotalPartitions(c), 1)
    /\ stage' = "try"
    /\ UNCHANGED <<readVars, splitVars, storeVars, fatal>>

\* More super partitions, for smaller vertex state.
TryNext ==
    /\ At("try") /\ ~Accepted(c) /\ 2 * c.supers <= TotalPartitions(c)
    /\ c' = SetCache(c, TotalPartitions(c), 2 * c.supers)
    /\ UNCHANGED <<stage, readVars, splitVars, storeVars, fatal>>

\* Then smaller stream units.
TrySmaller ==
    /\ At("try") /\ ~Accepted(c) /\ 2 * c.supers > TotalPartitions(c)
    /\ LET unit == c.streamUnit \div 2
       IN IF unit > DiskPageSize
          THEN /\ c' = SetCache([c EXCEPT !.streamUnit = unit], TotalPartitions(c), 1)
               /\ UNCHANGED stage
          ELSE stage' = "exit" /\ UNCHANGED c
    /\ UNCHANGED <<readVars, splitVars, storeVars, fatal>>

Tuned ==
    /\ At("try") /\ Accepted(c)
    /\ stage' = "check"
    /\ UNCHANGED <<tuneVars, readVars, splitVars, storeVars, fatal>>

\* check_pow_2, and the buffers.
Check ==
    /\ At("check")
    /\ IF \A n \in {c.supers, c.cached, c.processors} : IsPowerOf2(n)
       THEN /\ stage' = "open"
            /\ bufs' = [b \in {"in", "out"} |-> EmptyBuffer]
            /\ aux' = [data |-> EmptyBuffer.data, index |-> EmptyBuffer.index]
       ELSE stage' = "exit" /\ UNCHANGED <<bufs, aux>>
    /\ UNCHANGED <<tuneVars, readVars, cur, pc, split, got, storeVars, fatal>>

-----------------------------------------------------------------------------
(* Reading the pages *)

\* set_bitset
Open ==
    /\ At("open")
    /\ bits' \in SUBSET Pages \ {{}}
    /\ reader' = [NoReader EXCEPT !.pos = FindFirst(bits')]
    /\ stage' = "read"
    /\ UNCHANGED <<tuneVars, splitVars, storeVars, fatal>>

\* random_read_operator, for the next buffer.
StartRead ==
    /\ At("read")
    /\ cur' = "in"
    /\ reader' = SubmitReads(reader, bits, BufferSize(c), FileBytes)
    /\ fatal' = IF BufferSize(c) % SubBufSize # 0 THEN "Buffer is multiple of sub buffer."
                ELSE reader'.error
    /\ stage' = "reading"
    /\ UNCHANGED <<tuneVars, bits, bufs, aux, pc, split, got, storeVars>>

\* A request is done; the next run of pages takes its place.
CompleteRead(r) ==
    /\ At("reading")
    /\ bufs' = [bufs EXCEPT !["in"].data =
                  [x \in DOMAIN @ |-> IF x \in r.at + 1..r.at + r.length
                                      THEN r.offset + x - r.at ELSE @[x]]]
    /\ reader' = ReadMore([reader EXCEPT !.inflight = @ \ {r}], bits, BufferSize(c), FileBytes)
    /\ fatal' = reader'.error
    /\ UNCHANGED <<tuneVars, stage, bits, cur, aux, pc, split, got, storeVars>>

\* All requests are done: the workers index the buffer.
StartIndex == pc' = [p \in Processors |-> "slice"] /\ stage' = "index"

\* Mutant of EndRead: one request may still be open.
EndReadEarly ==
    /\ At("reading") /\ Cardinality(reader.inflight) <= 1
    /\ bufs' = [bufs EXCEPT !["in"].size = reader.processed]
    /\ StartIndex
    /\ UNCHANGED <<tuneVars, readVars, cur, aux, split, got, storeVars, fatal>>

EndRead ==
    /\ At("reading") /\ reader.inflight = {}
    /\ bufs' = [bufs EXCEPT !["in"].size = reader.processed]
    /\ StartIndex
    /\ UNCHANGED <<tuneVars, readVars, cur, aux, split, got, storeVars, fatal>>

-----------------------------------------------------------------------------
(* make_index, by every processor; a barrier after each part *)

Buf == bufs[cur]

\* reset_index, and the processor's share of the items; the last takes the rest.
Slice(p) ==
    /\ At("index") /\ pc[p] = "slice"
    /\ LET share == Buf.size \div c.processors
           rest == IF p = c.processors - 1 THEN Buf.size % c.processors ELSE 0
       IN bufs' = [bufs EXCEPT
            ![cur].per[p] = share + rest,
            ![cur].index[p] = [k \in Partitions |-> IF k = 0 THEN share * p ELSE 0],
            ![cur].queue = {k \in @ : k % c.processors # p}]
    /\ split' = [split EXCEPT ![p] = SplitStart(c.fanout, Entries(cur))]
    /\ pc' = [pc EXCEPT ![p] = "split"]
    /\ UNCHANGED <<tuneVars, stage, readVars, cur, aux, got, storeVars, fatal>>

SlicesMade == \A p \in Processors : pc[p] # "slice"
SplitterAt(p) == At("index") /\ pc[p] = "split" /\ SlicesMade
ItemKey == [e \in 0..FileBytes |-> PartitionOf(cur, e)]

\* A single partition: the slice stays where it is.
SplitNothing(p) ==
    /\ SplitterAt(p) /\ Entries(cur) = 1
    /\ bufs' = [bufs EXCEPT ![cur].queue = @ \cup IF Buf.per[p] > 0 THEN {0} ELSE {}]
    /\ pc' = [pc EXCEPT ![p] = "swap"]
    /\ UNCHANGED <<tuneVars, stage, readVars, cur, aux, split, got, storeVars, fatal>>

\* Mutant of SplitPass: the index that was read is not emptied.
SplitPassKeepsIndex(p) ==
    /\ SplitterAt(p) /\ Entries(cur) > 1 /\ ~c.qsort
    /\ LET s == NextPass(split[p])
           areas == <<[data |-> Buf.data, index |-> Buf.index[p]],
                      [data |-> aux.data, index |-> aux.index[p]]>>
           from == areas[s.input + 1]
           after == Pass(from, areas[2 - s.input], s, Buf.per[p], ItemKey)
           new == IF s.input = 0 THEN <<from, after.dst>> ELSE <<after.dst, from>>
           last == s.numIn * s.fan = Entries(cur)
       IN /\ bufs' = [bufs EXCEPT ![cur].data = new[1].data, ![cur].index[p] = new[1].index,
                                  ![cur].queue = @ \cup IF last THEN after.filled ELSE {}]
          /\ aux' = [data |-> new[2].data, index |-> [aux.index EXCEPT ![p] = new[2].index]]
          /\ split' = [split EXCEPT ![p] = [s EXCEPT !.numIn = @ * s.fan, !.input = 1 - @]]
          /\ fatal' = IF s.numIn * s.fan > Entries(cur) THEN "Shift error!"
                      ELSE IF last /\ s.shift # 0 THEN "BUG: shift is not zero." ELSE "no"
          /\ pc' = [pc EXCEPT ![p] = IF last THEN "swap" ELSE "split"]
    /\ UNCHANGED <<tuneVars, stage, readVars, cur, got, storeVars>>

\* One pass of x_split between the buffer and the auxiliary one.
SplitPass(p) ==
    /\ SplitterAt(p) /\ Entries(cur) > 1 /\ ~c.qsort
    /\ LET s == NextPass(split[p])
           areas == <<[data |-> Buf.data, index |-> Buf.index[p]],
                      [data |-> aux.data, index |-> aux.index[p]]>>
           after == Pass(areas[s.input + 1], areas[2 - s.input], s, Buf.per[p], ItemKey)
           new == IF s.input = 0 THEN <<after.src, after.dst>> ELSE <<after.dst, after.src>>
           last == s.numIn * s.fan = Entries(cur)
       IN /\ bufs' = [bufs EXCEPT ![cur].data = new[1].data, ![cur].index[p] = new[1].index,
                                  ![cur].queue = @ \cup IF last THEN after.filled ELSE {}]
          /\ aux' = [data |-> new[2].data, index |-> [aux.index EXCEPT ![p] = new[2].index]]
          /\ split' = [split EXCEPT ![p] = [s EXCEPT !.numIn = @ * s.fan, !.input = 1 - @]]
          /\ fatal' = IF s.numIn * s.fan > Entries(cur) THEN "Shift error!"
                      ELSE IF last /\ s.shift # 0 THEN "BUG: shift is not zero." ELSE "no"
          /\ pc' = [pc EXCEPT ![p] = IF last THEN "swap" ELSE "split"]
    /\ UNCHANGED <<tuneVars, stage, readVars, cur, got, storeVars>>

\* x_split_qsort
SplitSort(p) ==
    /\ SplitterAt(p) /\ Entries(cur) > 1 /\ c.qsort
    /\ LET area == [data |-> Buf.data, index |-> Buf.index[p]]
       IN \E q \in SortedSlices(area, Buf.per[p], ItemKey) :
            LET after == Sort(area, Buf.per[p], q, Entries(cur), ItemKey)
            IN bufs' = [bufs EXCEPT ![cur].data = after.area.data, ![cur].index[p] = after.area.index,
                                    ![cur].queue = @ \cup after.filled]
    /\ pc' = [pc EXCEPT ![p] = "swap"]
    /\ UNCHANGED <<tuneVars, stage, readVars, cur, aux, split, got, storeVars, fatal>>

\* Between the last two barriers processor 0 swaps the buffer with the
\* auxiliary one if that is where the items are.
Publish ==
    /\ At("index") /\ \A p \in Processors : pc[p] = "swap"
    /\ LET twizzle == split[0].input = 1
       IN /\ bufs' = [bufs EXCEPT ![cur].indexed = TRUE,
                                  ![cur].data = IF twizzle THEN aux.data ELSE @,
                                  ![cur].index = IF twizzle THEN aux.index ELSE @]
          /\ aux' = IF twizzle THEN [data |-> Buf.data, index |-> Buf.index] ELSE aux
    /\ pc' = [p \in Processors |-> "idle"]
    /\ stage' = "stream"
    /\ UNCHANGED <<tuneVars, readVars, cur, split, got, storeVars, fatal>>

-----------------------------------------------------------------------------
(* Using the buffer *)

\* A partition of the work queue is processed: its part of every slice.
Stream(k) ==
    /\ At("stream")
    /\ bufs' = [bufs EXCEPT ![cur].queue = @ \ {k}]
    /\ got' = [got EXCEPT ![cur][k] = @ \o FlattenSeq([i \in 1..c.processors |->
                 Substream(Buf.data, Buf.index[i - 1], Buf.per[i - 1], k, Entries(cur))])]
    /\ UNCHANGED <<tuneVars, stage, readVars, cur, aux, pc, split, storeVars, fatal>>

\* set_refcount(0)
Freed(buffer) == [buffer EXCEPT !.indexed = FALSE, !.queue = {}, !.size = 0,
                                !.index = [p \in Processors |-> EmptyIndex],
                                !.per = [p \in Processors |-> 0]]

\* The updates the edges of the buffer caused fill an output buffer.
Emit ==
    /\ At("stream") /\ Buf.queue = {} /\ cur = "in"
    /\ LET n == bufs["in"].size
       IN bufs' = [bufs EXCEPT
            !["in"] = Freed(@), !["out"].size = n,
            !["out"].data = [x \in DOMAIN @ |-> IF x <= n THEN bufs["in"].data[n + 1 - x] ELSE @[x]]]
    /\ cur' = "out"
    /\ StartIndex
    /\ UNCHANGED <<tuneVars, readVars, aux, split, got, storeVars, fatal>>

\* Mutant of NextBuffer: the scan ends with the first buffer.
NextBufferNever ==
    /\ At("stream") /\ Buf.queue = {} /\ cur = "out"
    /\ bufs' = [bufs EXCEPT !["out"] = Freed(@)]
    /\ stage' = "close"
    /\ UNCHANGED <<tuneVars, readVars, cur, aux, pc, split, got, storeVars, fatal>>

\* stream_eof: the read operator put disk_pos at the end with the last page.
NextBuffer ==
    /\ At("stream") /\ Buf.queue = {} /\ cur = "out"
    /\ bufs' = [bufs EXCEPT !["out"] = Freed(@)]
    /\ stage' = IF reader.eof THEN "close" ELSE "read"
    /\ UNCHANGED <<tuneVars, readVars, cur, aux, pc, split, got, storeVars, fatal>>

\* clear_bitset
Close ==
    /\ At("close")
    /\ fatal' = IF reader.pos = NONE THEN "no" ELSE "clear bitset error (in use)!"
    /\ stage' = IF c.supers > 1 THEN "store" ELSE "done"
    /\ UNCHANGED <<tuneVars, readVars, splitVars, storeVars>>

-----------------------------------------------------------------------------
(* Storing the vertex state: the blocks marked in ver_buf_chg, and the first *)

StartStore ==
    /\ At("store")
    /\ \E changed \in SUBSET Blocks :
         /\ state' = [k \in Blocks |-> k \in changed]
         /\ dirty' = changed \cup {0}
    /\ stateFile' = [k \in Blocks |-> FALSE]
    /\ writer' = SubmitWrites([NoWriter EXCEPT !.pos = FindFirst(dirty')], dirty', NumBlocks)
    /\ stage' = "storing"
    /\ UNCHANGED <<tuneVars, readVars, splitVars, fatal>>

CompleteWrite(w) ==
    /\ At("storing")
    /\ stateFile' = [k \in Blocks |-> IF k \in w.offset..w.offset + w.length - 1
                                      THEN state[k] ELSE stateFile[k]]
    /\ writer' = WriteMore([writer EXCEPT !.inflight = @ \ {w}], dirty, NumBlocks)
    /\ UNCHANGED <<tuneVars, stage, readVars, splitVars, dirty, state, fatal>>

EndStore ==
    /\ At("storing") /\ writer.inflight = {}
    /\ fatal' = IF writer.pos = NONE THEN "no" ELSE "clear bitset error (in use)!"
    /\ stage' = "done"
    /\ UNCHANGED <<tuneVars, readVars, splitVars, storeVars>>

Next ==
    \/ Manual \/ StartTuning \/ TryNext \/ TrySmaller \/ Tuned \/ Check
    \/ Open \/ StartRead \/ (\E r \in reader.inflight : CompleteRead(r)) \/ EndRead
    \/ \E p \in Processors : Slice(p) \/ SplitNothing(p) \/ SplitPass(p) \/ SplitSort(p)
    \/ Publish \/ (At("stream") /\ \E k \in Buf.queue : Stream(k)) \/ Emit \/ NextBuffer \/ Close
    \/ StartStore \/ (\E w \in writer.inflight : CompleteWrite(w)) \/ EndStore

\* Every thread that can take a step takes it, and the disk serves every request.
Spec == Init /\ [][Next]_vars /\ WF_vars(Next)

-----------------------------------------------------------------------------

TypeOK ==
    /\ stage \in {"tune", "try", "check", "open", "read", "reading", "index", "stream", "close",
                  "store", "storing", "done", "exit"}
    /\ bits \subseteq Pages /\ dirty \subseteq Nat
    /\ reader.pos \in Pages \cup {NONE} /\ reader.processed \in Nat
    /\ \A r \in reader.inflight : r.length > 0 /\ r.at + r.length <= BufferSize(c)
    /\ DOMAIN bufs \in {{}, {"in", "out"}} /\ cur \in {"in", "out"}
    /\ \A b \in DOMAIN bufs : bufs[b].size <= BufferSize(c) /\ bufs[b].queue \subseteq Partitions
    /\ pc \in [Processors -> {"idle", "slice", "split", "swap"}]

\* Every vertex has a place of its own in the state buffer of its super
\* partition, where state_prepare puts its partition: the mapping and its
\* inverse, the number of states of a partition and the start of each agree
\* (autotuner.hpp:85 and :156, x-lib.hpp:526).
MappingExact ==
    stage = "open" =>
        LET place(v) == [superp |-> MapSuper(c, v), at |->
                StateIndex(c, MapSuper(c, v), MapCached(c, v)) + c.vertexSize * MapOffset(c, v)]
        IN /\ PowersOfTwo(c)
           /\ \A v \in 0..c.vertices - 1 :
                /\ MapInverse(c, MapSuper(c, v), MapCached(c, v), MapOffset(c, v)) = v
                /\ MapOffset(c, v) < StateCount(c, MapSuper(c, v), MapCached(c, v))
           /\ Cardinality({place(v) : v \in 0..c.vertices - 1}) = c.vertices

\* An indexed buffer is what make_index promises: the substreams of a partition
\* hold the buffer's items of that partition and no other, the work queues hold
\* the partitions that have any, and the auxiliary index is left empty for the
\* next buffer, however many passes there were (x-splitter.hpp:105,
\* split_stream.hpp:233).
IndexExact ==
    (stage = "stream" /\ fatal = "no") =>
        LET part(p, k) == Substream(Buf.data, Buf.index[p], Buf.per[p], k, Entries(cur))
            all(k) == UNION {ToSet(part(p, k)) : p \in Processors}
        IN /\ \A k \in 0..Entries(cur) - 1 : \A e \in all(k) : PartitionOf(cur, e) = k
           /\ UNION {all(k) : k \in 0..Entries(cur) - 1} = ToSet(SubSeq(Buf.data, 1, Buf.size))
           /\ aux.index = [p \in Processors |-> EmptyIndex]

\* The scan of the set pages gives every edge on them to the partition of its
\* source exactly once, and its update to the super partition of its
\* destination, however the pages fall into runs, requests and buffers and in
\* whatever order requests complete (disk_io.hpp:215 and :243).
EachEdgeOnce ==
    stage \in {"store", "done"} =>
        \A b \in {"in", "out"}, e \in Edges :
            LET times(k) == Cardinality({i \in DOMAIN got[b][k] : got[b][k][i] = e})
                wanted == (e - 1) \div SubBufSize \in bits
            IN \A k \in 0..Entries(b) - 1 :
                 times(k) = IF wanted /\ k = PartitionOf(b, e) THEN 1 ELSE 0

\* After a store the file has every block of the vertex state that changed: the
\* runs of dirty blocks are written whole, in whatever order
\* (disk_io.hpp:470 and :485).
StateStored == (stage = "done" /\ c.supers > 1) => stateFile = state

\* No assertion of the code fails: runs fit the buffer and the file, the fan
\* out of the last pass fits the bits that are left, and a scan or a store
\* leaves no set bit behind (disk_io.hpp:220, x-splitter.hpp:150,
\* split_stream.hpp:575).
NoAssertionFails == fatal = "no"

\* The tuning finds a configuration or gives up, and a run comes to its end:
\* every pass of the splitter gets nearer to the partitions asked for, and
\* every set bit is read or written (autotuner.hpp:181, x-splitter.hpp:143,
\* disk_io.hpp:265).
PipelineEnds == <>(stage \in {"done", "exit"})

\* The mapping is exact for every configuration that is chosen, and no assertion fails.
LayoutInv == TypeOK /\ MappingExact /\ NoAssertionFails
=============================================================================
