# MBFGraph: verification project

MBFGraph is an out-of-core graph engine for SSDs: X-Stream's scatter-gather engine, in
which a file of small Bloom filters, one per page of edges, tells which pages of the
edge file can hold an edge of an active vertex, so that a superstep reads only those.
This directory holds TLA+ modules that model the engine, the TLC configurations that
check them and the TLAPS proofs about them.

## 1. Inventory

| Component | State it keeps | Operations | Talks to |
|---|---|---|---|
| Worker barrier, `utils/barrier.h` | two counts, the sense | `wait` | every collective step of the workers |
| Partition queues, `core/x-splitter.hpp` `filter` | linked work items, visible copies | `q`, `prep_dq`, `dq`, `done` | workers; one per memory buffer and the scatter filter |
| Splitter, `core/x-splitter.hpp`, `make_index` | index arrays, aux buffer | radix split or quicksort of a buffer by partition | workers, barrier |
| Worker output protocol, `core/x-lib.hpp` `work` | shared output buffer, its fill, loopback buffer | `append_buffer`, `flush_buffer`, `final_flush` | barrier, buffer pool, `disk_stream::append` |
| Buffer pool, `core/split_stream.hpp` | reference counts, dirty/uptodate flags | `get_buffer`, `set_refcount`, `wait_uptodate` | streams, workers, I/O thread |
| Disk streams, `core/split_stream.hpp` `disk_stream` | per file position and size, request, cache, bitset | `append`, `read`, `rewind`, `reset`, `ingest`, one-shot load and store, `set_bitset` | main thread, ioq |
| I/O threads, `core/core.cpp` `ioq`, `core/disk_io.hpp` | list of streams with work, page carry, flip buffers | read, random read, write, random write, flush, deflate, inflate | streams, files |
| Superstep driver, `core/sg_driver.hpp` | phase, votes, scatter filter, page bitset, changed blocks | gather, Bloom query, scatter, state load and store, termination | everything above, the program |
| Bloom index, `core/sg_driver.hpp` | one file of transposed filters per edge file | create, update, verify, use, query | edge files, driver |
| Partition mapping and tuning, `core/autotuner.hpp` | partition counts, shifts, buffer sizes | `map_*`, `state_count`, `autotune`, `manual` | all |
| Vertex programs, `algorithms/*` | per vertex state, per processor counts | `init`, `apply_one_update`, `generate_update`, `check_bsp` | callbacks of the three drivers |
| Asynchronous and Python driver, `core/sg_driver_async.hpp`, `core/sg_driver_python.hpp` | as the driver, with loopback; Python objects | as the driver, without the index | workers |
| Programs on the streams, `algorithms/{mcst,scc,bc,triangles,belief_propagation}`, `cc_online`, `reverse` | vertex state, several streams | lists of passes over streams and state | streams, workers |
| Ingest, `core/x-ingest.hpp`, `utils/feeder.cpp` | shared memory segment | hand over of new edges | `cc_online` |
| Edge deletion and purging, `update_utility` | edge file with tombstones | delete page, purge | the edge file |
| External sort, `update_utility/MBFSort` | sorted runs, block streams, worker threads | generate, split, merge, check | files |
| HDFS, bitshuffle, generators, format converters | | | not part of the core |

What is hard in it: the workers run in lock step on a spinning barrier but fill the
shared buffer without locks; the main thread and the I/O thread share a stream's fields
without a lock and signal each other by plain flags; four buffers serve all streams; a
file's tail lives in a page in memory until a flush; the superstep reads only pages the
filters name, stores only vertex blocks that changed, and stops by a vote.

The properties that make each part correct:

- *barrier*: nobody leaves round k before everybody has come to it; everybody leaves it;
- *partition queues*: between two barriers every queued partition is handed out exactly
  once, whoever queued it and whoever steals it;
- *worker output*: every update reaches its file exactly once; the threads' barriers match;
  buffers suffice; the protocol ends;
- *streams and I/O*: what was appended is read back, once and in order; a stream is in the
  work queue at most once; a buffer is not reused while the I/O thread has it; no wait is
  for ever (section 2 says where two plain stores can break this);
- *driver*: the result is that of the algorithm without index, loading and storing;
- *layout*: a vertex has one place and a place one vertex; a split buffer holds the same items,
  each in its partition; every selected page is read once and every changed block written;
- *programs*: each computes what it is for, however updates are ordered, partitioned and looped back;
- *ingest*: no batch is lost between the feeder, the scan and the stream;
- *index*: no page with an edge of an asked vertex is left out, after any sequence of
  builds, updates, deletions and purges (section 2 has the two histories in which the code does not keep this);
- *external sort*: the output is the sorted input, and a crash loses nothing that was on disk.

## 2. Modules

A component is one module, or several where its operators are used by others; an MC module
gives it small inputs where a definition is needed, and a configuration its constants.
Definitions after a comment "Mutant of X" are plausible faults of X, kept to show that the
properties can fail; nothing else uses them.

```
AbstractBarrier <-refined by- Barrier  <-proved in- BarrierProofs
                                 | one step "everybody moves on" (refinement)
                 Filter          v        Filter <-proved in- FilterProofs
                   | one thread per partition
                   +--------->  Work <-proved in- WorkProofs    every update once
                                 |
Mapping, Splitter, PageAccess -> Layout   the place of every item, page and block
   ^-proved about in OperatorProofs
                                 v
AbstractBFS     <-refined by-  SGDriver <-- DiskStream <-proved in- DiskStreamProofs  (files as their contents)
   ^-proved about in             | ^-proved in     CompressedStream  (its compressed variant)
     AbstractBFSProofs           ^   SGDriverProofs
                               BloomIndex <-proved in- BloomIndexProofs
                                  (a query names at least the pages that matter)

HyperLogLog -> VertexPrograms -> Programs   the other programs on the three drivers
   ^-proved about in OperatorProofs
StreamCallbacks -> Mcst, Scc, Betweenness, Triangles, BeliefPropagation,
                   OnlineComponents -> Standalone   the programs on the streams
ExternalSort    the threads of MBFSort's sort
BlockStreams -> SortTool   the programs around it
```

The state of the whole engine is far too large for one module. The composition is by
abstraction: what one module shows is one step of the module above it, as listed here.

| Abstraction in | of | shown by |
|---|---|---|
| `Work.BarrierOpens`, `Filter.Go`: all waiting threads move on together | `x_barrier::wait` | `ImplementsAbstractBarrier`, theorem `Refinement` |
| `SGDriver.Gather`, `Scatter`: each partition is processed once | `filter` | theorems `FilterSafety`, `NothingLeftBehind` |
| `SGDriver`: an update is in exactly one file after a phase | `work` | theorem `UpdatesOnce` |
| `SGDriver.buf`, `disk`, `in`, `out`: a file is the sequence written to it | `disk_stream`, `disk_io` | theorems `ScansDeliver`, `StreamIsSafe`, until the main thread overtakes the I/O thread |
| `SGDriver.Ask`: a query names all pages with an active source, and any others | the index | theorem `NoPageMissedAlways`, but for the two histories it excepts |
| `SGDriver.Scatter`: the pages asked for are read, each edge once | random reads | `Layout.EachEdgeOnce` |
| `SGDriver.Store`: changed blocks are in the file | random writes | `Layout.StateStored` |
| `Work`, `Filter`: `make_index` sorts a buffer in one step | `x_split` | `Layout.IndexExact` |
| `SGDriver`, `Programs`, `Standalone`: a vertex is a key of a function | `map_*`, `state_count` | theorems `PlaceOfVertex`, `VertexAtPlace`, `StateCountExact` |
| `Programs`, `Standalone`: an update or item in a stream is read once | all of the above | |

### Barrier, AbstractBarrier, BarrierProofs (`utils/barrier.h`)

`x_barrier::wait`, one action per access to shared memory: read the sense (`ReadSense`),
fetch-and-add of the count it names (`Arrive`), and for the last thread the store of the new
sense (`Flip`) and of the count (`Reset`), for the others the spin (`Leave`). `round[t]`
counts a thread's finished calls; `AbstractBarrier` is the same as one atomic arrival and a
departure that is enabled once everybody arrived. `sense` is 0 or 1, `count` has two
entries, as in the code.

### Filter (`core/x-splitter.hpp`, `filter`)

Each compare-and-swap, and each read whose value it uses, is a step of its own: `Claim`,
`Link`, `Push` for `q`; `PrepDq`; `Avail`, `ReadNext`, `Pop` for `dq` with its stealing order;
`Done`. The phases are those of `make_index` and `work::operator()`, with a barrier between
them. Ghost variables: `queued`, `given`, `pass`.

### Work (`core/x-lib.hpp`, `work`)

`execute_callback` produces updates in portions of at most `OutMax` (`Emit`); `append_buffer`
is `Reserve`, `Claim`, `Copy`; `flush_buffer` is `Test` to `Release`, with one label per
barrier wait, `Slice` and `ToCurrent` for the positions of the buffer that a thread loops back
(`Substream` is what it copies from them), and `final_flush` is `Return`, `EnterFinalFlush` and `FreeOut`. Around it: the buffer pool's
reference counts, `disk_stream::append` with its cache and its request, and the I/O thread's
write (`IOWrite`). `make_index` sorts in one step.

### DiskStream (`core/split_stream.hpp`, `core/disk_io.hpp`, `core/core.cpp`)

The main thread is a program counter over the places where it waits; the I/O thread takes a
stream from the queue, serves the request and announces the end. The shared fields
(`request`, `uptodate`, `dirty`, `refcount`, `flushComplete`, `eofFlag`) are variables of the
module. `disk` has the file, its offset and the page in memory that carries the part of a
page a write or read left over: appends that start inside a page continue it, the last page is
written by a flush only. `BufferSize` is not a multiple of `PageSize`, as a buffer of updates
is not one of disk pages.

The I/O thread announces the end of a write by several plain stores: `uptodate`, once more
`uptodate` after a one-shot write (disk_io.hpp:558 and 612), `flush_complete` (613). `DoWrite`,
`DoFlush` and `DoWriteOneShot` make the first store and leave the thread `late`, `FinishWrite` makes the others, and the
main thread may do anything in between. It is scheduled with a real-time policy (core.cpp:52)
which makes that rare but does not exclude it. The history variable `overtaken` records that
the main thread, in between, asked for a flush or a one-shot request or, in `rewind`, dropped one
(`Overtakes`): what the thread still stores is then taken for the answer to the new request. From
there on the code loses data or waits for ever, so the properties that fail are stated up to that point,
and the runs and theorems show that no other interleaving breaks them.

A stream of kind `ingested` starts empty; `Ingest` fills a buffer of its own from the shared
segment and `merge_ingest` puts it behind the stream after the next scan: into the cached
buffer as far as it fits (`MergeCached`, from the end of the batch, so the order is not kept),
behind the spilled cache (`MergeSpilled`), or behind the last page of the file (`MergeOnDisk`,
`ToEnd`).

### Mapping, Splitter, PageAccess, Layout (`core/autotuner.hpp`, `core/x-splitter.hpp`, `core/disk_io.hpp`)

`Mapping` has the conversions between vertices and places, the RAM budget and the search for
partition counts, as operators on a configuration. `Splitter` is one pass of the radix sort
of a slice (`Pass`), and the quicksort in place. `PageAccess` finds the next run of set bits and makes it a
request, cut at the end of the buffer or file. `Layout` is the pipeline they are used in: the
configuration is tuned step by step (`StartTuning`, `TryNext`, `TrySmaller`, or `Manual`); a bitset is given,
its pages are read by requests that complete in any order (`StartRead`, `CompleteRead`); every processor
splits its slice, pass by pass and each at its own pace (`Slice`, `SplitPass`, `SplitSort`), until
`Publish`; the partitions are handed out (`Stream`); the updates of the buffer are split
by super partition in the same way; the dirty blocks of the vertex state are written
(`StartStore`, `CompleteWrite`). The passes write to the shared auxiliary buffer, where the
slices do not overlap.

### CompressedStream (`core/disk_io.hpp`, `core/split_stream.hpp`, `utils/memory_utils.h`)

The stream with `compressed_io`: the I/O thread deflates what is appended to a unit of the file
(`Squeeze`, `WriteUnit`), a rewind finishes it (`Flush`), reads inflate from the flip buffer that is
full while the other one is filled by asynchronous I/O (`ReadUnit`, `Inflate`). zlib is
external: a unit of the file is `Ratio` items.

### AbstractBFS, SGDriver (`core/sg_driver.hpp`, `algorithms/bfs/bfs.hpp`)

One action per phase of `scatter_gather::operator()`: `Begin`, `Load`, `Gather`, `Ask` and
`Check` for the query, `Scatter`, `Store`, `End`, `Final`. The callbacks of `bfs`
are operators (`Frontier`, `Reached`). Vertices are mapped to super partitions, partitions and
positions in the vertex file as `map_*` do; a vertex may span two blocks of the file
(`VertexSize` 2, `BlockSize` 3) and only blocks with a changed vertex are stored. The filters
may answer with any set of additional pages. An edge is in the file of its source's super
partition (`PlacementAssumption`, what `partition_super_partition` does). With `ImplementsBFS` every superstep is a step
of `AbstractBFS`, or a stutter.

### VertexPrograms, HyperLogLog, Programs (`algorithms/*`, the three drivers)

`VertexPrograms` has the callbacks of fifteen programs: `mis`, `cc`, `sssp`, `sssp_forest`,
`bfs_forest`, `bfs_async`, `bfs.py`, `degree_cnt`, `conductance`, `range_check`, `checkbip`, `spmv`,
`pagerank`, `pagerank_ddf` and `hyperanf`, with the counters of `utils/hyperloglog.h` in
`HyperLogLog`. A callback is an operator from a vertex' record (and an update or an edge) to the new record,
the value it returns, what it counts and the payload it sends. `Programs` is the driver around them, update by
update and edge by edge: `Gather`, `Scatter`, `LoopBack` of the asynchronous driver, where an
update for the super partition in memory is applied at once, the vote and the termination.
Sums of floating point numbers are sums of multiples of `1/Unit`.

### StreamCallbacks, Mcst, Scc, Betweenness, Triangles, BeliefPropagation, OnlineComponents, Standalone

The programs that do not use a driver are lists of passes over streams. Each of the six modules
has one program's passes and callbacks, written with the steps of `StreamCallbacks`: `do_stream`, `do_state_iter`
and `do_cpu` for each super partition. `Standalone` runs them item by item; the program decides
with `Follows` which pass comes next. With `cc_online` runs the feeder, which shares
the segment's two flags with it.

### BloomIndex (`core/sg_driver.hpp`, `update_utility/*_delete`)

Runs of the program in the modes create, update, verify and use; `edge_distribution` appends
page by page with the read-back of the last group, `bloom_filter_calculation` and
`bshuf_bitshuffle` are `Filter` and `Group`. Between the runs the graph file grows by any number
of edges, `delete_page` overwrites edges, `purge_delete` compacts the file, and a run can be
killed at any step, with any number of super partitions. `Hash` is any function from (sign
extended) ids to sets of bits.

The start of an update with one super partition is the number of groups less one, times the edges of a group, in
unsigned arithmetic (sg_driver.hpp:538): `Unsigned`, with `Wrap` for 2^64. Without a group, which is what a create
leaves that was killed before it wrote one, or one of an empty graph, the update begins far behind the last edge, finds none,
writes nothing and ends without an error. The history variable `harm` is then `wrapped`. It is `torn` when a process
died while it wrote several edge and index files (sg_driver.hpp:558). Both last up to the next create, which alone
mends the files; `NoPageMissed`, `UpdateIsRebuild` and `VerifyAccepts` except them, and `NothingBuilt` says what
the code does in the first case: the index stays empty.

### ExternalSort (`update_utility/MBFSort`)

The main thread in `split` and `merge`, the threads of `AsyncFuncs`, the read-ahead thread of
the input stream and the write-behind thread of every output stream. Every read of
`Ready()` and `Running()` is a step. `SplitPreempted` lets a thread end between the two reads of
the condition in `split`; `ClosePreempted` lets `Close` come between `OutputLoop`'s test and its
wait. Edges are numbers: `operator<` of `MBFSort.cpp` is a total order.

### BlockStreams, SortTool (`external_sort_main.cc`, `MBFSort.cpp`)

The block streams with their threads as operators on records, and the two programs: command line,
`generate`, `split`, `merge` of up to `kmerge` files at a time, `check`. One merge runs at a time;
how several do, and the threads of `split`, is in `ExternalSort`. `Close` is two steps, as in
block_output_stream.hpp:58-68: the last block is pushed under the mutex (`GenerateLast`, `MergeLast`), then `stopped_` is set and
`notify_one` called without it (`GenerateClose`, `MergeStop`). `OutputLoop` tests `stopped_` and the queue in one step and begins to wait
in another, so that the notification can come in between and be lost (`WakeupLost`).

## 3. Runs

| Run | Instance | Distinct states | What it shows |
|---|---|---|---|
| `barrier` | 3 threads, 3 rounds | 178 | nobody leaves early, every wait returns, the inductive invariant of the proof holds, `AbstractBarrier` is implemented |
| `filter` | 2 threads, 4 partitions, 2 passes | 44 334 | every queued partition is handed out once per pass; passes end |
| `work` | 2 threads, up to 3 updates each, 2 output buffers, 1 or 2 super partitions, with and without loopback | 190 154 | no update lost or doubled, barriers match, buffers suffice, the protocol ends |
| `driver` | every graph of 4 vertices and up to 4 edges that gives each of 2 files an edge, or does not fit in a buffer with 1 file | 158 654 | BFS with index, partial stores and any false positives implements level-synchronous BFS |
| `programs` | 15 programs, every undirected graph of 4 vertices and up to 5 edges, chosen directed and weighted ones, 1 or 2 super partitions | 68 616 | each program computes what it is for, and ends |
| `standalone` | 8 programs and the feeder, every directed graph of 4 vertices with a given edge and three others for `scc` and `bc`, weighted ones for `mcst` | 104 718 | each program computes what it is for, and ends |
| `layout` | 8 machines, 9 edges on pages of 2, every set of pages, buffers of 4 to 8, 2 requests at a time, every set of changed blocks | 76 764 | mapping, split, page reads and block writes are exact; the pipeline ends |
| `disk_stream` | streams of updates, edges and vertices, 1 or 2 files, and an ingested stream; up to 7 items in every split, buffers of 3 items, pages of 2, 2 buffers; every order of the threads' stores | 648 378 | data comes back, once and in order, nothing is queued twice and every wait ends, until the main thread overtakes the end of a write; busy buffers are left alone and two buffers are enough always |
| `index` | 3 sources, up to 5 edges and one deletion, groups of 2 filters of 2 edges, 1 or 2 super partitions, kills at every step | 1 804 374 | a finished build names every page that matters, updating is rebuilding, verify accepts, with two exceptions up to the next create; an update without a group builds nothing |
| `external_sort` | files of 0, 1, 2, 3, 4 blocks of 2 edges, 2 blocks per pool, 2 merges of 2 files | 223 936 | the output is the sorted input; files are removed only when merged; the sort ends |
| `sort_tool` | 53 command lines of the two programs, files of up to 6 values | 20 282 | the output is right, check counts right, no value is ever in no file; the tool ends, or `Close` has lost its notification |
| `compressed_io` | 1 to 4 buffers of 2 items, units of 3 | | violation of `ReadBack`, see section 6 |

Why the bounds are enough for the questions asked:

- Three rounds use both counts of the barrier and one of them again; three threads are a last
  one, one that spins and one that is late. The theorems remove both bounds.
- Four partitions on two queues are chains of two, long enough to steal from the middle of a
  drain; the second pass shows that `done` left the entries usable.
- In `work` a thread emits more than fits in its share of the buffer, so that both threads come
  to `flush_buffer` from `append_buffer`, from `final_flush`, and one from each; the buffer
  fills more than twice, so that a request is pending when the next one is made.
- Seven items are two full buffers and a rest, each neither a multiple of a page nor of a
  buffer: first, middle and last request differ, and a second use (`Cycles`) starts from what
  the first left behind.
- With four vertices in two super partitions each vertex file has a vertex that shares a block
  with another and one that spans two blocks; the paths are up to three edges long,
  i.e. a superstep may have nothing to scatter in one super partition and something in the other.
- Five edges are two full pages and a half, in two groups of which the last is not full, so
  that an update continues a group, opens one, or does neither.
- Four blocks are merged by two threads at once and their results once more, so that results
  arrive at each of the reads of `Ready()` and `Running()`.
- Nine edges on pages of two end inside a page; with buffers of four to eight a run of set pages
  is cut by the end of a buffer, and by the end of the file. Eight partitions with fan out 4 or
  2 need two or three passes, so that the items end up in either of the two buffers, and 8 over 4 leaves a
  last pass of one bit.
- The graphs of `programs` and `standalone` have the shapes the programs tell apart: a path whose ids
  do not follow it, cycles, ties of weights, a light way with more edges than the heavy one,
  unconnected vertices, loops. All undirected graphs of four vertices but the complete one are there
  for `mis`, `cc`, `bfs_forest` and `checkbip`.
- A batch that is ingested has from one item to a full buffer, and finds the stream empty, cached with
  and without room, or on disk, with its last page full or not.
- The command lines of `sort_tool` merge one to six files, with `kmerge` below and above that, blocks of one or two
  values, and files that end with a block, inside one, or are empty.

In `driver`, `programs`, `standalone`, `layout`, `sort_tool`, `disk_stream`, `work`, `external_sort` the program stops, so the check for
deadlocks is off; that it stops only at its end is what `SearchEnds`, `StreamEnds`,
`WorkEnds`, `SortEnds`, `ToolEnds`, `PipelineEnds` and `ProgramEnds` state (`StreamEnds` or after
the main thread has overtaken the I/O thread, `ToolEnds` or in the join of a thread whose wakeup was lost). In `barrier` and `filter` it is off because the rounds explored
are bounded.

## 4. Fairness

Only weak fairness of threads is assumed: the workers, the I/O thread, the main thread and the
threads of the sort are POSIX threads that keep being scheduled, and a disk request is
answered. In `Filter` there is no fairness for `Claim`, as a worker may have no more input, but
for the end of its input (`EndFill`). In `Work`, `ExternalSort` and `DiskStream` a step is one
action per thread, so fairness is per thread and never forces one of its alternatives. `Programs` and `Standalone`
have one thread of control (and the feeder), and `Layout` needs only that some processor or request goes on as long as
any can. No property needs strong
fairness: the compare-and-swap loops fail only when another thread has succeeded, and the
number of those successes in a phase is finite.

## 5. Proofs

`BarrierProofs` proves, for every finite, non-empty set of threads and any number of rounds:

- `TypeCorrect`: `Spec => []TypeOK`;
- `BarrierSafety`: `Spec => []NobodyLeavesEarly`, no thread is past a round that another one has
  not come to;
- `SenseStable`: a thread that has read the sense and not yet arrived still holds the
  current one;
- `UniqueReleaser`: at most one thread is between its last arrival and the reset of the count;
- `Refinement`: `Spec => AbstractBarrier`'s specification, with the mapping checked by the run.

`NobodyLeavesEarly` is not inductive: nothing in it says why a spinning thread that sees its
count at 0 may go. The invariant `IInv` adds, for each sense, that its count is the number
of threads that have arrived with it (`CountInv`), unless the last one is just resetting it; that
with one thread at `Flip` or `Reset` all others spin on the same sense; and that all
others are in the current round or, spinning on the other sense, in the one just finished
(`ThreadInv`). The proof has a lemma per action that the action preserves `IInv`, with a step for
each conjunct; `ArrivedCardinality` connects the count with the set of arrived threads and uses the
library's facts about finite sets. `LeaveFinishedRound` is the heart: a thread that leaves has
used the other sense and was in the finished round. The refinement takes the steps to the
abstract arrival or departure, or to a stutter. The assumptions are those `Barrier` declares:
`ThreadsAssumption`, `MaxRoundAssumption`. The liveness property `EveryWaitReturns` is only
model-checked.

`FilterProofs` proves, for any number of threads, partitions and passes:

- `FilterSafety`: `Spec => []FilterInv`: types, the queues hold exactly what was queued, each id in its own
  queue, and no partition is handed out twice in a pass;
- `NothingLeftBehind`: `Spec => []PassComplete`: when all threads have found no work, everything queued
  was handed out;
- `QueueInvariant`: the invariant both follow from.

`ExclusivePartition` is not inductive: a partition is handed out once because a compare-and-swap
that succeeds takes the head of a chain that has no cycle and in which nothing handed out before
is left. `IInv` says so in five parts. An entry that was claimed and is not pushed yet belongs to one thread,
and what it will be linked to is in the right queue (`PendingInv`). The other marked entries form a chain per
queue, without cycles (`ChainInv`). Marked is what was queued (`QueuedInv`). In a drain, an entry was given
out exactly if it is no longer below the visible head of its queue (`GivenInv`). A thread has seen
every queue empty that it went past since it began at its own, and no queue is filled during a drain
(`DrainInv`). The chain that starts at a head is the smallest set that is closed under `next`
and has the head, a definition without recursion; `ChainUnfold` (the head and the rest) and `ChainFrame` (a
step that changes no entry of a closed set changes no chain in it) are all that is needed about
it. Then there is a lemma per action. The code's assumption that the number of queues is a power
of two is not needed: `Queue` is the remainder. `PassEnds` is model-checked.

`WorkProofs` proves, for any number of workers, updates, buffers and files, with and without loopback:

- `UpdatesOnce`: `Spec => []EveryUpdateOnce`, an update is at no time written, cached or applied twice, and
  when the workers have stopped each was once;
- `WorkInvariant`: `Spec => []WorkInv`: types, all threads wait at the same barrier, a flush has the output buffer
  for itself, and `get_buffer` always finds one;
- `Inductive`: the invariant both follow from.

None of these is inductive. The barriers match because the threads go through the flush in phases (`Phase`:
`Filling`, `Testing`, `Indexing`, ... `Closing`), in each of which thread 0 is at one of a few labels and the others at one
of a few (`Lock`). Which of two ways a phase ends in depends on the fill of the buffer, which every thread reads for itself:
`ThreadInv` says that they read the same. An update is not lost because it is at any time at exactly one place,
`Accounted`: not yet taken from its thread's portion, in the output buffer below the fill at a position
that was copied (`Placed`), in the cached buffer, in the request, in the buffer that is looped back, written, or applied.
The other parts say what makes these places disjoint: who holds which buffer, and how often it is counted
(`RefInv`, `LoopBufInv`, `RequestInv`), that no two threads reserve the same positions (`SlotInv`), and
that the slices of a loopback are disjoint and together the buffer (`LoopInv`, `Slices`). There is a lemma per action
and part. `WorkInvariant` has a hypothesis, `NumBuffers >= 2`: `max_buffers()` of the driver is 4 (sg_driver.hpp:260) and
`stream_in` takes at most two of them, so at least two are left for the output. `UpdatesOnce` does not need it, since the program
ends when `get_buffer` finds none. `WorkEnds` is model-checked.

`BloomIndexProofs` proves, for any hash function, any number of edges in a page and pages in a group, any number
of super partitions, and any sequence of runs in the four modes, kills, appends, deletions and purges:

- `NoPageMissedAlways`: `Spec => []NoPageMissed`, once a create or an update has ended and no edge was added since, a
  query names every page that has a live edge of a vertex it asks for;
- `IndexInvariant`: the invariant it follows from;
- `UpdatesRebuild`: `Spec => []UpdateIsRebuild`, an index that was updated is the one that would be built anew: group by
  group, bit by bit, and with several super partitions the edge files hold exactly the edges of the graph, in its order;
- `IndexIsSafe`: `Spec => []IndexInv`, in particular `verify` accepts what `create` and `update` wrote;
- `ExactAlways`: the invariant both follow from.

`IInv` has one part for each layout. With one super partition the graph file changes under the index file:
all groups but the last are right (`GraphInv`), an update begins at the last one, and while it goes on all groups before
the one in the buffer are right and the buffer is a section of the graph file (`GraphRunInv`). When the edges end, the
groups that were written reach the end of the file, so that every page is covered. With several super
partitions an edge file and its index file are written together, and every edge in it is covered at all times
(`SplitInv`), since the rest of an edge file that an update has read back is never longer than the buffer that replaces
it (`SplitRunInv`). `Covered` says of an edge that its group is there and that its page has its bits.
`ExtendCovers` and `OverwriteCovers` are the two ways to write a group; `GroupHasBits` is what a filter is for, and
`PageOfEdge` and `GroupOfEdge` are the arithmetic of pages and groups. Assumptions: those of `BloomIndex`: ids are below the
sign bit, sizes are positive, and the graph with one more group is shorter than `Wrap`, 2^64 in the code. Kills are not
restricted, neither is the length of an index file that is updated: `WrapInv` has the update that finds no group, with a first
edge from which no edge of the graph is reached and an index file that is empty until the next create.

`EInv` adds to `IInv` what the files are, not only what they cover. With one super partition all groups but the
last are those of a new index of the graph file (`GraphExact`), and during a run the buffer is the section of that file behind
the groups written so far (`GraphRunExact`). With several, each index file is that of its edge file at any time
(`SplitIndexed`); between runs there is a number of edges `n`, the sum of the lengths of the edge files, such that each file holds
its own among the first `n` edges of the graph (`SplitExact`), and during a run `Held` says the same of a file up to its
position followed by its buffer (`SplitRunExact`). The place of an edge in its file is the number of edges of that super partition up
to it (`IsOwnEdges` counts with `Cardinality`), so that no induction over the sequence is needed. That the
number of edges read is the sum of what the files and buffers hold is what makes the start of an update right, and is what a kill with
several super partitions destroys. So `ExactAlways` is `EInv` unless `harm` says that one of the two
exceptions has happened since the last create, and in that case what `IInv` says, which holds always.

`OperatorProofs` proves of `Mapping`, for every configuration whose partition counts are powers of two
(`PowersOfTwo`, which the run `layout` checks of each configuration it comes to) and any number of
vertices: `PlaceOfVertex` and `VertexAtPlace`, that `map_super`, `map_cached` and `map_offset` are a bijection and
`map_inverse` its inverse; `StateCountExact`, that `state_count` is the number of places of a partition
that have a vertex, and these are the first ones. The three rest on quotient and remainder being unique.

Of `HyperLogLog` it proves that the union of counters is the least upper bound of a partial order
(`UnionIsJoin`), so `hyperanf` may get updates in any order and more than once; that `hll_union` reports a
change exactly when there is one (`ChangedExactly`); that what was united once adds nothing later
(`SentOnce`), so a vertex that did not change need not send; and that adding an item commutes
with it (`AddThenUnite`).

`AbstractBFSProofs` proves, for every graph, every root in it and a `NONE` that is no vertex
(`Parameters`), what the level-synchronous search that `SGDriver` implements computes:

- `SearchInvariant`: the discovered vertices form a tree, each with a discovered parent one level
  up that has an edge to it, and the out-neighbours of every vertex, but for those found in the
  last round, are discovered at most one level down;
- `StoppedSearchIsClosed`: once the search has stopped, the discovered vertices contain the root and
  everything an edge leads to from them;
- `OnlyReachable`: any set with those two properties contains the discovered vertices. So they
  are the smallest such set, what can be reached from the root.

`SearchInv` is inductive: `RoundStep` says what a round changes, and `NextSearchInv` uses that an
out-neighbour of a vertex of the last level is a candidate. From it follows that the levels are the
distances: for any sequence of sets that begins with the root and adds the out-neighbours
(`Neighbourhoods`), what is discovered up to a level is the set of that number (`LevelsAreDistances`), and a stopped search has
discovered every set of the sequence (`StoppedIsReachable`). There is no induction over data here, so these lemmas take the
least level at which they fail (`LeastNumber`, from the library's facts on well-founded relations).

`SGDriverProofs` proves, for every graph, every placement of its edges on pages, any number of super
partitions, partitions and processors, any sizes of vertices and blocks, and any answers of the filters that
have the pages with an edge of an asked vertex:

- `Refinement`: `Spec => ImplementsBFS`, the driver implements `AbstractBFS`: the end of a superstep is a round, and
  no other step shows in what the supersteps before discovered (`Kept`);
- `StoreIsComplete`: `Spec => StoreComplete`, a store leaves nothing in memory that is not in the file;
- `Levels` and `Result`: `Spec => []LevelsExact`, `Spec => []ResultComplete`, levels are distances after every superstep, and
  the vertex file has the tree of what is reachable at the end;
- `FilterIsFrontier`, `TypeCorrect`, `NoAssertion`, and with them `DriverInvariant`: `Spec => []DriverInv`.

The search is right between two supersteps, but each phase of each super partition changes part of it, and
a vertex is in memory at one time and in the file at another. `IInv` says for every point in between
what is done and what is not: a record in memory is marked as changed or is the one in the file, and no record in
the file is torn between its blocks (`FileInv`); a vertex was found in this superstep exactly if its
super partition was gathered and an update was sent to it (`SearchInv`); the input has the updates of
the edges of the last level for the super partitions not gathered yet, the output those of the ones
scattered (`StreamInv`); the scatter filter has the partitions of the frontier (`ActiveInv`); the
vote to stop stands as long as nothing was found (`VoteInv`); the pages asked for have every edge of the frontier
(`QueryInv`). There is a lemma per action. `MarkedBlocks` is the argument for partial stores: the marks are made
going through the positions of a processor with the last block that was marked, so a block is left out only when it is marked already;
it takes the first position at which that fails. `SentEdges` is the one for the index: skipping a
page sends the same updates as reading it. `EndIsRound` is the step of the refinement. Levels and result are then those
proved of `AbstractBFS`, whose lemmas are instantiated with the refinement mapping, and `LevelsAreBounded`
(no path needs more edges than there are vertices) bounds the number of rounds.

`NoAssertion` and `DriverInvariant` have the hypothesis `FilesOutOfCore`: no edge file is empty and, with one super
partition, the file is longer than a buffer. In the other case the assertion fails, as section 6 shows; the
other theorems hold without it, because the process ends there. The assumptions are those that `SGDriver` declares.
`SearchEnds` is model-checked.

`DiskStreamProofs` proves, for every use of a stream, any number of super partitions, buffers and items, and any
sizes of buffers and pages:

- `ScansDeliver`: `Spec => []Delivered`, a scan gets what was appended, in order (ingested: once), and all of it when it ends;
- `StreamIsSafe`: `Spec => []StreamInv`, no assertion fails, `get_buffer` finds a buffer, the I/O thread has one
  request at most, and a superstep has the vertices that were stored;
- `BusyBuffersStay`: `Spec => [][~overtaken => BusyHeld]_vars`, a buffer that the I/O thread is to read or write keeps its
  reference and is left alone by the main thread;
- `Inductive`: `Spec => [](~overtaken => IInv)`, the invariant they follow from.

`IInv` has three parts. `Threads` is what the two threads know of each other: the request that is under way and where the
main thread can be then (`RequestInv`), who holds which buffer (`HolderInv`) and so how many references (`RefInv`) and whether
it is dirty (`DirtyInv`). `ContentInv` is about the items in buffers. `Data` says that there is a sequence `D[s]` for each file
that accounts for everything: while the stream is appended to, whole pages of `D[s]` are in the file and the rest is on the page in
memory (`Holds`); while pages are flushed, which may be done twice, the file offset can be one page further
(`Flushing`); while it is read, the page in memory is the one behind which the offset is (`Reads`). What was sent is `D[s]`
followed by the buffers that are to be written, cached or appended (`SentInv`), and what was got, followed by
the buffers that were read ahead, is the part of `D[s]` in front of the position (`GotInv`). For an ingested stream the items are only
a permutation, since `merge_ingest` fills the cached buffer from the end of a batch. `WriteAppends`, `ReadGets`
and `FlushCompletes` are the arithmetic of pages, stated once for `do_write_IO`, `do_read_IO` and `flush`; there are two lemmas
per action, for the control and for the data. No interleaving of the two threads is assumed away: the stores that announce the end of
a write are steps of their own, and `IInv` has what holds between them (`io = "late"`). Every theorem holds up to the step
with which the main thread overtakes them (`overtaken`), `Delivered` and `StreamInv` because they say so themselves; section 6 shows what
happens after it. That `BusyBuffersHeld`, the types and `NeverOutOfBuffers` hold after it too is model-checked. `StreamIsSafe`
has one hypothesis, `NumBuffers >= 2`, which is what the program leaves for a stream at least (`max_buffers()` is 4, sg_driver.hpp:260).
`StreamEnds` is model-checked.

What the proofs do not reach: all liveness properties, as fairness is out of the prover's reach, and what needs induction
over data, e.g. what the passes of the splitter or the programs compute. `ExternalSort`, `SortTool`, `Layout`, `Programs` and
`Standalone` are model-checked.

One caution about the prover: the background axioms that tlapm 1.4.5 gives its SMT backend define `Len` for any function, so
that an obligation which mentions `Len` and a function with a domain like `0..n-1` (super partitions and
threads are counted from 0) can be proved from a contradiction. All proofs were also checked with that axiom restricted
to sequences, so none of them rests on it.

## 6. What the code does that its own statements do not allow

The run `compressed_io` shows one disagreement: with `compressed_io`, a stream of two buffers
is read as its first one. `read` keeps a buffer as the cache of the whole stream when the file is
at its end (split_stream.hpp:610), but a compressed file is at its end when its last unit was
*asked for*; `stream_eof` looks at `zlib_eof` too, `read` does not. One buffer, or five, come back as
they were written. Other constants show more: with `SuperPartitions = 2` a rewind flushes all super
partitions once for each, the later times over the start of the file; with `Scans = 2` the second scan
finds `zlib_eof` as the first one left it; and a stream that was spilled and is shorter than a unit
fails the assertion "BUG: empty file after append".

Four more are in the runs that pass, as steps like all others, and their properties say what holds in spite of them:

| Run | Exception | What happens without it |
|---|---|---|
| `disk_stream` | `overtaken` in `Delivered`, `StreamInv`, `StreamEnds` | `uptodate` is stored twice after a one-shot write (disk_io.hpp:558 and 612): the second store can announce a read that was not done, and `StateLoaded` fails; a stream is queued twice (`QueuedOnce`) and an assertion fails (`NoAssertionFails`). The store of `flush_complete` (613) for a write can end the next rewind before its flush: the last page is not delivered (`Delivered`). A request dropped early is waited for for ever (`StreamEnds`) |
| `index` | `harm = "wrapped"` in `NoPageMissed`, `UpdateIsRebuild`, `VerifyAccepts` | an update of an index without groups, as a create leaves it that is killed early, ends well and builds nothing (sg_driver.hpp:538); later queries find page 0 only, and `verify` fails. All three fail |
| `index` | `harm = "torn"` in the same | a run killed while it distributes edges to several super partitions leaves files from whose lengths an update takes a wrong first edge (sg_driver.hpp:558): edges in buffers are lost, others come twice |
| `sort_tool` | `WakeupLost` in `ToolEnds` | `Close` (block_output_stream.hpp:63) sets `stopped_` and notifies without the mutex; the notification is lost when `OutputLoop` has tested and does not wait yet, and `join` waits for ever |

Four more disagreements show when a constant is changed in a configuration that passes:

| Change | Fails | What happens |
|---|---|---|
| `MCExternalSort.cfg`: `SplitPreempted = TRUE` | `OutputSorted` in `SortInv` | `split` (external_sort.hpp:109) asks `Ready() > 0`, then `Running()`; a thread that ends in between is in neither count, and its result is dropped. `merge` asks `Ready()` again before it concludes anything, and the run shows that this is enough |
| `MCExternalSort.cfg`: `ClosePreempted = TRUE` | `SortEnds` | `Close` (block_output_stream.hpp:63) sets `stopped_` without the mutex; the lost wakeup of `sort_tool`, with the threads of the sort |
| `MCBloomIndex.cfg`: `SuperPartitionCounts = {2}`, checking `ReadsBackGroup` | `ReadsBackGroup` | `edge_distribution` compares a number of edges with a number of bytes (sg_driver.hpp:414), so no update succeeds over a partial group with several super partitions; with `EdgeBytes = 1` all invariants hold |
| `MCSGDriver.cfg`: `Settings <- Cached`, `BufferPages = 2` | `NoAssertionFails` in `DriverInv` | an edge file that fits one buffer stays cached, and a later superstep that selects pages leaves them unread, against the assertion of `clear_bitset` (split_stream.hpp:576) |

The passing runs exclude exactly the windows of this second table and show that nothing else goes wrong. Seen while
modelling, without a run:

- with `ForceBuffers` the flush that `append_buffer` calls leaves no buffer (x-lib.hpp:231) and
  `append_buffer` uses NULL;
- a super partition without edges fails the assertion of `clear_bitset` as a cached one does,
  since page 0 is always set (sg_driver.hpp:846) and nothing is read;
- padding a query (sg_driver.hpp:835) can exceed the limit it was tested against, when
  `max_check_v` is no multiple of `chip_v_once`;
- the state buffer has `vertices / super_partitions` vertices, rounded down, and then up to a page
  (autotuner.hpp:101); super partition 0 may have one vertex more, which does not fit when the product is a
  multiple of a page;
- with little RAM the buffer size is a negative number in unsigned arithmetic (autotuner.hpp:122); a tuned
  configuration with one cached and several super partitions has fan out 1, with which `x_split`
  makes no progress;
- six programs (`bfs_forest`, `pagerank`, `spmv`, `conductance`, `range_check`, `checkbip`) have a `check_bsp`
  that asserts false and is called; they run only without assertions, as the models of both program
  families assume. So does `cc_online` with several super partitions (x-lib.hpp:324);
- `mcst` opens two of its streams under one name, and `rewrite_unknown` leaves the weight of an edge unset;
- `scc` stops when no edge is left, and then a vertex that never had one in the last rounds is not counted;
- `triangle_counting` gives the estimate with one super partition only: with two it reads hashes of vertices
  that are not in memory;
- `bp_graphchi` leaves the belief of a seed at its prior; "rescale" in `bp` changes nothing;
- `checkbip` reports a path of three vertices as not bipartite when the ids do not follow it;
  `pagerank` with 0 iterations does not stop;
- the gather of the Python driver activates every partition, as the tuple it gets is always true;
  `bfs.py` writes the vertex at its index without the offset of its partition, so that it works with one
  partition in memory; `pagerank.py` stops with an error in its first superstep;
- `external_sort_main` replaces the `spl.ofile` given to it when it also merges, and removes the files given
  to `mrg.ifiles` unless told not to; with memory for less than one value per block it reads nothing,
  for ever; a missing input file is an empty one.

## 7. Not modelled

PROJECT.json lists every part. `als.hpp` and `als_async.hpp` are commented out in
`benchmarks/driver.cpp` and factor matrices of floating point numbers. The arithmetic inside the other
programs is abstracted to sums of small units, that of belief propagation to what each message is a
product of. HDFS is an external service. `bitshuffle_core.c` is third party code, one transposition
of bits in several SIMD forms, and `prng/mrg_transitions.c` a generated table; together they are three tenths of the
source. The generators, formats and converters have no state but a random sequence or a file
position. Of the Bloom query kernels `CPU` is modelled and `CPUF` is not. The choice of edges that `delete_page`
deletes is any choice. Memory is sequentially consistent in all modules: the code relies on x86 and on
`__sync` operations, and the flags it waits for are volatile or atomic. Errors of the
operating system end the program and are left out.

## 8. What could follow

1. *Proofs*: that `ExternalSort` loses no value, for any number of threads; one pass of the splitter for any slice.
2. *CPUF*: the second query kernel, with its own layout of the query.
3. *Composition*: `Layout` with the read-ahead of `DiskStream`, where a second buffer is filled
   while the first is split.
