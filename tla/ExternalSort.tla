---------------------------- MODULE ExternalSort ----------------------------
(* MBFSort's external sort (update_utility/MBFSort/external_sort): split      *)
(* reads the edge file block by block and starts a thread per block that      *)
(* sorts it into a file of its own; merge starts threads that merge some of   *)
(* the files into one until one is left.  AsyncFuncs hands the results of the *)
(* threads to the main thread, a BlockInputStream reads ahead and a           *)
(* BlockOutputStream writes behind, each in a thread.  An edge is a number.   *)
(*                                                                            *)
(* A condition variable is modelled as a guard where its predicate changes    *)
(* under the mutex.  A merging thread reads its input files directly: their   *)
(* read-ahead is the one split uses.                                          *)
EXTENDS Integers, Sequences, FiniteSets, FiniteSetsExt, SequencesExt

CONSTANTS Inputs,           \* edge files to sort
          BlockSize,        \* edges in a block
          Blocks,           \* mem.blocks, blocks that split has
          StmBlocks,        \* mrg.stmblocks, blocks of an output stream
          KMerge, Merges,   \* mrg.kmerge, mrg.merges
          MaxFiles,         \* bound: files made by split and merge
          SplitPreempted,   \* a thread may end between split's reads of Ready() and Running()
          ClosePreempted,   \* Close() may come between OutputLoop's test and its wait
          NULL

ASSUME SizesAssumption ==
    /\ {BlockSize, Blocks, StmBlocks, Merges} \subseteq Nat \ {0} /\ KMerge \in Nat \ {0, 1}
    /\ \A s \in Inputs : 2 * (Len(s) \div BlockSize + 1) <= MaxFiles + 1
ASSUME OptionsAssumption == SplitPreempted \in BOOLEAN /\ ClosePreempted \in BOOLEAN

Files == 1..MaxFiles        \* a thread has the number of the file it makes

VARIABLES original, input, \* the input file and what is unread of it
          eof, rpc,         \* the stream's eof bit; the thread of InputLoop
          fetched,          \* the block it has read
          pool,             \* free blocks of split
          inq, empty, cur,  \* blocks_queue_, empty_ and block_ of the input stream
          mpc,              \* the main thread
          files, made,      \* the files to be merged; how many were made
          closing,          \* the stream split is closing
          ready, running,   \* funcs_ready_, funcs_running_
          tpc, own, srcs,   \* per thread: where it is, its block, the files it merges
          rem,              \* and what is unread of them
          blk, queue, free, \* per output stream: block_, blocks_queue_, free blocks
          stopped, wpc,     \* stopped_, the thread of OutputLoop
          disk, removed,    \* contents of the files, those removed
          out               \* the file renamed to the output

readVars == <<original, input, eof, rpc, fetched, pool, inq, empty, cur>>
asyncVars == <<ready, running>>
streamVars == <<blk, queue, free, stopped, wpc, disk>>
taskVars == <<tpc, own, srcs, rem>>
vars == <<readVars, mpc, files, made, closing, asyncVars, taskVars, streamVars, removed, out>>

Init ==
    /\ original \in Inputs /\ input = original
    /\ eof = FALSE /\ rpc = "read" /\ fetched = <<>> /\ pool = Blocks
    /\ inq = <<>> /\ empty = FALSE /\ cur = NULL
    /\ mpc = "split" /\ files = <<>> /\ made = 0 /\ closing = NULL
    /\ ready = <<>> /\ running = 0
    /\ tpc = [f \in Files |-> "none"] /\ own = [f \in Files |-> <<>>]
    /\ srcs = [f \in Files |-> <<>>] /\ rem = [f \in Files |-> <<>>]
    /\ blk = [f \in Files |-> <<>>] /\ queue = [f \in Files |-> <<>>]
    /\ free = [f \in Files |-> StmBlocks]
    /\ stopped = [f \in Files |-> FALSE] /\ wpc = [f \in Files |-> "none"]
    /\ disk = [f \in Files |-> <<>>] /\ removed = {} /\ out = NULL

-----------------------------------------------------------------------------
(* BlockInputStream, read by split                                            *)

\* ReadBlock: a block that could not be filled sets the eof bit; an empty one,
\* when the file ended with the block before, is given back.
ReadBlock ==
    /\ rpc = "read" /\ ~eof /\ pool > 0
    /\ LET n == Min({BlockSize, Len(input)})
       IN /\ input' = SubSeq(input, n + 1, Len(input))
          /\ eof' = (n < BlockSize)
          /\ IF n = 0 THEN UNCHANGED <<pool, fetched, rpc>>
             ELSE pool' = pool - 1 /\ fetched' = SubSeq(input, 1, n) /\ rpc' = "queue"
    /\ UNCHANGED <<original, inq, empty, cur, mpc, files, made, closing, asyncVars, taskVars,
                   streamVars, removed, out>>

\* InputLoop pushes the block to the queue.
QueueBlock ==
    /\ rpc = "queue"
    /\ inq' = Append(inq, fetched) /\ fetched' = <<>> /\ rpc' = "read"
    /\ UNCHANGED <<original, input, eof, pool, empty, cur, mpc, files, made, closing, asyncVars,
                   taskVars, streamVars, removed, out>>

ReadEnd ==
    /\ rpc = "read" /\ eof
    /\ empty' = TRUE /\ rpc' = "gone"
    /\ UNCHANGED <<original, input, eof, fetched, pool, inq, cur, mpc, files, made, closing, asyncVars,
                   taskVars, streamVars, removed, out>>

\* Mutant of Answered: ReadPolicy::Empty() is asked instead of empty_.
AnsweredByEof == cur # NULL \/ inq # <<>> \/ eof

\* Empty() has an answer, and what it is; it fetches the next block.
Answered == cur # NULL \/ inq # <<>> \/ empty
Exhausted == cur = NULL /\ inq = <<>>
NextBlock == IF cur # NULL THEN cur ELSE Head(inq)
QueueAfter == IF cur # NULL \/ inq = <<>> THEN inq ELSE Tail(inq)

-----------------------------------------------------------------------------
(* split                                                                      *)

\* RunFunc begins: the thread f that writes file f
Started(f) == /\ made' = f /\ running' = running + 1
              /\ wpc' = [wpc EXCEPT ![f] = "test"]

\* The next block goes to a thread; at the end of the file the loop is over.
SplitNext ==
    /\ mpc = "split" /\ Answered
    /\ IF Exhausted
       THEN /\ mpc' = "splitEnd"
            /\ UNCHANGED <<inq, cur, made, running, wpc, tpc, own>>
       ELSE LET f == made + 1 IN
            /\ Started(f)
            /\ tpc' = [tpc EXCEPT ![f] = "sort"] /\ own' = [own EXCEPT ![f] = NextBlock]
            /\ cur' = NULL /\ inq' = QueueAfter
            /\ mpc' = "collect"
    /\ UNCHANGED <<original, input, eof, rpc, fetched, pool, empty, files, closing, ready, srcs, rem,
                   blk, queue, free, stopped, disk, removed, out>>

\* while ((Ready() > 0) || (Running() && Empty())): the first two reads
Collect ==
    /\ mpc = "collect"
    /\ mpc' = IF ready # <<>> THEN "get" ELSE "running"
    /\ UNCHANGED <<readVars, files, made, closing, asyncVars, taskVars, streamVars, removed, out>>

CollectRunning ==
    /\ mpc = "running"
    /\ mpc' = IF running > 0 THEN "empty" ELSE "split"
    /\ UNCHANGED <<readVars, files, made, closing, asyncVars, taskVars, streamVars, removed, out>>

CollectEmpty ==
    /\ mpc = "empty" /\ Answered
    /\ cur' = IF Exhausted THEN NULL ELSE NextBlock
    /\ inq' = QueueAfter
    /\ mpc' = IF Exhausted THEN "get" ELSE "split"
    /\ UNCHANGED <<original, input, eof, rpc, fetched, pool, empty, files, made, closing, asyncVars,
                   taskVars, streamVars, removed, out>>

\* Close() of an output stream: set stopped_, without the mutex, and wake OutputLoop.
Stop(f) ==
    /\ wpc[f] = "tested" => ClosePreempted
    /\ stopped' = [stopped EXCEPT ![f] = TRUE]
    /\ wpc' = [wpc EXCEPT ![f] = IF @ = "waiting" THEN "test" ELSE @]

\* GetAny, and Close of its result
SplitGet ==
    /\ mpc = "get" /\ ready # <<>>
    /\ ready' = Tail(ready) /\ closing' = Head(ready)
    /\ Stop(Head(ready)) /\ mpc' = "join"
    /\ UNCHANGED <<readVars, files, made, running, taskVars, blk, queue, free, disk, removed, out>>

SplitJoin ==
    /\ mpc = "join" /\ wpc[closing] = "gone"
    /\ files' = Append(files, closing) /\ closing' = NULL
    /\ mpc' = "collect"
    /\ UNCHANGED <<readVars, made, asyncVars, taskVars, streamVars, removed, out>>

\* The results left in AsyncFuncs are destroyed with it: an output stream whose
\* thread was not joined calls std::terminate.
SplitEnd ==
    /\ mpc = "splitEnd" /\ rpc = "gone"
    /\ mpc' = IF ready = <<>> THEN "merge" ELSE "terminated"
    /\ UNCHANGED <<readVars, files, made, closing, asyncVars, taskVars, streamVars, removed, out>>

-----------------------------------------------------------------------------
(* The threads that sort and merge (RunFunc)                                  *)

\* sort_and_write
SortAndWrite(f) ==
    /\ tpc[f] = "sort"
    /\ disk' = [disk EXCEPT ![f] = SortSeq(own[f], <)]
    /\ pool' = pool + 1 /\ own' = [own EXCEPT ![f] = <<>>]
    /\ tpc' = [tpc EXCEPT ![f] = "push"]
    /\ UNCHANGED <<original, input, eof, rpc, fetched, inq, empty, cur, mpc, files, made, closing,
                   asyncVars, srcs, rem, blk, queue, free, stopped, wpc, removed, out>>

\* The inputs that are not exhausted, and one of those with the smallest front.
Open(f) == {k \in DOMAIN rem[f] : rem[f][k] # <<>>}
Smallest(f) ==
    CHOOSE k \in Open(f) : \A j \in Open(f) : Head(rem[f][k]) <= Head(rem[f][j])

\* merge_2streams to merge_nstreams: their comparisons find a smallest front.
Chosen(f) == Smallest(f)

\* The mutex of the output stream is free: OutputLoop holds it from its test to
\* its wait.
Unlocked(f) == wpc[f] # "tested"

\* PushBlock wakes OutputLoop.
PushBlock(f, block) ==
    /\ Unlocked(f)
    /\ queue' = [queue EXCEPT ![f] = Append(@, block)]
    /\ blk' = [blk EXCEPT ![f] = <<>>]
    /\ wpc' = [wpc EXCEPT ![f] = IF @ = "waiting" THEN "test" ELSE @]

\* Push of the next edge; a block is allocated for the first one in it.
MergeEdge(f) ==
    /\ tpc[f] = "merge" /\ Open(f) # {}
    /\ blk[f] = <<>> => free[f] > 0
    /\ LET k == Chosen(f)
           block == Append(blk[f], Head(rem[f][k]))
       IN /\ rem' = [rem EXCEPT ![f][k] = Tail(@)]
          /\ IF Len(block) = BlockSize
             THEN PushBlock(f, block)
             ELSE blk' = [blk EXCEPT ![f] = block] /\ UNCHANGED <<queue, wpc>>
          /\ free' = [free EXCEPT ![f] = IF blk[f] = <<>> THEN @ - 1 ELSE @]
    /\ UNCHANGED <<readVars, mpc, files, made, closing, asyncVars, tpc, own, srcs, stopped, disk,
                   removed, out>>

\* Close of the output stream: push the last block, stop, join.
MergeLast(f) ==
    /\ tpc[f] = "merge" /\ Open(f) = {}
    /\ IF blk[f] # <<>> THEN PushBlock(f, blk[f]) ELSE UNCHANGED <<queue, blk, wpc>>
    /\ tpc' = [tpc EXCEPT ![f] = "stop"]
    /\ UNCHANGED <<readVars, mpc, files, made, closing, asyncVars, own, srcs, rem, free, stopped,
                   disk, removed, out>>

MergeStop(f) ==
    /\ tpc[f] = "stop" /\ Stop(f)
    /\ tpc' = [tpc EXCEPT ![f] = "join"]
    /\ UNCHANGED <<readVars, mpc, files, made, closing, asyncVars, own, srcs, rem, blk, queue,
                   free, disk, removed, out>>

\* Mutant of Joined: Close does not wait for OutputLoop.
JoinedAtOnce(f) == TRUE
Joined(f) == wpc[f] = "gone"

\* Close of the input streams removes their files (rm_input).
MergeClose(f) ==
    /\ tpc[f] = "join" /\ Joined(f)
    /\ removed' = removed \cup ToSet(srcs[f])
    /\ tpc' = [tpc EXCEPT ![f] = "push"]
    /\ UNCHANGED <<readVars, mpc, files, made, closing, asyncVars, own, srcs, rem, streamVars, out>>

\* RunFunc ends under the mutex of AsyncFuncs.
PushResult(f) ==
    /\ tpc[f] = "push"
    /\ mpc = "running" => SplitPreempted
    /\ ready' = Append(ready, f) /\ running' = running - 1
    /\ tpc' = [tpc EXCEPT ![f] = "over"]
    /\ UNCHANGED <<readVars, mpc, files, made, closing, own, srcs, rem, streamVars, removed, out>>

\* OutputLoop
WriteBlock(f) ==
    /\ wpc[f] = "test"
    /\ IF queue[f] # <<>>
       THEN /\ disk' = [disk EXCEPT ![f] = @ \o Head(queue[f])]
            /\ queue' = [queue EXCEPT ![f] = Tail(@)]
            /\ free' = [free EXCEPT ![f] = @ + 1]
            /\ UNCHANGED wpc
       ELSE /\ wpc' = [wpc EXCEPT ![f] = IF stopped[f] THEN "gone" ELSE "tested"]
            /\ UNCHANGED <<disk, queue, free>>
    /\ UNCHANGED <<readVars, mpc, files, made, closing, asyncVars, taskVars, blk, stopped, removed, out>>

WaitForBlocks(f) ==
    /\ wpc[f] = "tested"
    /\ wpc' = [wpc EXCEPT ![f] = "waiting"]
    /\ UNCHANGED <<readVars, mpc, files, made, closing, asyncVars, taskVars, blk, queue, free,
                   stopped, disk, removed, out>>

-----------------------------------------------------------------------------
(* merge.  Empty() reads Ready() and Running() one after the other; this order *)
(* of the two, which C++ leaves open, is the one in which it can err.         *)

\* while (files.size() > 1 || !Empty())
MergeTest ==
    /\ mpc = "merge"
    /\ mpc' = IF Len(files) > 1 \/ ready # <<>> THEN "start" ELSE "mergeRunning"
    /\ UNCHANGED <<readVars, files, made, closing, asyncVars, taskVars, streamVars, removed, out>>

MergeTestRunning ==
    /\ mpc = "mergeRunning"
    /\ mpc' = IF running > 0 THEN "start" ELSE "rename"
    /\ UNCHANGED <<readVars, files, made, closing, asyncVars, taskVars, streamVars, removed, out>>

\* The next files go to a thread that merges them.
MergeStart ==
    /\ mpc = "start"
    /\ LET f == made + 1
           n == Min({KMerge, Len(files)})
           chosen == SubSeq(files, 1, n)
       IN /\ Started(f)
          /\ tpc' = [tpc EXCEPT ![f] = "merge"]
          /\ srcs' = [srcs EXCEPT ![f] = chosen]
          /\ rem' = [rem EXCEPT ![f] = [k \in 1..n |-> disk[chosen[k]]]]
          /\ files' = SubSeq(files, n + 1, Len(files))
    /\ mpc' = "few"
    /\ UNCHANGED <<readVars, closing, ready, own, blk, queue, free, stopped, disk, removed, out>>

\* while ((files.size() < kmerge && !Empty()) || Ready() > 0 || Running() >= merges)
MergeFew ==
    /\ mpc = "few"
    /\ mpc' = IF Len(files) >= KMerge THEN "ready"
              ELSE IF ready # <<>> THEN "getMerged" ELSE "fewRunning"
    /\ UNCHANGED <<readVars, files, made, closing, asyncVars, taskVars, streamVars, removed, out>>

\* Mutant of MergeFewRunning: a result is waited for though no thread runs.
MergeFewWaits ==
    /\ mpc = "fewRunning"
    /\ mpc' = "getMerged"
    /\ UNCHANGED <<readVars, files, made, closing, asyncVars, taskVars, streamVars, removed, out>>

MergeFewRunning ==
    /\ mpc = "fewRunning"
    /\ mpc' = IF running > 0 THEN "getMerged" ELSE "ready"
    /\ UNCHANGED <<readVars, files, made, closing, asyncVars, taskVars, streamVars, removed, out>>

MergeReady ==
    /\ mpc = "ready"
    /\ mpc' = IF ready # <<>> THEN "getMerged" ELSE "many"
    /\ UNCHANGED <<readVars, files, made, closing, asyncVars, taskVars, streamVars, removed, out>>

MergeMany ==
    /\ mpc = "many"
    /\ mpc' = IF running >= Merges THEN "getMerged" ELSE "merge"
    /\ UNCHANGED <<readVars, files, made, closing, asyncVars, taskVars, streamVars, removed, out>>

MergeGet ==
    /\ mpc = "getMerged" /\ ready # <<>>
    /\ ready' = Tail(ready) /\ files' = Append(files, Head(ready))
    /\ mpc' = "few"
    /\ UNCHANGED <<readVars, made, closing, running, taskVars, streamVars, removed, out>>

\* rename, or the error "Merge failed. No input"
Rename ==
    /\ mpc = "rename"
    /\ out' = IF files = <<>> THEN NULL ELSE disk[Head(files)]
    /\ mpc' = IF files = <<>> THEN "failed" ELSE "done"
    /\ UNCHANGED <<readVars, files, made, closing, asyncVars, taskVars, streamVars, removed>>

Main == \/ SplitNext \/ Collect \/ CollectRunning \/ CollectEmpty \/ SplitGet \/ SplitJoin
        \/ SplitEnd \/ MergeTest \/ MergeTestRunning \/ MergeStart \/ MergeFew
        \/ MergeFewRunning \/ MergeReady \/ MergeMany \/ MergeGet \/ Rename
Reader == ReadBlock \/ QueueBlock \/ ReadEnd
Task(f) == \/ SortAndWrite(f) \/ MergeEdge(f) \/ MergeLast(f) \/ MergeStop(f)
           \/ MergeClose(f) \/ PushResult(f)
Writer(f) == WriteBlock(f) \/ WaitForBlocks(f)

Next == Main \/ Reader \/ \E f \in Files : Task(f) \/ Writer(f)

\* Every thread is scheduled again and again.
Spec == Init /\ [][Next]_vars
FairSpec == /\ Spec /\ WF_vars(Main) /\ WF_vars(Reader)
            /\ \A f \in Files : WF_vars(Task(f)) /\ WF_vars(Writer(f))

-----------------------------------------------------------------------------
(* Properties                                                                 *)

One(held) == IF held THEN 1 ELSE 0

\* Every variable keeps its type, and no block is lost or freed twice.
TypeOK ==
    /\ original \in Inputs /\ IsSuffix(input, original)
    /\ eof \in BOOLEAN /\ empty \in BOOLEAN /\ rpc \in {"read", "queue", "gone"}
    /\ mpc \in {"split", "collect", "running", "empty", "get", "join", "splitEnd", "terminated",
                "merge", "mergeRunning", "start", "few", "fewRunning", "ready", "many",
                "getMerged", "rename", "done", "failed"}
    /\ ToSet(files) \cup ToSet(ready) \cup removed \subseteq 1..made /\ made \in 0..MaxFiles
    /\ closing \in Files \cup {NULL}
    /\ running = Cardinality({f \in Files : tpc[f] \notin {"none", "over"}})
    /\ tpc \in [Files -> {"none", "sort", "merge", "stop", "join", "push", "over"}]
    /\ wpc \in [Files -> {"none", "test", "tested", "waiting", "gone"}]
    /\ pool + Len(inq) + One(cur # NULL) + One(fetched # <<>>)
         + Cardinality({f \in Files : tpc[f] = "sort"}) = Blocks
    /\ \A f \in Files :
         free[f] + Len(queue[f]) + One(blk[f] # <<>>) = StmBlocks

\* The sort ends with all of the input, sorted, or says that there was none: no
\* edge is lost or duplicated, whichever threads end when and however often the
\* results come in between the reads of Ready() and Running() (merge, Empty()).
OutputSorted ==
    /\ mpc = "done" => original # <<>> /\ out = SortSeq(original, <)
    /\ mpc \in {"failed", "terminated"} => original = <<>>

\* A file is removed only when all its edges are in the file it was merged into,
\* so that what is on disk always has every edge that split has written.
RemovedWhenMerged ==
    \A f \in Files : ToSet(srcs[f]) \cap removed # {} =>
        disk[f] = SortSeq(FlattenSeq([k \in DOMAIN srcs[f] |-> disk[srcs[f][k]]]), <)

\* The sort ends: nobody waits for a block, a result or a thread for ever.
SortEnds == <>(mpc \in {"done", "failed", "terminated"})

\* The output is the sorted input, and no edge is ever in no file.
SortInv == TypeOK /\ OutputSorted /\ RemovedWhenMerged
=============================================================================
