---------------------------- MODULE BlockStreams ----------------------------
(* The block streams of MBFSort's external sort, as operators on records: a   *)
(* pool of blocks, an input stream whose thread reads ahead of Front and Pop, *)
(* an output stream whose thread writes behind Push, and the choice of the    *)
(* stream to pop when several are merged.                                     *)
(*                                                                            *)
(* A block is the sequence of its values, <<>> where the code has a null      *)
(* pointer: no block is empty, in a queue or in hand.                         *)
EXTENDS Integers, Sequences, FiniteSets, FiniteSetsExt, SequencesExt

CONSTANTS ValueSize,        \* sizeof(ValueType)
          Crc,              \* per vertex, the two 16 bit parts of each of its two checksums
          BloomSetBits      \* simple_edge::bloom_set_bits

-----------------------------------------------------------------------------
(* BlockPool: the blocks are reserved by the constructor.                     *)

MemsizeInBytes(size, unit) == CASE unit = "K" -> size * 1024
                                [] unit = "M" -> size * 1048576
                                [] unit = "B" -> size

NewPool(memsize, memblocks) ==
    [capacity |-> (memsize \div memblocks) \div ValueSize, free |-> memblocks, allocated |-> 0]

Available(pool) == pool.free > 0
Allocate(pool) == [pool EXCEPT !.free = @ - 1, !.allocated = @ + 1]
Deletable(pool) == pool.allocated = 0           \* ~BlockPool asserts it
Free(pool) == [pool EXCEPT !.free = @ + 1, !.allocated = @ - 1]

-----------------------------------------------------------------------------
(* BlockInputStream and BlockFileReadPolicy                                   *)

NewInput(name, pool, rm) ==
    [file |-> name, rm |-> rm, pool |-> pool, open |-> FALSE, eof |-> FALSE, unread |-> <<>>,
     fetched |-> <<>>, queue |-> <<>>, block |-> <<>>, empty |-> FALSE, reader |-> "none"]

\* A file that cannot be opened is reported and read as an empty one.
OpenInput(s, disk) ==
    [s EXCEPT !.open = s.file \in DOMAIN disk,
              !.unread = IF s.file \in DOMAIN disk THEN disk[s.file] ELSE <<>>,
              !.empty = FALSE, !.reader = "read"]

\* Mutant of SourceEmpty: the eof bit is not looked at.
SourceClosed(s) == ~s.open

\* ReadPolicy::Empty: !(is_open() && good())
SourceEmpty(s) == ~s.open \/ s.eof

\* Mutant of ReadBlock: an empty block is not given back.
ReadBlockKeepsEmpty(s) ==
    LET n == Min({s.pool.capacity, Len(s.unread)})
    IN [s EXCEPT !.unread = SubSeq(@, n + 1, Len(@)), !.eof = n < s.pool.capacity,
                 !.fetched = SubSeq(s.unread, 1, n),
                 !.pool = Allocate(@), !.reader = IF n = 0 THEN "read" ELSE "queue"]

\* A read that does not fill the block sets the eof bit; an empty block, when
\* the file ended with the block before, is given back at once.
ReadBlock(s) ==
    LET n == Min({s.pool.capacity, Len(s.unread)})
    IN [s EXCEPT !.unread = SubSeq(@, n + 1, Len(@)), !.eof = n < s.pool.capacity,
                 !.fetched = SubSeq(s.unread, 1, n),
                 !.pool = IF n = 0 THEN @ ELSE Allocate(@),
                 !.reader = IF n = 0 THEN "read" ELSE "queue"]

\* InputLoop pushes the block; at the end of the file it sets empty_.
QueueBlock(s) ==
    [s EXCEPT !.queue = Append(@, s.fetched), !.fetched = <<>>, !.reader = "read"]
EndInput(s) == [s EXCEPT !.empty = TRUE, !.reader = "gone"]

\* Empty() returns once there is a block or empty_ is set; WaitForBlock takes
\* the block from the queue.
Answered(s) == s.block # <<>> \/ s.queue # <<>> \/ s.empty
Waited(s) ==
    IF s.block # <<>> \/ s.queue = <<>> THEN s
    ELSE [s EXCEPT !.block = Head(s.queue), !.queue = Tail(@)]
Empty(s) == s.block = <<>>

FrontValue(s) == Head(s.block)

\* A block that is over is freed.
Pop(s) == [s EXCEPT !.block = Tail(@), !.pool = IF Len(s.block) = 1 THEN Free(@) ELSE @]

-----------------------------------------------------------------------------
(* BlockOutputStream and BlockFileWritePolicy                                 *)

NewOutput(name, pool) ==
    [file |-> name, pool |-> pool, block |-> <<>>, queue |-> <<>>, stopped |-> FALSE,
     writer |-> "none"]
OpenOutput(o) == [o EXCEPT !.stopped = FALSE, !.writer = "test"]

\* OutputLoop has the mutex from its test of the queue and of stopped_ to its wait.
Unlocked(o) == o.writer # "tested"

\* notify_one reaches OutputLoop only when it waits.
Notify(o) == [o EXCEPT !.writer = IF @ = "waiting" THEN "test" ELSE @]

PushBlock(o) ==
    IF o.block = <<>> THEN o
    ELSE Notify([o EXCEPT !.queue = Append(@, o.block), !.block = <<>>])

\* Push waits for a free block when it has none, and for the mutex when the
\* value fills the block.
CanPush(o) == /\ o.block # <<>> \/ Available(o.pool)
              /\ Len(o.block) + 1 = o.pool.capacity => Unlocked(o)
Push(o, v) ==
    LET p == [o EXCEPT !.block = Append(@, v),
                       !.pool = IF o.block = <<>> THEN Allocate(@) ELSE @]
    IN IF Len(p.block) = p.pool.capacity THEN PushBlock(p) ELSE p

\* Close pushes the last block, under the mutex; then it sets stopped_ and notifies,
\* for which it does not take the mutex.
CanPushLast(o) == o.block # <<>> /\ Unlocked(o)
StopOutput(o) == Notify([o EXCEPT !.stopped = TRUE])

\* OutputLoop: with nothing to write and not stopped it goes to wait, ...
Tested(o) == [o EXCEPT !.writer = "tested"]
Wait(o) == [o EXCEPT !.writer = "waiting"]

\* ... otherwise it writes the next block, or ends when it has none.
WriteBlock(o) == [o EXCEPT !.queue = Tail(@), !.pool = Free(@)]
Written(o, content) == content \o Head(o.queue)
EndOutput(o) == [o EXCEPT !.writer = "gone"]

-----------------------------------------------------------------------------
(* The orders: numbers, and MBFSort's edges                                   *)

BfCompute(v) == [j \in 1..4 |-> Crc[v][j] % 2^BloomSetBits]

\* The i low bits of the four hash values, sorted
Masked(v, i) == SortSeq([j \in 1..4 |-> BfCompute(v)[j] % 2^i], <)

\* Mutant of HashPrefix: the masked hash values are compared as they come.
HashPrefixUnsorted ==
    [v \in DOMAIN Crc |->
       [k \in 1..4 * BloomSetBits |-> BfCompute(v)[((k - 1) % 4) + 1] % 2^((k - 1) \div 4 + 1)]]

\* What the loop of operator< compares of a vertex, in its order
HashPrefix ==
    [v \in DOMAIN Crc |->
       [k \in 1..4 * BloomSetBits |-> Masked(v, (k - 1) \div 4 + 1)[((k - 1) % 4) + 1]]]

\* operator< of simple_edge: the first difference decides, then src, then dst
EdgeLess(a, b) ==
    LET p == HashPrefix[a[1]] \o a
        q == HashPrefix[b[1]] \o b
        differ == {k \in DOMAIN p : p[k] # q[k]}
    IN differ # {} /\ p[Min(differ)] < q[Min(differ)]

NumberLess(a, b) == a < b

-----------------------------------------------------------------------------
(* The merges: sin has the streams that are not exhausted, in the order of   *)
(* the set; <<s, t>> is in less when the front of s is less than that of t.    *)

Lesser(less, s, t) == IF <<s, t>> \in less THEN s ELSE t

\* merge_2streams, merge_3streams, merge_4streams; copy_stream for one
ByComparisons(less, sin) ==
    CASE Len(sin) = 1 -> sin[1]
      [] Len(sin) = 2 -> Lesser(less, sin[1], sin[2])
      [] Len(sin) = 3 -> Lesser(less, Lesser(less, sin[1], sin[2]), sin[3])
      [] Len(sin) = 4 -> Lesser(less, Lesser(less, sin[1], sin[2]),
                                         Lesser(less, sin[3], sin[4]))

\* merge_nstreams: the front of the heap, any stream with a least front
ByHeap(less, sin) ==
    {s \in ToSet(sin) : \A t \in ToSet(sin) : <<t, s>> \notin less}

Candidates(less, sin) ==
    IF Len(sin) > 4 THEN ByHeap(less, sin) ELSE {ByComparisons(less, sin)}
=============================================================================
