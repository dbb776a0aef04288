----------------------------- MODULE DiskStream -----------------------------
(* One stream of core/split_stream.hpp (disk_stream) between the main      *)
(* thread, which appends, rewinds, reads and resets it, and the I/O thread *)
(* of core/disk_io.hpp that serves its requests.  They share the fields of *)
(* the stream without a lock and signal completion by plain flags.         *)
(*                                                                         *)
(* The main thread uses the stream in one of the ways the programs do: a   *)
(* stream of updates is appended to, rewound, read and reset; the edges    *)
(* are scanned again and again; the vertices are stored and loaded one     *)
(* super partition at a time; a stream that ingests starts empty and is    *)
(* merged with a batch after a scan (cc_online).  Compression and random   *)
(* access are left out, and DISK_PAGE_SIZE bytes are PageSize items.       *)
EXTENDS Integers, Sequences, FiniteSets, FiniteSetsExt, SequencesExt

CONSTANTS Kinds,            \* the ways of use to consider
          SuperPartitionCounts,
          NumBuffers,       \* buffers the buffer_manager can give to the stream, a
                            \* batch has one of its own
          BufferSize,       \* items that fit in a buffer
          PageSize,         \* items that fit in a disk page
          MaxItems,         \* bound: items per use of the stream
          Cycles,           \* bound: how often the stream is used
          NULL,
          APPEND            \* the value -1 of request_superp

State == 0                  \* state_buffer, which is not in the pool
Pool == 1..NumBuffers + 1
Buffers == Pool \cup {State}
Items == (UNION {0..n : n \in SuperPartitionCounts}) \X (0..Cycles) \X (1..MaxItems)

ASSUME KindsAssumption == Kinds \subseteq {"updates", "edges", "vertices", "ingested"}
ASSUME SizesAssumption ==
    {NumBuffers, BufferSize, PageSize, MaxItems, Cycles} \cup SuperPartitionCounts
        \subseteq Nat \ {0}
ASSUME NullAssumption == NULL \notin Buffers \cup Items /\ APPEND \notin Nat

VARIABLES kind, superPartitions,   \* how the stream is used, and its number of files
          batch,                  \* ingest_buffers
          pc, cycle, superp, i,   \* the main thread; i: the loop of rewind
          buf, startPos,          \* its buffer, and current_pos of read
          request, requestSuperp, cache, writeOp, oneShot, flushComplete, eofFlag,
          disk,                   \* per super partition, see below
          queue,                  \* how often ioq hands out the stream
          io,                     \* the I/O thread: "idle", "busy" or "late"
          content, uptodate, dirty, refcount,   \* the buffers
          sent, got,              \* history: items given to and got from the stream
          overtaken,              \* history, see Overtakes
          fatal                   \* the assertion that failed, or "no"

use == <<kind, superPartitions, batch>>
mainVars == <<use, cycle, superp, i, buf, startPos>>
streamVars == <<request, requestSuperp, cache, writeOp, oneShot, flushComplete, eofFlag>>
bufferVars == <<content, uptodate, dirty, refcount>>
histVars == <<sent, got>>
vars == <<pc, mainVars, streamVars, disk, queue, io, bufferVars, histVars, overtaken, fatal>>

Supers == 0..superPartitions - 1

At(l) == pc = l /\ fatal = "no"          \* the main thread is at l
Served == io = "busy" /\ fatal = "no"

-----------------------------------------------------------------------------
(* A file: its contents and the file offset, and what disk_stream knows of *)
(* it: disk_pos, disk_bytes and the disk page that holds a partial page.   *)

EmptyDisk == [file |-> <<>>, seek |-> 0, pos |-> 0, bytes |-> 0,
              page |-> [k \in 1..PageSize |-> NULL]]

\* write() at the file offset
PutFile(d, data) ==
    LET last == d.seek + Len(data)
    IN [d EXCEPT !.seek = last,
                 !.file = [k \in 1..Max({Len(d.file), last}) |->
                             IF k > d.seek /\ k <= last THEN data[k - d.seek] ELSE d.file[k]]]

\* data copied over a page from offset on
Onto(page, offset, data) ==
    [k \in 1..PageSize |-> IF k - offset \in DOMAIN data THEN data[k - offset] ELSE page[k]]

Rounded(n) == (n \div PageSize) * PageSize

\* Mutant of Write: the page that the last write left incomplete is not continued.
WriteFresh(d, data) ==
    LET whole == Rounded(Len(data))
        d1 == PutFile(d, SubSeq(data, 1, whole))
    IN [d1 EXCEPT !.pos = @ + Len(data), !.bytes = @ + Len(data),
                  !.page = Onto(@, 0, SubSeq(data, whole + 1, Len(data)))]

\* do_write_IO: complete the page in memory, write whole pages, keep the rest.
Write(d, data) ==
    LET offset == d.pos % PageSize
        head == IF offset = 0 THEN 0 ELSE Min({PageSize - offset, Len(data)})
        d1 == [d EXCEPT !.page = Onto(@, offset, SubSeq(data, 1, head))]
        d2 == IF head > 0 /\ offset + head = PageSize THEN PutFile(d1, d1.page) ELSE d1
        whole == head + Rounded(Len(data) - head)
        d3 == PutFile(d2, SubSeq(data, head + 1, whole))
    IN [d3 EXCEPT !.pos = @ + Len(data), !.bytes = @ + Len(data),
                  !.page = Onto(@, 0, SubSeq(data, whole + 1, Len(data)))]

\* flush_one
Flushed(d) == IF d.pos % PageSize > 0 THEN PutFile(d, d.page) ELSE d

\* read(): n items from the k-th on, or what there is of them
FileAt(d, k, n) == SubSeq(d.file, k + 1, Min({k + n, Len(d.file)}))

\* The number of items read_operator asks for, and do_read_IO: what is left of
\* the page in memory, whole pages, and the page that the last items are on.
ReadSize(d) == Min({d.bytes - d.pos, BufferSize})
Read(d) ==
    LET n == ReadSize(d)
        offset == d.pos % PageSize
        head == IF offset = 0 THEN 0 ELSE Min({PageSize - offset, n})
        whole == Rounded(n - head)
        tail == n - head - whole
        next == FileAt(d, d.seek + whole, PageSize)
        page == IF tail = 0 THEN d.page ELSE Onto(d.page, 0, next)
    IN [data |-> SubSeq(d.page, offset + 1, offset + head)
                   \o FileAt(d, d.seek, whole) \o SubSeq(page, 1, tail),
        disk |-> [d EXCEPT !.pos = @ + n, !.page = page,
                           !.seek = Min({Len(d.file), @ + whole + (IF tail = 0 THEN 0 ELSE PageSize)})]]

DiskEmpty == \A s \in Supers : disk[s].bytes = 0
Eof(s) == disk[s].pos = disk[s].bytes

-----------------------------------------------------------------------------
(* Buffers and the queue *)

FreeBuffers == {b \in Pool : refcount[b] = 0 /\ (kind = "ingested" \/ b <= NumBuffers)}

\* set_refcount to one less: what it asserts, and the new counts.
DropError(b) == IF refcount[b] = 1 /\ ~uptodate[b] THEN "Trying to free a busy buffer !"
                ELSE IF refcount[b] = 1 /\ dirty[b] THEN "Trying to free a dirty buffer !"
                ELSE "no"
Dropped(b) == [refcount EXCEPT ![b] = @ - 1]

\* wait_uptodate on the pending request, if there is one.
RequestDone == request # NULL => uptodate[request]

\* ioq::add_work.  The list is linked through the stream: added a second time
\* it is its own successor and is handed out twice.
AddWork == queue' = IF queue = 0 THEN 1 ELSE 2

\* request = b, to be written or read
Submit(b, write) ==
    /\ request' = b /\ writeOp' = write
    /\ uptodate' = [uptodate EXCEPT ![b] = FALSE]
    /\ AddWork

Init ==
    /\ kind \in Kinds /\ superPartitions \in SuperPartitionCounts
    /\ kind = "vertices" => superPartitions > 1    \* otherwise they stay in memory
    /\ kind = "ingested" => superPartitions = 1    \* "Error in partitioning ingest !"
    /\ pc = CASE kind = "updates" -> "fill" [] kind = "edges" -> "rewind" [] kind = "vertices" -> "load"
              [] kind = "ingested" -> "ingest"
    /\ batch = NULL
    /\ cycle = 0 /\ superp = 0 /\ i = 0 /\ buf = NULL /\ startPos = 0
    /\ request = NULL /\ requestSuperp = APPEND /\ cache = NULL
    /\ writeOp = FALSE /\ oneShot = FALSE /\ flushComplete = TRUE /\ eofFlag = FALSE
    /\ \E size \in IF kind = "edges" THEN [Supers -> 0..MaxItems \div superPartitions] ELSE {[s \in Supers |-> 0]} :
         /\ sent = [s \in Supers |-> [k \in 1..size[s] |-> <<s, 0, k>>]]
         /\ disk = [s \in Supers |-> [EmptyDisk EXCEPT !.file = sent[s], !.bytes = size[s]]]
    /\ queue = 0 /\ io = "idle"
    /\ content = [b \in Buffers |-> <<>>]
    /\ uptodate = [b \in Buffers |-> TRUE]
    /\ dirty = [b \in Buffers |-> FALSE]
    /\ refcount = [b \in Buffers |-> 0]
    /\ got = [s \in Supers |-> <<>>]
    /\ overtaken = FALSE /\ fatal = "no"

-----------------------------------------------------------------------------
(* append: the previous write must be over before the next is submitted *)

\* The workers have filled an output buffer, which now is dirty.  make_index has
\* put the items for one super partition behind each other: cut is the index.
Fill ==
    /\ At("fill") /\ FreeBuffers # {}
    /\ \E cut \in [0..superPartitions -> 0..BufferSize] :
         LET size(s) == cut[s + 1] - cut[s]
             item(s, k) == <<s, cycle, Len(sent[s]) + k>>
             home(k) == CHOOSE s \in Supers : cut[s] < k /\ k <= cut[s + 1]
         IN /\ cut[0] = 0 /\ cut[superPartitions] > 0
            /\ \A s, t \in 0..superPartitions : s <= t => cut[s] <= cut[t]
            /\ \A s \in Supers : Len(sent[s]) + size(s) <= MaxItems \div superPartitions
            /\ sent' = [s \in Supers |-> sent[s] \o [k \in 1..size(s) |-> item(s, k)]]
            /\ buf' = Min(FreeBuffers)
            /\ content' = [content EXCEPT ![buf'] =
                 [k \in 1..cut[superPartitions] |-> item(home(k), k - cut[home(k)])]]
            /\ dirty' = [dirty EXCEPT ![buf'] = TRUE]
            /\ refcount' = [refcount EXCEPT ![buf'] = 1]
    /\ pc' = "append"
    /\ UNCHANGED <<use, cycle, superp, i, startPos, streamVars, disk, queue, io, uptodate, got, fatal>>

\* Who calls append: the end of a filled buffer, or ingest.
AfterAppend == pc' = IF kind = "ingested" THEN "merged" ELSE "fill"

InMemory == DiskEmpty /\ cache = NULL /\ superPartitions = 1

\* The first buffer of an empty stream is only cached.
AppendToCache ==
    /\ At("append") /\ RequestDone /\ InMemory
    /\ cache' = buf
    /\ fatal' = IF request = NULL THEN "no" ELSE "BUG: empty file after append"
    /\ AfterAppend
    /\ UNCHANGED <<mainVars, request, requestSuperp, writeOp, oneShot, flushComplete, eofFlag,
                   disk, queue, io, bufferVars, histVars>>

\* The cached buffer is written before the second one.
AppendSpill ==
    /\ At("append") /\ RequestDone /\ ~InMemory /\ cache # NULL
    /\ Submit(cache, TRUE)
    /\ pc' = "spill"
    /\ UNCHANGED <<mainVars, requestSuperp, cache, oneShot, flushComplete, eofFlag, disk, io,
                   content, dirty, refcount, histVars, fatal>>

AppendSpilled ==
    /\ At("spill") /\ uptodate[request]
    /\ refcount' = Dropped(request) /\ fatal' = DropError(request)
    /\ cache' = NULL
    /\ Submit(buf, TRUE)
    /\ AfterAppend
    /\ UNCHANGED <<mainVars, requestSuperp, oneShot, flushComplete, eofFlag, disk, io,
                   content, dirty, histVars>>

\* Mutant of AppendToDisk: it does not wait for the write before.
AppendNoWait ==
    /\ At("append") /\ ~InMemory /\ cache = NULL
    /\ IF request = NULL THEN UNCHANGED <<refcount, fatal>>
       ELSE refcount' = Dropped(request) /\ fatal' = DropError(request)
    /\ Submit(buf, TRUE)
    /\ AfterAppend
    /\ UNCHANGED <<mainVars, requestSuperp, cache, oneShot, flushComplete, eofFlag, disk, io,
                   content, dirty, histVars>>

AppendToDisk ==
    /\ At("append") /\ RequestDone /\ ~InMemory /\ cache = NULL
    /\ IF request = NULL THEN UNCHANGED <<refcount, fatal>>
       ELSE refcount' = Dropped(request) /\ fatal' = DropError(request)
    /\ Submit(buf, TRUE)
    /\ AfterAppend
    /\ UNCHANGED <<mainVars, requestSuperp, cache, oneShot, flushComplete, eofFlag, disk, io,
                   content, dirty, histVars>>

-----------------------------------------------------------------------------
(* rewind and reset *)

EndFill ==
    /\ At("fill")
    /\ pc' = "rewind"
    /\ UNCHANGED <<mainVars, streamVars, disk, queue, io, bufferVars, histVars, fatal>>

AfterRewind == pc' = IF kind = "vertices" THEN "load" ELSE "scan"

RewindCached ==
    /\ At("rewind") /\ cache # NULL
    /\ eofFlag' = FALSE
    /\ requestSuperp' = IF requestSuperp = APPEND THEN 0 ELSE requestSuperp
    /\ fatal' = IF request = NULL THEN "no" ELSE "Request pending while block cached !"
    /\ superp' = 0 /\ AfterRewind
    /\ UNCHANGED <<use, cycle, i, buf, startPos, request, cache, writeOp, oneShot, flushComplete,
                   disk, queue, io, bufferVars, histVars>>

RewindDisk ==
    /\ At("rewind") /\ cache = NULL /\ RequestDone
    /\ eofFlag' = FALSE
    /\ IF request = NULL THEN UNCHANGED <<refcount, fatal>>
       ELSE refcount' = Dropped(request) /\ fatal' = DropError(request)
    /\ request' = NULL
    /\ i' = 0 /\ pc' = "flush"
    /\ UNCHANGED <<use, cycle, superp, buf, startPos, requestSuperp, cache, writeOp, oneShot,
                   flushComplete, disk, queue, io, content, uptodate, dirty, histVars>>

NeedsFlush == requestSuperp = APPEND /\ disk[i].pos > 0 /\ disk[i].bytes > 0

StartFlush ==
    /\ At("flush") /\ NeedsFlush
    /\ flushComplete' = FALSE /\ writeOp' = TRUE /\ AddWork
    /\ pc' = "flushing"
    /\ UNCHANGED <<mainVars, request, requestSuperp, cache, oneShot, eofFlag, disk, io,
                   bufferVars, histVars, fatal>>

\* rewind_file(superp_fd[i]); disk_pos[i] = 0
RewindFile ==
    /\ \/ At("flush") /\ ~NeedsFlush
       \/ At("flushing") /\ flushComplete
    /\ disk' = [disk EXCEPT ![i].seek = 0, ![i].pos = 0]
    /\ IF i < superPartitions - 1
       THEN i' = i + 1 /\ pc' = "flush" /\ UNCHANGED <<superp, requestSuperp>>
       ELSE requestSuperp' = APPEND /\ superp' = 0 /\ AfterRewind /\ UNCHANGED i
    /\ UNCHANGED <<use, cycle, buf, startPos, request, cache, writeOp, oneShot, flushComplete,
                   eofFlag, queue, io, bufferVars, histVars, fatal>>

\* On to the next super partition at step l, or to the next use at step first.
Advance(l, first) ==
    IF superp < superPartitions - 1
    THEN superp' = superp + 1 /\ pc' = l /\ UNCHANGED cycle
    ELSE superp' = 0 /\ cycle' = cycle + 1 /\ pc' = IF cycle = Cycles THEN "done" ELSE first

\* A cached buffer is given back unwritten, the file is emptied.
Reset ==
    /\ At("reset") /\ RequestDone
    /\ requestSuperp' = APPEND /\ eofFlag' = FALSE
    /\ dirty' = [b \in Buffers |-> dirty[b] /\ b # cache]
    /\ refcount' = [b \in Buffers |-> refcount[b] - (IF b \in {cache, request} THEN 1 ELSE 0)]
    /\ cache' = NULL /\ request' = NULL
    /\ fatal' = IF cache # NULL /\ request # NULL THEN "Request pending while block cached !"
                ELSE IF cache # NULL /\ ~uptodate[cache] THEN "Trying to free a busy buffer !"
                ELSE "no"
    /\ disk' = [disk EXCEPT ![superp] = IF @.bytes = 0 THEN [@ EXCEPT !.pos = 0]
                                        ELSE [EmptyDisk EXCEPT !.page = disk[superp].page]]
    /\ sent' = [sent EXCEPT ![superp] = <<>>] /\ got' = [got EXCEPT ![superp] = <<>>]
    /\ Advance("scan", "fill")
    /\ UNCHANGED <<use, i, buf, startPos, writeOp, oneShot, flushComplete, queue, io,
                   content, uptodate>>

-----------------------------------------------------------------------------
(* do_stream: while (!stream_eof(superp)) read(superp), with one buffer of *)
(* read-ahead *)

StreamEof == IF cache # NULL THEN eofFlag
             ELSE ~(request # NULL /\ requestSuperp = superp) /\ Eof(superp)

ReadCached ==
    /\ At("scan") /\ ~StreamEof /\ cache # NULL
    /\ eofFlag' = TRUE
    /\ refcount' = [refcount EXCEPT ![cache] = @ + 1]
    /\ buf' = cache
    /\ fatal' = IF requestSuperp = APPEND THEN "Invalid request_superp" ELSE "no"
    /\ pc' = "consume"
    /\ UNCHANGED <<use, cycle, superp, i, startPos, request, requestSuperp, cache, writeOp,
                   oneShot, flushComplete, disk, queue, io, content, uptodate, dirty, histVars>>

\* The pending request is for this super partition, since a scan goes to the
\* end before the next one starts (TypeOK).
ReadFirst ==
    /\ At("scan") /\ ~StreamEof /\ cache = NULL
    /\ startPos' = disk[superp].pos
    /\ IF request = NULL
       THEN /\ FreeBuffers # {}
            /\ Submit(Min(FreeBuffers), FALSE)
            /\ refcount' = [refcount EXCEPT ![request'] = 1]
            /\ requestSuperp' = superp
       ELSE UNCHANGED <<request, requestSuperp, writeOp, uptodate, queue, refcount>>
    /\ pc' = "reading"
    /\ UNCHANGED <<use, cycle, superp, i, buf, cache, oneShot, flushComplete, eofFlag, disk, io,
                   content, dirty, histVars, fatal>>

ReadAhead ==
    /\ At("reading") /\ uptodate[request] /\ ~Eof(superp) /\ FreeBuffers # {}
    /\ buf' = request
    /\ Submit(Min(FreeBuffers), FALSE)
    /\ refcount' = [refcount EXCEPT ![request'] = 1]
    /\ pc' = "consume"
    /\ UNCHANGED <<use, cycle, superp, i, startPos, requestSuperp, cache, oneShot, flushComplete,
                   eofFlag, disk, io, content, dirty, histVars, fatal>>

\* The last part; if it was also the first, and of the only file, it is kept.
ReadLast ==
    /\ At("reading") /\ uptodate[request] /\ Eof(superp)
    /\ buf' = request
    /\ IF superPartitions = 1 /\ startPos = 0
       THEN /\ cache' = request /\ eofFlag' = TRUE
            /\ refcount' = [refcount EXCEPT ![request] = @ + 1]
       ELSE UNCHANGED <<cache, eofFlag, refcount>>
    /\ request' = NULL
    /\ pc' = "consume"
    /\ UNCHANGED <<use, cycle, superp, i, startPos, requestSuperp, writeOp, oneShot, flushComplete,
                   disk, queue, io, content, uptodate, dirty, histVars, fatal>>

\* Mutant of Consume: the reference is kept.
ConsumeKeeps ==
    /\ At("consume")
    /\ got' = [got EXCEPT ![superp] = @ \o content[buf]]
    /\ buf' = NULL
    /\ pc' = "scan"
    /\ UNCHANGED <<use, cycle, superp, i, startPos, streamVars, disk, queue, io, bufferVars, sent, fatal>>

\* The workers have processed the buffer.
Consume ==
    /\ At("consume")
    /\ got' = [got EXCEPT ![superp] = @ \o content[buf]]
    /\ refcount' = Dropped(buf) /\ fatal' = DropError(buf)
    /\ buf' = NULL
    /\ pc' = "scan"
    /\ UNCHANGED <<use, cycle, superp, i, startPos, streamVars, disk, queue, io, content,
                   uptodate, dirty, sent>>

ScanEnd ==
    /\ At("scan") /\ StreamEof
    /\ IF kind = "updates"
       THEN pc' = "reset" /\ UNCHANGED <<superp, cycle, got>>
       ELSE /\ got' = [got EXCEPT ![superp] = <<>>]
            /\ IF kind = "edges" THEN Advance("scan", "rewind")
               ELSE pc' = (IF batch = NULL THEN "ingest" ELSE "merge") /\ UNCHANGED <<superp, cycle>>
    /\ UNCHANGED <<use, i, buf, startPos, streamVars, disk, queue, io, bufferVars, sent, fatal>>

-----------------------------------------------------------------------------
(* ingest and merge_ingest: a batch from the shared segment is held in a     *)
(* buffer during a scan and then put at the end of the stream.               *)

Ingest ==
    /\ At("ingest") /\ FreeBuffers # {}
    /\ \E n \in 1..Min({BufferSize, MaxItems - Len(sent[0])}) :
         content' = [content EXCEPT ![Min(FreeBuffers)] = [k \in 1..n |-> <<0, 0, Len(sent[0]) + k>>]]
    /\ batch' = Min(FreeBuffers)
    /\ refcount' = [refcount EXCEPT ![batch'] = 1]
    /\ pc' = "rewind"
    /\ UNCHANGED <<kind, superPartitions, cycle, superp, i, buf, startPos, streamVars, disk, queue, io,
                   uptodate, dirty, histVars, fatal>>

IngestEof ==
    /\ At("ingest")
    /\ pc' = "done"
    /\ UNCHANGED <<mainVars, streamVars, disk, queue, io, bufferVars, histVars, fatal>>

Merging == At("merge") /\ requestSuperp' = APPEND
Sent == sent' = [sent EXCEPT ![0] = @ \o content[batch]]

\* append(ingest_buffer)
AppendBatch ==
    /\ buf' = batch /\ batch' = NULL
    /\ dirty' = [dirty EXCEPT ![batch] = TRUE]
    /\ pc' = "append"

MergeEmpty ==
    /\ Merging /\ cache = NULL /\ request = NULL /\ DiskEmpty
    /\ Sent /\ AppendBatch
    /\ UNCHANGED <<kind, superPartitions, cycle, superp, i, startPos, request, cache, writeOp, oneShot,
                   flushComplete, eofFlag, disk, queue, io, content, uptodate, refcount, got, fatal>>

\* As much as there is room for is copied to the cached buffer, from the end of
\* the batch; what does not fit makes the stream one of the disk.
MergeCached ==
    /\ Merging /\ cache # NULL
    /\ LET n == Len(content[batch])
           space == Min({BufferSize - Len(content[cache]), n})
       IN /\ content' = [content EXCEPT ![cache] = @ \o SubSeq(content[batch], n - space + 1, n),
                                       ![batch] = SubSeq(@, 1, n - space)]
          /\ IF space < n
             THEN /\ Submit(cache, TRUE)
                  /\ pc' = "spillBatch" /\ UNCHANGED <<batch, refcount, fatal>>
             ELSE /\ refcount' = Dropped(batch) /\ fatal' = DropError(batch)
                  /\ batch' = NULL
                  /\ pc' = "merged" /\ UNCHANGED <<request, writeOp, uptodate, queue>>
    /\ Sent
    /\ UNCHANGED <<kind, superPartitions, cycle, superp, i, buf, startPos, cache, oneShot, flushComplete,
                   eofFlag, disk, io, dirty, got>>

\* Mutant of ToEnd: the file offset stays where the scan has left it.
ToEndUnsought(d) == [d EXCEPT !.pos = d.bytes]

\* disk_pos, and set_filepos to the page it is in
ToEnd(d) == [d EXCEPT !.pos = d.bytes, !.seek = Rounded(d.bytes)]

MergeSpilled ==
    /\ At("spillBatch") /\ uptodate[request]
    /\ refcount' = Dropped(request) /\ fatal' = DropError(request)
    /\ request' = NULL /\ cache' = NULL
    /\ disk' = [s \in Supers |-> ToEnd(disk[s])]
    /\ AppendBatch
    /\ UNCHANGED <<kind, superPartitions, cycle, superp, i, startPos, requestSuperp, writeOp, oneShot,
                   flushComplete, eofFlag, queue, io, content, uptodate, histVars>>

MergeOnDisk ==
    /\ Merging /\ cache = NULL /\ ~DiskEmpty
    /\ fatal' = IF request = NULL THEN "no" ELSE "Stream not at end when ingesting"
    /\ disk' = [s \in Supers |-> ToEnd(disk[s])]
    /\ Sent /\ AppendBatch
    /\ UNCHANGED <<kind, superPartitions, cycle, superp, i, startPos, request, cache, writeOp, oneShot,
                   flushComplete, eofFlag, queue, io, content, uptodate, refcount, got>>

\* The program scans the stream again, or goes on to the next batch.
Merged ==
    /\ At("merged")
    /\ pc' \in {"rewind", "ingest"}
    /\ UNCHANGED <<mainVars, streamVars, disk, queue, io, bufferVars, histVars, fatal>>

-----------------------------------------------------------------------------
(* state_load, state_prepare and state_store: one-shot requests *)

\* Mutant of OneShot: the buffer is not marked as being in use.
OneShotUnmarked(write) ==
    /\ oneShot' = TRUE /\ requestSuperp' = superp
    /\ request' = State /\ writeOp' = write
    /\ AddWork
    /\ UNCHANGED uptodate

OneShot(write) ==
    /\ oneShot' = TRUE /\ requestSuperp' = superp
    /\ Submit(State, write)

\* Nothing is loaded in the first superstep.
Load ==
    /\ At("load") /\ (cycle > 0 => uptodate[State])
    /\ IF cycle = 0 THEN UNCHANGED <<oneShot, requestSuperp, request, writeOp, uptodate, queue>>
       ELSE OneShot(FALSE)
    /\ pc' = "prepare"
    /\ UNCHANGED <<mainVars, cache, flushComplete, eofFlag, disk, io, content, dirty, refcount,
                   histVars, fatal>>

Prepare ==
    /\ At("prepare") /\ uptodate[State]
    /\ pc' = "work"
    /\ UNCHANGED <<mainVars, streamVars, disk, queue, io, bufferVars, histVars, fatal>>

\* The superstep changes the vertices of the super partition.
Compute ==
    /\ At("work")
    /\ content' = [content EXCEPT ![State] = <<<<superp, cycle, 1>>>>]
    /\ pc' = "store"
    /\ UNCHANGED <<mainVars, streamVars, disk, queue, io, uptodate, dirty, refcount, histVars, fatal>>

Store ==
    /\ At("store") /\ uptodate[State]
    /\ dirty' = [dirty EXCEPT ![State] = TRUE]
    /\ OneShot(TRUE)
    /\ sent' = [sent EXCEPT ![superp] = content[State]]
    /\ pc' = "storing"
    /\ UNCHANGED <<mainVars, cache, flushComplete, eofFlag, disk, io, content, refcount, got, fatal>>

Stored ==
    /\ At("storing") /\ uptodate[State]
    /\ Advance("load", "rewind")
    /\ UNCHANGED <<use, i, buf, startPos, streamVars, disk, queue, io, bufferVars, histVars, fatal>>

-----------------------------------------------------------------------------
(* The I/O thread *)

\* get_work
Take ==
    /\ io = "idle" /\ queue > 0 /\ fatal = "no"
    /\ queue' = queue - 1 /\ io' = "busy"
    /\ UNCHANGED <<pc, mainVars, streamVars, disk, bufferVars, histVars, fatal>>

\* Without a request to read into, or a super partition to read from, the
\* thread dereferences NULL or leaves the arrays.
Lost == IF request = NULL \/ requestSuperp = APPEND THEN "no request" ELSE "no"

\* read_operator
DoRead ==
    /\ Served /\ ~writeOp /\ ~oneShot
    /\ IF Lost # "no" THEN fatal' = Lost /\ UNCHANGED <<content, disk, uptodate>>
       ELSE LET r == Read(disk[requestSuperp])
            IN /\ content' = [content EXCEPT ![request] = r.data]
               /\ disk' = [disk EXCEPT ![requestSuperp] = r.disk]
               /\ uptodate' = [uptodate EXCEPT ![request] = TRUE]
               /\ UNCHANGED fatal
    /\ io' = "idle"
    /\ UNCHANGED <<pc, mainVars, streamVars, queue, dirty, refcount, histVars>>

\* What fits of the file; the rest of the buffer is as it was.
DoReadOneShot ==
    /\ Served /\ ~writeOp /\ oneShot
    /\ content' = [content EXCEPT ![request] =
                     LET f == disk[requestSuperp].file IN IF f = <<>> THEN @ ELSE <<f[1]>>]
    /\ disk' = [disk EXCEPT ![requestSuperp].seek = Min({1, Len(disk[requestSuperp].file)})]
    /\ oneShot' = FALSE
    /\ uptodate' = [uptodate EXCEPT ![request] = TRUE]
    /\ io' = "idle"
    /\ UNCHANGED <<pc, mainVars, request, requestSuperp, cache, writeOp, flushComplete, eofFlag,
                   queue, dirty, refcount, histVars, fatal>>

CleanError == IF dirty[request] THEN "no" ELSE "Trying to write out clean buffer !"

\* get_substream: the items for super partition s, which are behind those for
\* smaller ones.
Substream(data, s) ==
    LET before(n) == Cardinality({k \in DOMAIN data : data[k][1] < n})
    IN SubSeq(data, before(s) + 1, before(s + 1))

\* write_operator with write_internal: the part of the buffer that is for it is
\* appended to each file.
DoWrite ==
    /\ Served /\ writeOp /\ request # NULL /\ ~oneShot
    /\ fatal' = CleanError
    /\ disk' = [s \in Supers |-> Write(disk[s], Substream(content[request], s))]
    /\ dirty' = [dirty EXCEPT ![request] = FALSE]
    /\ uptodate' = [uptodate EXCEPT ![request] = TRUE]
    /\ io' = "late"
    /\ UNCHANGED <<pc, mainVars, request, requestSuperp, cache, writeOp, oneShot, flushComplete, eofFlag,
                   queue, content, refcount, histVars>>

\* The whole buffer is written to the start of one file.
DoWriteOneShot ==
    /\ Served /\ writeOp /\ request # NULL /\ oneShot
    /\ fatal' = CleanError
    /\ disk' = [disk EXCEPT ![requestSuperp] = PutFile([@ EXCEPT !.seek = 0], content[request])]
    /\ oneShot' = FALSE
    /\ dirty' = [dirty EXCEPT ![request] = FALSE]
    /\ uptodate' = [uptodate EXCEPT ![request] = TRUE]
    /\ io' = "late"
    /\ UNCHANGED <<pc, mainVars, request, requestSuperp, cache, writeOp, flushComplete, eofFlag, queue, content,
                   refcount, histVars>>

\* The end of write_operator.  After write_internal has announced a one-shot write, write_operator does so
\* again, whatever the request is by then.
FinishWrite ==
    /\ io = "late" /\ fatal = "no"
    /\ IF kind # "vertices" THEN UNCHANGED <<dirty, uptodate, fatal>>
       ELSE IF request = NULL THEN fatal' = "no request" /\ UNCHANGED <<dirty, uptodate>>
       ELSE /\ dirty' = [dirty EXCEPT ![request] = FALSE]
            /\ uptodate' = [uptodate EXCEPT ![request] = TRUE]
            /\ UNCHANGED fatal
    /\ flushComplete' = TRUE /\ io' = "idle"
    /\ UNCHANGED <<pc, mainVars, request, requestSuperp, cache, writeOp, oneShot, eofFlag, disk,
                   queue, content, refcount, histVars>>

\* Mutant of DoFlush: the main thread is not told.
DoFlushSilently ==
    /\ Served /\ writeOp /\ request = NULL
    /\ disk' = [s \in Supers |-> Flushed(disk[s])]
    /\ io' = "idle"
    /\ UNCHANGED <<pc, mainVars, streamVars, queue, bufferVars, histVars, fatal>>

\* A write without a request is a flush of all files.
DoFlush ==
    /\ Served /\ writeOp /\ request = NULL
    /\ disk' = [s \in Supers |-> Flushed(disk[s])]
    /\ flushComplete' = TRUE /\ io' = "idle"
    /\ UNCHANGED <<pc, mainVars, request, requestSuperp, cache, writeOp, oneShot, eofFlag,
                   queue, bufferVars, histVars, fatal>>

\* The I/O thread is "late": the main thread knows that the write is over, though
\* the stores that announce it are still to come.  It has asked for a flush since, or
\* for a one-shot request (or, in rewind, dropped the last one): what the thread
\* still stores will be taken for the answer to that.
Overtakes == /\ io = "late"
             /\ \/ ~flushComplete
                \/ kind = "vertices" /\ (request = NULL \/ ~uptodate[request])

Operation == \/ Fill \/ AppendToCache \/ AppendSpill \/ AppendSpilled \/ AppendToDisk \/ EndFill
             \/ RewindCached \/ RewindDisk \/ StartFlush \/ RewindFile \/ Reset
             \/ ReadCached \/ ReadFirst \/ ReadAhead \/ ReadLast \/ Consume \/ ScanEnd
             \/ Ingest \/ IngestEof \/ MergeEmpty \/ MergeCached \/ MergeSpilled \/ MergeOnDisk
             \/ Merged \/ Load \/ Prepare \/ Compute \/ Store \/ Stored
Service == \/ Take \/ DoRead \/ DoReadOneShot \/ DoWrite \/ DoWriteOneShot \/ FinishWrite
           \/ DoFlush

Main == Operation /\ overtaken' = (overtaken \/ Overtakes')
IOThread == Service /\ UNCHANGED overtaken

Next == Main \/ IOThread

Spec == Init /\ [][Next]_vars

\* Both threads are scheduled and the disk answers.
FairSpec == Spec /\ WF_vars(Main) /\ WF_vars(IOThread)

-----------------------------------------------------------------------------
(* Properties *)

TypeOK ==
    /\ cycle \in 0..Cycles + 1 /\ superp \in Supers /\ i \in Supers /\ queue \in 0..2
    /\ {request, cache, buf, batch} \subseteq Buffers \cup {NULL} /\ requestSuperp \in Supers \cup {APPEND}
    /\ \A b \in Buffers : content[b] \in Seq(Items) /\ Len(content[b]) <= BufferSize
    /\ \A s \in Supers : /\ Len(disk[s].page) = PageSize
                         /\ disk[s].pos \in 0..disk[s].bytes
                         /\ sent[s] \in Seq(Items) /\ Len(sent[s]) <= MaxItems
    /\ io \in {"idle", "busy", "late"}
    /\ pc \in {"scan", "reading"} /\ request # NULL => requestSuperp = superp

\* A scan of a super partition returns exactly what was appended for it, in
\* order, although the tail of every file was in a page in memory until rewind;
\* what was ingested comes back once, not necessarily in order.  A rewind that has
\* overtaken the end of the write before does not wait for its flush: excepted.
Delivered ==
    ~overtaken =>
    LET all == pc \in {"scan", "reset"} /\ StreamEof
    IN IF kind # "ingested"
       THEN /\ \A s \in Supers : IsPrefix(got[s], sent[s])
            /\ all => got[superp] = sent[superp]
       ELSE /\ IsInjective(got[0]) /\ ToSet(got[0]) \subseteq ToSet(sent[0])
            /\ all => ToSet(got[0]) = ToSet(sent[0])

\* When the vertices of a super partition are worked on they are the ones that
\* were stored last.
StateLoaded == pc = "work" /\ cycle > 0 => content[State] = sent[superp]

\* The stream is never on the queue a second time.
QueuedOnce == queue <= 1 /\ (io = "busy" => queue = 0)

\* No buffer is given away or changed while the I/O thread works on it, not even
\* by a main thread that has overtaken it.
BusyHeld ==
    \A b \in Pool : ~uptodate[b] =>
        /\ refcount'[b] > 0
        /\ (Main => content'[b] = content[b] /\ dirty'[b] = dirty[b])
BusyBuffersHeld == [][BusyHeld]_vars

\* None of the assertions of disk_stream, memory_buffer and disk_io fails.
NoAssertionFails == fatal = "no"

\* get_buffer finds a buffer: two are enough for a stream, and one for a batch.
NeverOutOfBuffers ==
    \/ pc = "fill"
    \/ At("scan") /\ ~StreamEof /\ cache = NULL /\ request = NULL
    \/ pc = "ingest"
    \/ At("reading") /\ uptodate[request] /\ ~Eof(superp)
    => FreeBuffers # {}

\* Every operation on the stream returns, unless the main thread overtakes the I/O
\* thread: nothing else makes one of them wait for ever.
StreamEnds == <>(pc = "done" \/ overtaken)

\* The invariants of requests and buffers: two buffers are enough; and unless the
\* main thread has overtaken the I/O thread a stream is queued at most once, no
\* assertion fails and the vertices loaded are those stored.
StreamInv == /\ TypeOK /\ NeverOutOfBuffers
             /\ ~overtaken => StateLoaded /\ QueuedOnce /\ NoAssertionFails
=============================================================================
