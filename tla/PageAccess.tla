----------------------------- MODULE PageAccess -----------------------------
(* core/disk_io.hpp: a stream with a bitset is read page by page, and the    *)
(* vertices are written block by block.  Runs of set bits become one request *)
(* each; up to NumSubrequests are submitted at once, and each that completes *)
(* is followed by the next.                                                  *)
EXTENDS Integers, Sequences, FiniteSets, FiniteSetsExt, SequencesExt

CONSTANTS NumSubrequests,       \* num_subreq, 64 in the code
          SubBufSize,           \* sub_buf_size: items of an edge page
          MaxWrite,             \* 1 << 30, in blocks
          NONE                  \* the value -1 of random_pos

ASSUME PageAssumption ==
    {NumSubrequests, SubBufSize, MaxWrite} \subseteq Nat \ {0} /\ NONE \notin Nat

FindFirst(bits) == IF bits = {} THEN NONE ELSE Min(bits)
FindNext(bits, last) == FindFirst({b \in bits : b > last})

\* The pages of the longest run from first on whose beginning has room.
RunLength(bits, first, room) ==
    Max({k \in 1..Cardinality(bits) :
           first..first + k - 1 \subseteq bits /\ 1..k - 1 \subseteq room})

PageRun(bits, first, processed, bufbytes) ==
    RunLength(bits, first, {j \in 1..Cardinality(bits) : processed + j * SubBufSize < bufbytes})

\* search_and_update_next_positions, for a reader r = [pos, processed, eof,
\* inflight, error] of a file of fileBytes: its next request.
NextRead(r, bits, bufbytes, fileBytes) ==
    LET pages == PageRun(bits, r.pos, r.processed, bufbytes)
        offset == r.pos * SubBufSize
        next == FindNext(bits, r.pos + pages - 1)
        clipped == offset + pages * SubBufSize > fileBytes
        length == IF clipped THEN fileBytes - offset ELSE pages * SubBufSize
    IN [pos |-> next, processed |-> r.processed + length,
        eof |-> r.eof \/ clipped \/ next = NONE,
        inflight |-> r.inflight \cup {[at |-> r.processed, offset |-> offset, length |-> length]},
        error |-> IF r.error # "no" THEN r.error
                  ELSE IF r.processed + SubBufSize > bufbytes THEN "Buffer completely full."
                  ELSE IF clipped /\ next # NONE THEN "No more data"
                  ELSE IF fileBytes <= offset THEN "Offset is too large"
                  ELSE "no"]

MoreReads(r, bufbytes) == r.pos # NONE /\ r.processed < bufbytes
ReadMore(r, bits, bufbytes, fileBytes) ==
    IF MoreReads(r, bufbytes) THEN NextRead(r, bits, bufbytes, fileBytes) ELSE r

\* The first requests of random_read_operator.
SubmitReads(r, bits, bufbytes, fileBytes) ==
    FoldLeft(LAMBDA acc, k : ReadMore(acc, bits, bufbytes, fileBytes),
                 [r EXCEPT !.processed = 0, !.inflight = {}], [k \in 1..NumSubrequests |-> k])

-----------------------------------------------------------------------------

\* Mutant of NextWrite: the request is one block short of its run.
NextWriteShort(w, bits, bufBlocks) ==
    LET blocks == RunLength(bits, w.pos, 1..MaxWrite - 1)
    IN [pos |-> FindNext(bits, w.pos + blocks - 1),
        inflight |-> w.inflight \cup {[offset |-> w.pos, length |-> Max({blocks - 1, 1})]}]

\* search_and_update_next_w_positions: the request ends with the buffer.
NextWrite(w, bits, bufBlocks) ==
    LET blocks == RunLength(bits, w.pos, 1..MaxWrite - 1)
    IN [pos |-> FindNext(bits, w.pos + blocks - 1),
        inflight |-> w.inflight \cup
                       {[offset |-> w.pos, length |-> Min({blocks, bufBlocks - w.pos})]}]

WriteMore(w, bits, bufBlocks) == IF w.pos # NONE THEN NextWrite(w, bits, bufBlocks) ELSE w

SubmitWrites(w, bits, bufBlocks) ==
    FoldLeft(LAMBDA acc, k : WriteMore(acc, bits, bufBlocks), w, [k \in 1..NumSubrequests |-> k])
=============================================================================
