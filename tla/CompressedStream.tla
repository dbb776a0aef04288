-------------------------- MODULE CompressedStream --------------------------
(* A disk stream with the option compressed_io: buffers are appended, the     *)
(* stream is rewound and read back, super partition by super partition.  The  *)
(* I/O thread deflates what is written and inflates what is read, through a   *)
(* pair of buffers per super partition (flip_buffer), one of them in          *)
(* asynchronous I/O.                                                          *)
(*                                                                            *)
(* Ratio items make a unit of the file, the last unit may have fewer and has  *)
(* the end of the zlib stream; what zlib writes is what it has read.          *)
EXTENDS Integers, Sequences, FiniteSets, SequencesExt

CONSTANTS SuperPartitions,  \* superp_cnt
          Buffers,          \* what is appended: sequences of buffers, a buffer is a
                            \* sequence of items for each super partition
          BufferItems,      \* items in a buffer that is read
          Ratio,            \* items compressed into a unit (stream_unit bytes)
          Scans,            \* how often the stream is read
          NULL

Supers == 1..SuperPartitions

VARIABLES appended, todo,   \* the buffers, those not yet appended
          mpc, cur, scan,   \* the caller, the super partition it is at, the scan
          from,             \* current_pos in read
          got,              \* what it has read in this scan
          cache, request,   \* buffers
          requestSuper,     \* request_superp, 0 for -1
          eofFlag, uptodate, \* eof_flag; uptodate of the request, or flush_complete
          pos, bytes,       \* disk_pos, disk_bytes, in units
          zlibEof, inflating, \* zlib_eof, z_inflate_mode
          op, iat,          \* what the I/O thread does, the super partition it is at
          feed,             \* next_in of deflate: items
          deflated, total,  \* items in the unit being made; total_in
          unit,             \* next_in of inflate: a unit, or NULL
          pending, aio,     \* the pending half of the flip buffer; its I/O
          disk              \* the files: sequences of units

callerVars == <<appended, todo, mpc, cur, scan, from, got>>
streamVars == <<cache, request, requestSuper, eofFlag>>
zlibVars == <<zlibEof, inflating, feed, deflated, total, unit>>
vars == <<callerVars, streamVars, uptodate, pos, bytes, zlibVars, op, iat, pending, aio, disk>>

PerSuper(v) == [s \in Supers |-> v]
Nothing == PerSuper(<<>>)

Init ==
    /\ appended \in Buffers /\ todo = appended
    /\ mpc = "append" /\ cur = 1 /\ scan = 1 /\ from = 0 /\ got = Nothing
    /\ cache = NULL /\ request = NULL /\ requestSuper = 0
    /\ eofFlag = FALSE /\ uptodate = TRUE
    /\ pos = PerSuper(0) /\ bytes = PerSuper(0)
    /\ zlibEof \in [Supers -> BOOLEAN]  \* the constructor does not set it
    /\ inflating = FALSE
    /\ op = "none" /\ iat = 1 /\ feed = Nothing
    /\ deflated = Nothing /\ total = PerSuper(0) /\ unit = PerSuper(NULL)
    /\ pending = PerSuper(NULL) /\ aio = PerSuper(NULL)
    /\ disk = Nothing

Eof(s) == pos[s] = bytes[s]
DiskEmpty == \A s \in Supers : bytes[s] = 0
StreamEof(s) ==
    IF cache # NULL THEN eofFlag
    ELSE ~(request # NULL /\ requestSuper = s) /\ Eof(s) /\ zlibEof[s]

\* add_work: the request is not up to date until the I/O thread is done with it.
AddWork(what) == op' = what /\ iat' = 1 /\ uptodate' = FALSE

-----------------------------------------------------------------------------
(* The caller                                                                 *)

\* append: the first buffer is kept in memory when there is one super partition.
KeepsInMemory == DiskEmpty /\ cache = NULL /\ SuperPartitions = 1

AppendCache ==
    /\ mpc = "append" /\ todo # <<>> /\ uptodate
    /\ KeepsInMemory /\ request = NULL
    /\ cache' = Head(todo) /\ todo' = Tail(todo)
    /\ UNCHANGED <<appended, mpc, cur, scan, from, got, request, requestSuper, eofFlag, uptodate, pos,
                   bytes, zlibVars, op, iat, pending, aio, disk>>

\* "BUG: empty file after append": what was written has not filled a unit.
AppendFails ==
    /\ mpc = "append" /\ todo # <<>> /\ uptodate
    /\ KeepsInMemory /\ request # NULL
    /\ mpc' = "exit"
    /\ UNCHANGED <<appended, todo, cur, scan, from, got, streamVars, uptodate, pos, bytes, zlibVars, op, iat,
                   pending, aio, disk>>

\* A cached buffer is written, and waited for, before the new one.
AppendWriteCache ==
    /\ mpc = "append" /\ todo # <<>> /\ uptodate /\ cache # NULL
    /\ request' = cache /\ cache' = NULL
    /\ feed' = cache /\ AddWork("write") /\ mpc' = "append second"
    /\ UNCHANGED <<appended, todo, cur, scan, from, got, requestSuper, eofFlag, pos, bytes, zlibEof,
                   inflating, deflated, total, unit, pending, aio, disk>>

AppendWrite ==
    /\ todo # <<>> /\ uptodate
    /\ \/ mpc = "append second"
       \/ mpc = "append" /\ cache = NULL /\ ~KeepsInMemory
    /\ request' = Head(todo) /\ todo' = Tail(todo) /\ mpc' = "append"
    /\ feed' = Head(todo) /\ AddWork("write")
    /\ UNCHANGED <<appended, cur, scan, from, got, cache, requestSuper, eofFlag, pos, bytes, zlibEof,
                   inflating, deflated, total, unit, pending, aio, disk>>

\* rewind: wait for the request; a cached buffer becomes valid to be read.
Rewind ==
    /\ mpc = "append" /\ todo = <<>> /\ uptodate
    /\ eofFlag' = FALSE /\ request' = NULL
    /\ IF cache = NULL THEN mpc' = "rewind" /\ cur' = 1 /\ UNCHANGED requestSuper
       ELSE mpc' = "read" /\ cur' = 1 /\ requestSuper' = IF requestSuper = 0 THEN 1 ELSE requestSuper
    /\ UNCHANGED <<appended, todo, scan, from, got, cache, uptodate, pos, bytes, zlibVars, op, iat, pending,
                   aio, disk>>

\* "must always flush on compressed": total_in is that of the super partition,
\* the flush is of all of them.
NeedsFlush(s) == requestSuper = 0 /\ (total[s] > 0 \/ (pos[s] > 0 /\ bytes[s] > 0))

RewindFlush ==
    /\ mpc = "rewind" /\ cur \in Supers /\ NeedsFlush(cur)
    /\ mpc' = "flushing" /\ AddWork("flush")
    /\ UNCHANGED <<appended, todo, cur, scan, from, got, streamVars, pos, bytes, zlibVars, pending, aio, disk>>

RewindFile ==
    /\ \/ mpc = "rewind" /\ cur \in Supers /\ ~NeedsFlush(cur)
       \/ mpc = "flushing" /\ uptodate
    /\ pos' = [pos EXCEPT ![cur] = 0]
    /\ cur' = cur + 1 /\ mpc' = "rewind"
    /\ UNCHANGED <<appended, todo, scan, from, got, streamVars, uptodate, bytes, zlibVars, op, iat, pending,
                   aio, disk>>

Rewound ==
    /\ mpc = "rewind" /\ cur > SuperPartitions
    /\ requestSuper' = 0 /\ cur' = 1 /\ mpc' = "read"
    /\ UNCHANGED <<appended, todo, scan, from, got, cache, request, eofFlag, uptodate, pos, bytes, zlibVars,
                   op, iat, pending, aio, disk>>

\* while (!stream_eof(superp)) read(superp)
ReadCache ==
    /\ mpc = "read" /\ cur \in Supers /\ ~StreamEof(cur) /\ cache # NULL
    /\ got' = [got EXCEPT ![cur] = @ \o cache[cur]] /\ eofFlag' = TRUE
    /\ UNCHANGED <<appended, todo, mpc, cur, scan, from, cache, request, requestSuper, uptodate, pos, bytes,
                   zlibVars, op, iat, pending, aio, disk>>

\* The read is issued unless it was, by the read ahead.
Read ==
    /\ mpc = "read" /\ cur \in Supers /\ ~StreamEof(cur) /\ cache = NULL
    /\ from' = pos[cur] /\ mpc' = "wait"
    /\ IF request = NULL \/ requestSuper # cur
       THEN request' = Nothing /\ requestSuper' = cur /\ AddWork("read")
       ELSE UNCHANGED <<request, requestSuper, op, iat, uptodate>>
    /\ UNCHANGED <<appended, todo, cur, scan, got, cache, eofFlag, pos, bytes, zlibVars, pending, aio, disk>>

\* Read ahead unless the file is read; what was read at once is kept.
ReadDone ==
    /\ mpc = "wait" /\ uptodate
    /\ got' = [got EXCEPT ![cur] = @ \o request[cur]]
    /\ mpc' = "read"
    /\ IF ~Eof(cur)
       THEN request' = Nothing /\ AddWork("read") /\ UNCHANGED <<cache, eofFlag>>
       ELSE /\ request' = NULL
            /\ IF SuperPartitions = 1 /\ from = 0
               THEN cache' = request /\ eofFlag' = TRUE
               ELSE UNCHANGED <<cache, eofFlag>>
            /\ UNCHANGED <<op, iat, uptodate>>
    /\ UNCHANGED <<appended, todo, cur, scan, from, requestSuper, pos, bytes, zlibVars, pending, aio, disk>>

NextSuper ==
    /\ mpc = "read" /\ cur \in Supers /\ StreamEof(cur)
    /\ cur' = cur + 1
    /\ mpc' = IF cur < SuperPartitions THEN "read" ELSE IF scan < Scans THEN "scanned" ELSE "done"
    /\ UNCHANGED <<appended, todo, scan, from, got, streamVars, uptodate, pos, bytes, zlibVars, op, iat,
                   pending, aio, disk>>

\* The next scan
NextScan ==
    /\ mpc = "scanned"
    /\ scan' = scan + 1 /\ got' = Nothing /\ mpc' = "append"
    /\ UNCHANGED <<appended, todo, cur, from, streamVars, uptodate, pos, bytes, zlibVars, op, iat, pending,
                   aio, disk>>

Caller == \/ AppendCache \/ AppendFails \/ AppendWriteCache \/ AppendWrite
          \/ Rewind \/ RewindFlush \/ RewindFile \/ Rewound \/ ReadCache \/ Read \/ ReadDone \/ NextSuper \/ NextScan

-----------------------------------------------------------------------------
(* The I/O thread.  do_flip_IO and init_flip_buffer wait for the I/O of the    *)
(* flip buffer.                                                               *)

Idle(s) == aio[s] = NULL

\* set_zlib_deflate and set_zlib_inflate, when the mode changes
SetDeflate ==
    /\ op = "write" /\ inflating /\ \A s \in Supers : Idle(s)
    /\ inflating' = FALSE /\ deflated' = Nothing /\ total' = PerSuper(0)
    /\ pending' = PerSuper(NULL)
    /\ UNCHANGED <<callerVars, streamVars, uptodate, pos, bytes, zlibEof, feed, unit, op, iat, aio, disk>>

SetInflate ==
    /\ op = "read" /\ ~inflating /\ \A s \in Supers : Idle(s)
    /\ inflating' = TRUE /\ zlibEof' = PerSuper(FALSE) /\ unit' = PerSuper(NULL)
    /\ pending' = PerSuper(NULL)
    /\ UNCHANGED <<callerVars, streamVars, uptodate, pos, bytes, feed, deflated, total, op, iat, aio, disk>>

\* do_flip_IO(..., false): the unit goes to the file.
WriteUnit(s, items, end) ==
    /\ Idle(s)
    /\ aio' = [aio EXCEPT ![s] = [write |-> TRUE, at |-> pos[s] + 1, unit |-> [items |-> items, end |-> end]]]
    /\ pos' = [pos EXCEPT ![s] = @ + 1] /\ bytes' = [bytes EXCEPT ![s] = @ + 1]

\* squeeze: deflate until the input is used up; a full unit is written.
Squeeze ==
    /\ op = "write" /\ ~inflating /\ iat \in Supers /\ feed[iat] # <<>>
    /\ LET made == Append(deflated[iat], Head(feed[iat])) IN
       IF Len(made) = Ratio
       THEN WriteUnit(iat, made, FALSE) /\ deflated' = [deflated EXCEPT ![iat] = <<>>]
       ELSE deflated' = [deflated EXCEPT ![iat] = made] /\ UNCHANGED <<aio, pos, bytes>>
    /\ feed' = [feed EXCEPT ![iat] = Tail(@)]
    /\ total' = [total EXCEPT ![iat] = @ + 1]
    /\ UNCHANGED <<callerVars, streamVars, uptodate, zlibEof, inflating, unit, op, iat, pending, disk>>

\* compress_and_write_internal: one super partition after the other
Squeezed ==
    /\ op = "write" /\ ~inflating
    /\ IF iat \in Supers THEN feed[iat] = <<>> /\ iat' = iat + 1 /\ UNCHANGED <<op, uptodate>>
       ELSE op' = "none" /\ uptodate' = TRUE /\ UNCHANGED iat
    /\ UNCHANGED <<callerVars, streamVars, pos, bytes, zlibVars, pending, aio, disk>>

ResetDeflate(s) == deflated' = [deflated EXCEPT ![s] = <<>>] /\ total' = [total EXCEPT ![s] = 0]

\* zlib_stream_flush: the last items and the end, also when there are no items.
Flush ==
    /\ op = "flush" /\ iat \in Supers
    /\ WriteUnit(iat, deflated[iat], TRUE)
    /\ ResetDeflate(iat)
    /\ op' = "flushed"
    /\ UNCHANGED <<callerVars, streamVars, uptodate, zlibEof, inflating, feed, unit, iat, pending, disk>>

\* flush goes through all super partitions.
Flushed ==
    /\ op = "flushed" /\ Idle(iat)
    /\ IF iat < SuperPartitions THEN iat' = iat + 1 /\ op' = "flush" /\ UNCHANGED uptodate
       ELSE op' = "none" /\ uptodate' = TRUE /\ UNCHANGED iat
    /\ UNCHANGED <<callerVars, streamVars, pos, bytes, zlibVars, pending, aio, disk>>

\* read_and_decompress_operator: without input, flip the buffers and read the
\* next unit into the one that is now pending.
Out == request[requestSuper]
ReadUnit ==
    /\ op = "read" /\ inflating
    /\ LET s == requestSuper IN
       /\ Len(Out) < BufferItems /\ unit[s] = NULL /\ Idle(s)
       /\ pending[s] # NULL \/ ~Eof(s)
       /\ unit' = [unit EXCEPT ![s] = pending[s]]
       /\ IF Eof(s) THEN pending' = [pending EXCEPT ![s] = NULL] /\ UNCHANGED <<pos, aio>>
          ELSE /\ aio' = [aio EXCEPT ![s] = [write |-> FALSE, at |-> pos[s] + 1, unit |-> NULL]]
               /\ pos' = [pos EXCEPT ![s] = @ + 1]
               /\ UNCHANGED pending
    /\ UNCHANGED <<callerVars, streamVars, uptodate, bytes, zlibEof, inflating, feed, deflated, total, op,
                   iat, disk>>

\* "Trying to read past end of compressed stream !"
ReadPastEnd ==
    /\ op = "read" /\ inflating
    /\ LET s == requestSuper
       IN Len(Out) < BufferItems /\ unit[s] = NULL /\ Idle(s) /\ pending[s] = NULL /\ Eof(s)
    /\ op' = "exit" /\ mpc' = "exit"
    /\ UNCHANGED <<appended, todo, cur, scan, from, got, streamVars, uptodate, pos, bytes, zlibVars, iat,
                   pending, aio, disk>>

ResetInflate(s) ==
    Idle(s) /\ pending' = [pending EXCEPT ![s] = NULL] /\ unit' = [unit EXCEPT ![s] = NULL]

\* inflate: fill the buffer, or use the unit up; at the end of the zlib stream
\* the buffer is returned and the flip buffer reset.
Inflate ==
    /\ op = "read" /\ inflating
    /\ LET s == requestSuper
           n == IF Len(unit[s].items) <= BufferItems - Len(Out) THEN Len(unit[s].items)
                ELSE BufferItems - Len(Out)
           rest == SubSeq(unit[s].items, n + 1, Len(unit[s].items))
           ends == rest = <<>> /\ unit[s].end
       IN /\ unit[s] # NULL /\ Len(Out) < BufferItems
          /\ request' = [request EXCEPT ![s] = @ \o SubSeq(unit[s].items, 1, n)]
          /\ zlibEof' = [zlibEof EXCEPT ![s] = @ \/ ends]
          /\ IF ends THEN ResetInflate(s) /\ op' = "none" /\ uptodate' = TRUE
             ELSE /\ unit' = [unit EXCEPT ![s] = IF rest = <<>> THEN NULL ELSE [@ EXCEPT !.items = rest]]
                  /\ UNCHANGED <<pending, op, uptodate>>
    /\ UNCHANGED <<callerVars, cache, requestSuper, eofFlag, pos, bytes, inflating, feed, deflated, total,
                   iat, aio, disk>>

Inflated ==
    /\ op = "read" /\ inflating /\ Len(Out) = BufferItems
    /\ op' = "none" /\ uptodate' = TRUE
    /\ UNCHANGED <<callerVars, streamVars, pos, bytes, zlibVars, iat, pending, aio, disk>>

DiskIO == \/ SetDeflate \/ SetInflate \/ Squeeze \/ Squeezed \/ Flush \/ Flushed
          \/ ReadUnit \/ ReadPastEnd \/ Inflate \/ Inflated

\* The kernel does the asynchronous I/O.
Complete(s) ==
    /\ aio[s] # NULL
    /\ LET a == aio[s] IN
       IF a.write
       THEN /\ disk' = [disk EXCEPT ![s] = IF a.at <= Len(@) THEN [@ EXCEPT ![a.at] = a.unit]
                                           ELSE Append(@, a.unit)]
            /\ UNCHANGED pending
       ELSE /\ pending' = [pending EXCEPT ![s] = IF a.at <= Len(disk[s]) THEN disk[s][a.at] ELSE NULL]
            /\ UNCHANGED disk
    /\ aio' = [aio EXCEPT ![s] = NULL]
    /\ UNCHANGED <<callerVars, streamVars, uptodate, pos, bytes, zlibVars, op, iat>>

Next == Caller \/ DiskIO \/ \E s \in Supers : Complete(s)

\* Every thread is scheduled again and again, and I/O completes.
Spec == Init /\ [][Next]_vars
FairSpec == /\ Spec /\ WF_vars(Caller) /\ WF_vars(DiskIO)
            /\ \A s \in Supers : WF_vars(Complete(s))

-----------------------------------------------------------------------------
(* Properties                                                                 *)

\* Every scan reads what was appended, all of it and in order: compressing a
\* stream ("Do compressed io", utils/options_utils.h) does not change it.
ReadBack ==
    mpc \in {"scanned", "done"} =>
        \A s \in Supers : got[s] = FlattenSeq([k \in DOMAIN appended |-> appended[k][s]])
=============================================================================
