-------------------------------- MODULE Work --------------------------------
(* How the worker threads of core/x-lib.hpp (struct work) fill the shared  *)
(* output buffer and flush it together.  Every thread turns its input into *)
(* updates in a private outbuf and moves them to stream_out by a           *)
(* compare-and-swap on its bufsize; a thread that finds it full enters     *)
(* flush_buffer, which is written in lock step on barriers: nothing        *)
(* happens in it until every other thread has run out of room as well or   *)
(* has finished its input and sits in final_flush.                         *)
(*                                                                         *)
(* Modelled around it: the buffers of buffer_manager, disk_stream::append  *)
(* with the I/O thread's asynchronous write, make_index as its barriers    *)
(* and the loopback of updates to the current super partition, which only  *)
(* the asynchronous driver asks for.  A barrier is one step that moves     *)
(* every waiting thread on (Barrier justifies it); dq hands a partition to *)
(* one thread (Filter justifies it).                                       *)
EXTENDS Integers, Sequences, SequencesExt, FiniteSetsExt

CONSTANTS Processors,       \* worker threads
          MaxEmit,          \* bound: updates one thread produces
          OutMax,           \* updates that fit in a thread's outbuf
          Cap,              \* updates that fit in a memory buffer
          NumBuffers,       \* buffers left for output once the input has its own
          SuperPartitionCounts,  \* how many files the output stream can have
          Superp,           \* the super partition being processed
          ForceBuffers,     \* the option force_buffers is not 0
          NULL

ASSUME ProcessorsAssumption == Processors \in Nat \ {0}
ASSUME SizesAssumption == {MaxEmit, OutMax, Cap, NumBuffers} \cup SuperPartitionCounts \subseteq Nat \ {0}
ASSUME SuperpAssumption == \A n \in SuperPartitionCounts : Superp \in 0..n - 1
ASSUME OptionsAssumption == ForceBuffers \in BOOLEAN

Threads == 0..Processors - 1
Buffers == 1..NumBuffers
Updates == Threads \X (1..MaxEmit)

ASSUME NullAssumption == NULL \notin Int \cup Updates

VARIABLES superPartitions,   \* files of the output stream
          loopback,  \* the work item's flag: apply updates to Superp right away
          pc,        \* where each thread is; barrier sites are in Sites
          total,     \* how many updates each thread's input generates
          emitted,   \* how many of them it has put in its outbuf
          outbuf,    \* outbuf[t]: the updates still to be appended
          offset,    \* offset_start
          space,     \* how many updates fit
          caller,    \* "append" or "final": who called flush_buffer
          empty,     \* flush_buffer's result
          loopbuf,   \* loopback_buffer
          out,       \* stream_out
          bufsize, slots, indexed, refcount, skip,   \* the memory buffers
          partq,     \* the loopback buffer's partition is queued
          request, cache, busy, onDisk,   \* disk_stream_out; busy: ~uptodate
          written,   \* history: written[u], times u was written to its file
          applied,   \* history: applied[u], times u was applied by loopback
          fatal      \* why the process died, or "no"

workItem == <<superPartitions, loopback>>
threadVars == <<workItem, total, emitted, outbuf, offset, space, caller, empty, loopbuf>>
bufferVars == <<bufsize, slots, indexed, refcount, skip, partq>>
diskVars == <<request, cache, busy, onDisk, written>>
vars == <<pc, threadVars, out, bufferVars, diskVars, applied, fatal>>

\* The super partition an update is for.
Dest(u) == (u[1] + u[2]) % superPartitions

Sites == {"flush", "split", "switch", "steady", "early", "loop1", "loop2",
          "lsplit", "lswitch", "lsteady", "loop3", "loop4", "loop5", "ret",
          "final", "end"}
At(t, l) == pc[t] = l /\ fatal = "no"
Goto(t, l) == pc' = [pc EXCEPT ![t] = l]

Init == /\ superPartitions \in SuperPartitionCounts
        /\ loopback \in BOOLEAN
        /\ pc = [t \in Threads |-> "emit"]
        /\ total \in [Threads -> 0..MaxEmit]
        /\ emitted = [t \in Threads |-> 0]
        /\ outbuf = [t \in Threads |-> <<>>]
        /\ offset = [t \in Threads |-> 0]
        /\ space = [t \in Threads |-> 0]
        /\ caller = [t \in Threads |-> "append"]
        /\ empty = [t \in Threads |-> FALSE]
        /\ loopbuf = [t \in Threads |-> NULL]
        /\ out = 1                              \* SETUP_STREAMOUT: get_buffer()
        /\ bufsize = [b \in Buffers |-> 0]
        /\ slots = [b \in Buffers |-> [i \in 1..Cap |-> NULL]]
        /\ indexed = [b \in Buffers |-> FALSE]
        /\ refcount = [b \in Buffers |-> IF b = 1 THEN 1 ELSE 0]
        /\ skip = [b \in Buffers |-> NULL]
        /\ partq = FALSE
        /\ request = NULL /\ cache = NULL /\ busy = FALSE
        /\ onDisk \in BOOLEAN                   \* ~disk_empty()
        /\ written = [u \in Updates |-> 0]
        /\ applied = [u \in Updates |-> 0]
        /\ fatal = "no"

-----------------------------------------------------------------------------
(* execute_callback and append_buffer *)

\* One partition_callback: up to OutMax updates in outbuf, or the input is done.
\* Without an output buffer append_buffer is not called.
Emit(t) ==
    /\ At(t, "emit")
    /\ IF emitted[t] < total[t]
       THEN \E n \in 1..Min({OutMax, total[t] - emitted[t]}) :
              /\ outbuf' = [outbuf EXCEPT ![t] = [k \in 1..n |-> <<t, emitted[t] + k>>]]
              /\ emitted' = [emitted EXCEPT ![t] = @ + n]
              /\ Goto(t, IF out = NULL THEN "emit" ELSE "reserve")
       ELSE /\ Goto(t, "finalflush")
            /\ UNCHANGED <<outbuf, emitted>>
    /\ UNCHANGED <<workItem, total, offset, space, caller, empty, loopbuf, out, bufferVars,
                   diskVars, applied, fatal>>

\* offset_start = stream_out->bufsize; a NULL stream_out is dereferenced.
Reserve(t) ==
    /\ At(t, "reserve")
    /\ IF out = NULL
       THEN fatal' = "null" /\ UNCHANGED <<pc, offset, space>>
       ELSE /\ offset' = [offset EXCEPT ![t] = bufsize[out]]
            /\ space' = [space EXCEPT ![t] = Min({Cap - bufsize[out], Len(outbuf[t])})]
            /\ Goto(t, "cas")
            /\ UNCHANGED fatal
    /\ UNCHANGED <<workItem, total, emitted, outbuf, caller, empty, loopbuf, out, bufferVars,
                   diskVars, applied>>

\* Mutant of Claim: the new size is stored without comparing the old one.
ClaimWithoutCAS(t) ==
    /\ At(t, "cas")
    /\ bufsize' = [bufsize EXCEPT ![out] = offset[t] + space[t]]
    /\ Goto(t, "copy")
    /\ UNCHANGED <<threadVars, out, slots, indexed, refcount, skip, partq, diskVars,
                   applied, fatal>>

\* CAS(&stream_out->bufsize, offset_start, offset_stop)
Claim(t) ==
    /\ At(t, "cas")
    /\ IF bufsize[out] = offset[t]
       THEN /\ bufsize' = [bufsize EXCEPT ![out] = offset[t] + space[t]]
            /\ Goto(t, "copy")
       ELSE /\ Goto(t, "reserve")
            /\ UNCHANGED bufsize
    /\ UNCHANGED <<threadVars, out, slots, indexed, refcount, skip, partq, diskVars,
                   applied, fatal>>

\* src copied to slots from position off on
Filled(b, off, src) ==
    [slots EXCEPT ![b] = [i \in 1..Cap |->
        IF i - off \in 1..Len(src) THEN src[i - off] ELSE @[i]]]

\* memcpy, and flush_buffer when not all of it fitted
Copy(t) ==
    /\ At(t, "copy")
    /\ slots' = Filled(out, offset[t], SubSeq(outbuf[t], 1, space[t]))
    /\ outbuf' = [outbuf EXCEPT ![t] = SubSeq(@, space[t] + 1, Len(@))]
    /\ IF space[t] = Len(outbuf[t])
       THEN Goto(t, "emit") /\ UNCHANGED <<caller, empty, loopbuf>>
       ELSE /\ Goto(t, "flush")
            /\ caller' = [caller EXCEPT ![t] = "append"]
            /\ empty' = [empty EXCEPT ![t] = FALSE]
            /\ loopbuf' = [loopbuf EXCEPT ![t] = out]
    /\ UNCHANGED <<workItem, total, emitted, offset, space, out, bufsize, indexed, refcount, skip,
                   partq, diskVars, applied, fatal>>

-----------------------------------------------------------------------------
(* flush_buffer: thread t calls it, barrier by barrier *)

\* if(stream_out->bufsize > 0) make_index(...)
Test(t) ==
    /\ At(t, "test")
    /\ IF bufsize[out] > 0
       THEN /\ Goto(t, IF indexed[out] THEN "early" ELSE "split")
            /\ UNCHANGED empty
       ELSE /\ empty' = [empty EXCEPT ![t] = TRUE]
            /\ Goto(t, "ret")
    /\ UNCHANGED <<workItem, total, emitted, outbuf, offset, space, caller, loopbuf, out,
                   bufferVars, diskVars, applied, fatal>>

\* Processor 0 declares the sorted buffer indexed, between the last two
\* barriers of make_index.
SetIndexed(t) ==
    /\ At(t, "index") \/ At(t, "lindex")
    /\ indexed' = [indexed EXCEPT ![out] = TRUE]
    /\ partq' = (pc[t] = "lindex" /\ bufsize[out] > 0)
    /\ Goto(t, IF pc[t] = "index" THEN "steady" ELSE "lsteady")
    /\ UNCHANGED <<threadVars, out, bufsize, slots, refcount, skip, diskVars, applied, fatal>>

\* Processor 0 hands the buffer to the stream, except that without super
\* partitions all updates are for the loopback.
HandOver(t) ==
    /\ At(t, "out")
    /\ IF loopback /\ superPartitions = 1
       THEN /\ out' = NULL
            /\ Goto(t, "getloop")
            /\ UNCHANGED <<skip, refcount>>
       ELSE /\ Goto(t, "append")
            /\ IF loopback
               THEN /\ skip' = [skip EXCEPT ![out] = Superp]
                    /\ refcount' = [refcount EXCEPT ![out] = @ + 1]
               ELSE UNCHANGED <<skip, refcount>>
            /\ UNCHANGED out
    /\ UNCHANGED <<threadVars, bufsize, slots, indexed, partq, diskVars, applied, fatal>>

\* set_refcount(get_refcount() - 1); the last reference resets the index.
Dropped(bs) ==
    /\ refcount' = [b \in Buffers |-> IF b \in bs THEN refcount[b] - 1 ELSE refcount[b]]
    /\ indexed' = [b \in Buffers |-> indexed[b] /\ ~(b \in bs /\ refcount[b] = 1)]

AppendDone == IF loopback THEN "getloop" ELSE "getout"

\* request->wait_uptodate()
WriteDone == ~busy

\* Mutant of FreeRequest: the buffer of the finished write keeps its reference.
FreeRequestForgotten == UNCHANGED <<refcount, indexed>>

FreeRequest == IF request # NULL THEN Dropped({request})
                                 ELSE UNCHANGED <<refcount, indexed>>

\* disk_stream::append: wait for the previous write, then keep the buffer in
\* memory (the first one of an empty single-file stream) or queue it for the
\* I/O thread, after writing a cached buffer out and waiting for that.
AppendBuffer(t) ==
    /\ At(t, "append")
    /\ WriteDone
    /\ CASE ~onDisk /\ cache = NULL /\ superPartitions = 1 ->
              /\ cache' = out /\ out' = NULL
              /\ Goto(t, AppendDone)
              /\ UNCHANGED <<request, busy, refcount, indexed>>
         [] (onDisk \/ superPartitions > 1) /\ cache = NULL ->
              /\ FreeRequest
              /\ request' = out /\ busy' = TRUE /\ out' = NULL
              /\ Goto(t, AppendDone)
              /\ UNCHANGED cache
         [] cache # NULL /\ request = NULL ->      \* write the cached buffer
              /\ request' = cache /\ busy' = TRUE
              /\ UNCHANGED <<pc, out, cache, refcount, indexed>>
         [] cache # NULL /\ request # NULL ->      \* it is written
              /\ FreeRequest
              /\ cache' = NULL /\ request' = NULL
              /\ UNCHANGED <<pc, out, busy>>
    /\ UNCHANGED <<threadVars, bufsize, slots, skip, partq, onDisk, written, applied, fatal>>

\* buffer_manager::get_buffer: the first free buffer, or the process exits.
GetBuffer(t, next) ==
    LET free == {b \in Buffers : refcount[b] = 0}
    IN IF free = {}
       THEN /\ fatal' = "nobuffer"
            /\ UNCHANGED <<pc, out, refcount, bufsize>>
       ELSE /\ out' = Min(free)
            /\ refcount' = [refcount EXCEPT ![Min(free)] = 1]
            /\ bufsize' = [bufsize EXCEPT ![Min(free)] = 0]
            /\ Goto(t, next)
            /\ UNCHANGED fatal

GetLoopbackBuffer(t) ==
    /\ At(t, "getloop")
    /\ GetBuffer(t, "loop1")
    /\ UNCHANGED <<threadVars, slots, indexed, skip, partq, diskVars, applied>>

\* The next output buffer, which force_buffers turns off.
GetOutBuffer(t) ==
    /\ At(t, "getout")
    /\ IF ForceBuffers
       THEN out' = NULL /\ Goto(t, "ret") /\ UNCHANGED <<refcount, bufsize, fatal>>
       ELSE GetBuffer(t, "ret")
    /\ UNCHANGED <<threadVars, slots, indexed, skip, partq, diskVars, applied>>

-----------------------------------------------------------------------------
(* The loopback half of flush_buffer *)

\* The positions of the buffer that processor t indexed in make_index.
Slice(b, t) ==
    LET perCpu == bufsize[b] \div Processors
        last == IF t = Processors - 1 THEN bufsize[b] ELSE perCpu * (t + 1)
    IN perCpu * t + 1..last

\* get_substream(processor_id, superp): the updates of t's slice that stay in
\* Superp, which sorting has put next to each other.
ToCurrent(t) == {i \in Slice(loopbuf[t], t) : Dest(slots[loopbuf[t]][i]) = Superp}
Substream(t) == LET at == SetToSeq(ToCurrent(t))
                IN [k \in 1..Cardinality(ToCurrent(t)) |-> slots[loopbuf[t]][at[k]]]

\* do ... while(!CAS(&stream_out->bufsize, ...)): an atomic addition
LoopClaim(t) ==
    /\ At(t, "lclaim")
    /\ offset' = [offset EXCEPT ![t] = bufsize[out]]
    /\ bufsize' = [bufsize EXCEPT ![out] = @ + Cardinality(ToCurrent(t))]
    /\ Goto(t, "lcopy")
    /\ UNCHANGED <<workItem, total, emitted, outbuf, space, caller, empty, loopbuf, out,
                   slots, indexed, refcount, skip, partq, diskVars, applied, fatal>>

LoopCopy(t) ==
    /\ At(t, "lcopy")
    /\ slots' = Filled(out, offset[t], Substream(t))
    /\ Goto(t, "loop2")
    /\ UNCHANGED <<threadVars, out, bufsize, indexed, refcount, skip, partq, diskVars,
                   applied, fatal>>

\* dq until there is no work: whoever gets the partition applies its updates.
Drain(t) ==
    /\ At(t, "drain")
    /\ IF partq
       THEN /\ applied' = [u \in Updates |->
                             applied[u] + Cardinality({i \in 1..bufsize[out] : slots[out][i] = u})]
            /\ partq' = FALSE
            /\ UNCHANGED pc
       ELSE /\ Goto(t, "loop5")
            /\ UNCHANGED <<applied, partq>>
    /\ UNCHANGED <<threadVars, out, bufsize, slots, indexed, refcount, skip, diskVars, fatal>>

Release(t) ==
    /\ At(t, "release")
    /\ Dropped({loopbuf[t], out})
    /\ out' = NULL
    /\ Goto(t, "getout")
    /\ UNCHANGED <<threadVars, bufsize, slots, skip, partq, diskVars, applied, fatal>>

-----------------------------------------------------------------------------
(* Back from flush_buffer, and final_flush *)

EnterFinalFlush(t) ==
    /\ caller' = [caller EXCEPT ![t] = "final"]
    /\ empty' = [empty EXCEPT ![t] = FALSE]
    /\ loopbuf' = [loopbuf EXCEPT ![t] = out]
    /\ Goto(t, "flush")

\* Mutant of Return: final_flush is left after one flush.
ReturnOnce(t) ==
    /\ At(t, "return")
    /\ Goto(t, IF caller[t] = "append" THEN "reserve" ELSE "final")
    /\ UNCHANGED <<threadVars, out, bufferVars, diskVars, applied, fatal>>

\* Mutant of Return: final_flush does not look at flush_buffer's result.
ReturnForever(t) ==
    /\ At(t, "return")
    /\ IF caller[t] = "append"
       THEN Goto(t, "reserve") /\ UNCHANGED <<caller, empty, loopbuf>>
       ELSE EnterFinalFlush(t)
    /\ UNCHANGED <<workItem, total, emitted, outbuf, offset, space, out, bufferVars,
                   diskVars, applied, fatal>>

\* append_buffer goes on with what did not fit; final_flush flushes again until
\* a round has found the buffer empty, which takes every thread.
Return(t) ==
    /\ At(t, "return")
    /\ CASE caller[t] = "append" ->
              Goto(t, "reserve") /\ UNCHANGED <<caller, empty, loopbuf>>
         [] caller[t] = "final" /\ ~empty[t] /\ out # NULL ->
              EnterFinalFlush(t)
         [] caller[t] = "final" /\ (empty[t] \/ out = NULL) ->
              Goto(t, "final") /\ UNCHANGED <<caller, empty, loopbuf>>
    /\ UNCHANGED <<workItem, total, emitted, outbuf, offset, space, out, bufferVars, diskVars,
                   applied, fatal>>

\* if(stream_out != NULL) final_flush(...), else straight to the last barrier
StartFinalFlush(t) ==
    /\ At(t, "finalflush")
    /\ IF out = NULL
       THEN Goto(t, "end") /\ UNCHANGED <<caller, empty, loopbuf>>
       ELSE EnterFinalFlush(t)
    /\ UNCHANGED <<workItem, total, emitted, outbuf, offset, space, out, bufferVars, diskVars,
                   applied, fatal>>

\* Processor 0 gives the unused output buffer back.
FreeOut(t) ==
    /\ At(t, "freeout")
    /\ IF out # NULL THEN Dropped({out}) ELSE UNCHANGED <<refcount, indexed>>
    /\ Goto(t, "end")
    /\ UNCHANGED <<threadVars, out, bufsize, slots, skip, partq, diskVars, applied, fatal>>

-----------------------------------------------------------------------------
(* The barriers and the I/O thread *)

\* Where a thread goes on behind each sync->wait(); what only processor 0 does
\* there is skipped by the others, and x_split between the first two barriers
\* of make_index changes nothing the protocol depends on.
After(t, s) ==
    CASE s = "flush"   -> "test"
      [] s = "split"   -> "switch"
      [] s = "switch"  -> IF t = 0 THEN "index" ELSE "steady"
      [] s \in {"steady", "early"} ->
           IF t = 0 THEN "out" ELSE IF loopback THEN "loop1" ELSE "ret"
      [] s = "loop1"   -> "lclaim"
      [] s = "loop2"   -> IF indexed[out] THEN "loop3" ELSE "lsplit"
      [] s = "lsplit"  -> "lswitch"
      [] s = "lswitch" -> IF t = 0 THEN "lindex" ELSE "lsteady"
      [] s = "lsteady" -> "loop3"
      [] s = "loop3"   -> "loop4"
      [] s = "loop4"   -> "drain"
      [] s = "loop5"   -> IF t = 0 THEN "release" ELSE "ret"
      [] s = "ret"     -> "return"
      [] s = "final"   -> IF t = 0 THEN "freeout" ELSE "end"
      [] s = "end"     -> "stopped"

\* x_barrier counts arrivals, wherever in the code they come from.
BarrierOpens ==
    /\ fatal = "no"
    /\ \A t \in Threads : pc[t] \in Sites
    /\ pc' = [t \in Threads |-> After(t, pc[t])]
    /\ UNCHANGED <<threadVars, out, bufferVars, diskVars, applied, fatal>>

\* The I/O thread's write_internal: the buffer as it is when the thread gets to
\* it goes to the files, without the super partition it is told to skip.
IOWrite ==
    /\ busy /\ fatal = "no"
    /\ written' = [u \in Updates |->
                     IF Dest(u) = skip[request] THEN written[u]
                     ELSE written[u] + Cardinality({i \in 1..bufsize[request] :
                                                      slots[request][i] = u})]
    /\ skip' = [skip EXCEPT ![request] = NULL]
    /\ onDisk' = TRUE
    /\ busy' = FALSE
    /\ UNCHANGED <<pc, threadVars, out, bufsize, slots, indexed, refcount, partq, request,
                   cache, applied, fatal>>

ThreadStep(t) ==
    \/ Emit(t) \/ Reserve(t) \/ Claim(t) \/ Copy(t)
    \/ Test(t) \/ SetIndexed(t) \/ HandOver(t) \/ AppendBuffer(t)
    \/ GetLoopbackBuffer(t) \/ GetOutBuffer(t)
    \/ LoopClaim(t) \/ LoopCopy(t) \/ Drain(t) \/ Release(t)
    \/ Return(t) \/ StartFinalFlush(t) \/ FreeOut(t)

Next == (\E t \in Threads : ThreadStep(t)) \/ BarrierOpens \/ IOWrite

Spec == Init /\ [][Next]_vars

\* The workers and the I/O thread are OS threads that keep running.
FairSpec == /\ Spec
            /\ \A t \in Threads : WF_vars(ThreadStep(t))
            /\ WF_vars(BarrierOpens)
            /\ WF_vars(IOWrite)

-----------------------------------------------------------------------------
(* Properties *)

TypeOK ==
    /\ emitted \in [Threads -> 0..MaxEmit] /\ total \in [Threads -> 0..MaxEmit]
    /\ outbuf \in [Threads -> Seq(Updates)]
    /\ offset \in [Threads -> 0..Cap] /\ space \in [Threads -> 0..Cap]
    /\ out \in Buffers \cup {NULL}
    /\ bufsize \in [Buffers -> 0..Cap]
    /\ refcount \in [Buffers -> 0..2]
    /\ {request, cache} \subseteq Buffers \cup {NULL}
    /\ fatal \in {"no", "null", "nobuffer"}

\* Threads that wait for each other wait at the same place of the code: no
\* thread runs through a barrier that another takes for a later one.
BarriersMatch ==
    \A t, u \in Threads : {pc[t], pc[u]} \subseteq Sites => pc[t] = pc[u]

\* While the buffer is sorted, handed over or looped back, nobody is still
\* reserving room in it or copying updates to it.
FlushIsExclusive ==
    (\E t \in Threads : pc[t] \in {"index", "out", "append", "getloop", "getout"}) =>
        \A t \in Threads : pc[t] \notin {"reserve", "cas", "copy", "emit"}

\* Where a copy of update u is on its way or has arrived.
InBuffer(b, u) == b # NULL /\ \E i \in 1..bufsize[b] : slots[b][i] = u
Copies(u) == written[u] + applied[u]
             + (IF InBuffer(cache, u) /\ ~(busy /\ request = cache) /\ request # cache
                THEN 1 ELSE 0)
             + (IF busy /\ InBuffer(request, u) /\ Dest(u) # skip[request] THEN 1 ELSE 0)

Stopped == \A t \in Threads : pc[t] = "stopped"

\* Every update of every thread reaches its file, the cached buffer or, by
\* loopback, its vertex, and reaches it once.
EveryUpdateOnce ==
    /\ Stopped => \A t \in Threads : \A k \in 1..total[t] : Copies(<<t, k>>) = 1
    /\ \A u \in Updates : Copies(u) <= 1

\* The two buffers that the input leaves are enough: get_buffer never exits.
NeverOutOfBuffers == fatal # "nobuffer"

\* All threads get out of the flush protocol.
WorkEnds == <>Stopped

\* In every state of the protocol: the barriers match, a flush has the output buffer
\* for itself and buffers do not run out.
WorkInv == TypeOK /\ BarriersMatch /\ FlushIsExclusive /\ NeverOutOfBuffers
=============================================================================
