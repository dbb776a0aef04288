------------------------------ MODULE SortTool ------------------------------
(* The programs around the external sort: example/external_sort_main.cc,      *)
(* which generates a file, splits it, merges files and checks the result, and *)
(* MBFSort, which splits and merges edges in the order of their Bloom bits.   *)
(* Merging, generating and checking go through block streams with their       *)
(* threads; the merges run one at a time (mrg.merges = 1).  How several run   *)
(* at a time, and split's threads, are in ExternalSort; here split is a step. *)
(*                                                                            *)
(* A condition variable is a guard.  The order of an unordered_set is that in *)
(* which its streams were made.                                               *)
EXTENDS BlockStreams

CONSTANTS Options,          \* command lines of external_sort_main: records of Defaults'
                            \* fields, with the files there are and random values
          Sorts,            \* command lines of MBFSort
          NULL

GenFile == <<"generated", 0>>
Sorted == <<"sorted", 0>>
SplitFile(i) == <<"split", i>>
MergeFile(i) == <<"merge", i>>

VARIABLES opt, disk,        \* the command line, the files
          pc, left,         \* the main thread; the values to be generated
          files, made,      \* the files to be merged; the merges begun
          ins, sin, next,   \* the input streams, those not exhausted, one of them
          out,              \* the output stream
          scan, failed      \* what check has counted; err of merge

vars == <<opt, disk, pc, left, files, made, ins, sin, next, out, scan, failed>>

Acts == [gen |-> {"gen"}, spl |-> {"spl"}, mrg |-> {"mrg"}, chk |-> {"chk"},
         all |-> {"gen", "spl", "mrg", "chk"}, srt |-> {"spl", "mrg"}]
Does(act) == act \in Acts[opt.act]

\* What is not given on the command line.  NULL is a default that depends on
\* other options, or (ifiles) that must be given; ofile: mrg.ofile is given.
Defaults ==
    [tool |-> "main", act |-> "all", msize |-> 1, unit |-> "M", no_rm |-> FALSE,
     genblocks |-> 2, fsize |-> NULL, ifile |-> NULL, splblocks |-> 2, ifiles |-> NULL,
     ofile |-> FALSE, kmerge |-> 4, stmblocks |-> 2, chkfile |-> NULL, chkblocks |-> 2]

\* The options that default to others
SplitInput == IF opt.ifile = NULL THEN GenFile ELSE opt.ifile
CheckInput == IF opt.chkfile = NULL THEN Sorted ELSE opt.chkfile
FileSize == IF opt.fsize = NULL THEN 16 * opt.msize ELSE opt.fsize
Memory == MemsizeInBytes(opt.msize, opt.unit)

\* MBFSort gives split 5000 megabytes and each merge shares 1000.
MergeMemory == IF opt.tool = "MBFSort" THEN Memory \div 5 ELSE Memory

Generated == MemsizeInBytes(FileSize, opt.unit) \div ValueSize

Less(a, b) == IF opt.tool = "MBFSort" THEN EdgeLess(a, b) ELSE NumberLess(a, b)

Contents(f) == IF f \in DOMAIN disk THEN disk[f] ELSE <<>>
SetFile(f, content) == disk' = [g \in DOMAIN disk \cup {f} |-> IF g = f THEN content ELSE disk[g]]
RemoveFile(f) == disk' = [g \in DOMAIN disk \ {f} |-> disk[g]]

NoScan == [cnt |-> 0, bad |-> 0, first |-> NULL, prev |-> NULL, min |-> NULL, max |-> NULL]

Init ==
    /\ opt \in Options \/ opt \in Sorts
    /\ disk = opt.disk
    /\ pc = "parse" /\ left = <<>> /\ files = <<>> /\ made = 0
    /\ ins = <<>> /\ sin = <<>> /\ next = 1 /\ out = NULL
    /\ scan = NoScan /\ failed = FALSE

\* Unknown units and acts are refused, and merging alone without its files.
Refused ==
    \/ opt.unit \notin {"B", "K", "M"}
    \/ opt.act \notin DOMAIN Acts
    \/ Acts[opt.act] = {"mrg"} /\ (opt.ifiles = NULL \/ ~opt.ofile)

Parse ==
    /\ pc = "parse"
    /\ pc' = IF Refused THEN "exit" ELSE "generate"
    /\ files' = IF ~Refused /\ Acts[opt.act] = {"mrg"} THEN opt.ifiles ELSE <<>>
    /\ UNCHANGED <<opt, disk, left, made, ins, sin, next, out, scan, failed>>

-----------------------------------------------------------------------------
(* generate, split                                                            *)

GeneratePool == NewPool(Memory, opt.genblocks)
SplitPool == NewPool(Memory, opt.splblocks)

Generate ==
    /\ pc = "generate"
    /\ IF Does("gen")
       THEN /\ out' = OpenOutput(NewOutput(GenFile, GeneratePool))
            /\ SetFile(GenFile, <<>>)
            /\ left' = SubSeq(opt.random, 1, Generated)
            /\ pc' = "push"
       ELSE pc' = "split" /\ UNCHANGED <<out, disk, left>>
    /\ UNCHANGED <<opt, files, made, ins, sin, next, scan, failed>>

GeneratePush ==
    /\ pc = "push" /\ left # <<>> /\ CanPush(out)
    /\ out' = Push(out, Head(left)) /\ left' = Tail(left)
    /\ UNCHANGED <<opt, disk, pc, files, made, ins, sin, next, scan, failed>>

GenerateLast ==
    /\ pc = "push" /\ left = <<>> /\ CanPushLast(out)
    /\ out' = PushBlock(out)
    /\ UNCHANGED <<opt, disk, pc, left, files, made, ins, sin, next, scan, failed>>

GenerateClose ==
    /\ pc = "push" /\ left = <<>> /\ out.block = <<>>
    /\ out' = StopOutput(out) /\ pc' = "generated"
    /\ UNCHANGED <<opt, disk, left, files, made, ins, sin, next, scan, failed>>

GenerateJoin ==
    /\ pc = "generated" /\ out.writer = "gone"
    /\ out' = NULL /\ pc' = "split"
    /\ UNCHANGED <<opt, disk, left, files, made, ins, sin, next, scan, failed>>

\* split writes a file per block, sorted.
Split ==
    /\ pc = "split"
    /\ IF Does("spl")
       THEN LET content == Contents(SplitInput)
                size == SplitPool.capacity
                n == (Len(content) + size - 1) \div size
                Part(i) == SubSeq(content, (i - 1) * size + 1, Min({i * size, Len(content)}))
            IN /\ files' = [i \in 1..n |-> SplitFile(i)]
               /\ disk' = [f \in DOMAIN disk \cup ToSet(files') |->
                             IF f \in ToSet(files') THEN SortSeq(Part(f[2]), Less) ELSE disk[f]]
       ELSE UNCHANGED <<files, disk>>
    /\ pc' = "merge"
    /\ UNCHANGED <<opt, left, made, ins, sin, next, out, scan, failed>>

-----------------------------------------------------------------------------
(* merge                                                                      *)

MemMerge == MergeMemory                 \* for one merge at a time
MemOutput == MemMerge \div 2
MemInput == MemMerge - MemOutput

\* The input streams remove their files unless told not to.
MergeInput(f) == NewInput(f, NewPool(MemInput, opt.stmblocks), ~opt.no_rm)

\* The next kmerge files get a stream each, the result a new file.
MergeStart ==
    /\ pc = "merge" /\ Does("mrg") /\ Len(files) > 1
    /\ LET n == Min({opt.kmerge, Len(files)}) IN
       /\ ins' = [i \in 1..n |-> MergeInput(files[i])]
       /\ files' = SubSeq(files, n + 1, Len(files))
    /\ made' = made + 1
    /\ out' = NewOutput(MergeFile(made + 1), NewPool(MemOutput, opt.stmblocks))
    /\ sin' = <<>> /\ next' = 1 /\ pc' = "open"
    /\ UNCHANGED <<opt, disk, left, scan, failed>>

\* merge_streams opens a stream and waits until Empty() has an answer.
OpenStream ==
    /\ pc = "open" /\ next <= Len(ins)
    /\ ins' = [ins EXCEPT ![next] = OpenInput(@, disk)]
    /\ pc' = "opened"
    /\ UNCHANGED <<opt, disk, left, files, made, sin, next, out, scan, failed>>

OpenedStream ==
    /\ pc = "opened" /\ Answered(ins[next])
    /\ ins' = [ins EXCEPT ![next] = Waited(@)]
    /\ sin' = IF Empty(ins'[next]) THEN sin ELSE Append(sin, next)
    /\ next' = next + 1 /\ pc' = "open"
    /\ UNCHANGED <<opt, disk, left, files, made, out, scan, failed>>

\* Without an input that is not empty there is no output.
OpenOut ==
    /\ pc = "open" /\ next > Len(ins)
    /\ IF sin = <<>>
       THEN out' = NULL /\ pc' = "close" /\ next' = 1 /\ UNCHANGED disk
       ELSE /\ out' = OpenOutput(out) /\ SetFile(out.file, <<>>)
            /\ pc' = "choose" /\ UNCHANGED next
    /\ UNCHANGED <<opt, left, files, made, ins, sin, scan, failed>>

MergePush ==
    /\ pc = "choose" /\ sin # <<>> /\ CanPush(out)
    /\ LET fronts == [s \in ToSet(sin) |-> FrontValue(ins[s])]
           less == {st \in ToSet(sin) \X ToSet(sin) : Less(fronts[st[1]], fronts[st[2]])} IN
       \E smin \in Candidates(less, sin) :
         /\ out' = Push(out, fronts[smin])
         /\ ins' = [ins EXCEPT ![smin] = Pop(@)]
         /\ next' = smin
    /\ pc' = "chosen"
    /\ UNCHANGED <<opt, disk, left, files, made, sin, scan, failed>>

\* if (smin->Empty()): the stream leaves the set.
MergeEmpty ==
    /\ pc = "chosen" /\ Answered(ins[next])
    /\ ins' = [ins EXCEPT ![next] = Waited(@)]
    /\ sin' = IF Empty(ins'[next]) THEN Remove(sin, next) ELSE sin
    /\ pc' = "choose"
    /\ UNCHANGED <<opt, disk, left, files, made, next, out, scan, failed>>

MergeLast ==
    /\ pc = "choose" /\ sin = <<>> /\ CanPushLast(out)
    /\ out' = PushBlock(out)
    /\ UNCHANGED <<opt, disk, pc, left, files, made, ins, sin, next, scan, failed>>

MergeStop ==
    /\ pc = "choose" /\ sin = <<>> /\ out.block = <<>>
    /\ out' = StopOutput(out) /\ pc' = "join"
    /\ UNCHANGED <<opt, disk, left, files, made, ins, sin, next, scan, failed>>

\* Mutant of Joined: Close does not wait for OutputLoop.
JoinedAtOnce == TRUE
Joined == out.writer = "gone"

MergeJoin ==
    /\ pc = "join" /\ Joined
    /\ next' = 1 /\ pc' = "close"
    /\ UNCHANGED <<opt, disk, left, files, made, ins, sin, out, scan, failed>>

\* Close of an input stream: close the file, remove it, join the reader.
CloseStream ==
    /\ pc = "close" /\ next <= Len(ins)
    /\ ins[next].reader = "gone"
    /\ ins' = [ins EXCEPT ![next].open = FALSE]
    /\ IF ins[next].open /\ ins[next].rm THEN RemoveFile(ins[next].file) ELSE UNCHANGED disk
    /\ next' = next + 1
    /\ UNCHANGED <<opt, pc, left, files, made, sin, out, scan, failed>>

\* The result goes to the end of the list.
MergeEnd ==
    /\ pc = "close" /\ next > Len(ins)
    /\ files' = IF out = NULL THEN files ELSE Append(files, out.file)
    /\ ins' = <<>> /\ out' = NULL /\ pc' = "merge"
    /\ UNCHANGED <<opt, disk, left, made, sin, next, scan, failed>>

\* The last file is renamed to the output, or there is an error.
Rename ==
    /\ pc = "merge" /\ Does("mrg") /\ Len(files) <= 1
    /\ LET there == files # <<>> /\ ToSet(files) \subseteq DOMAIN disk IN
       /\ disk' = IF ~there THEN disk
                  ELSE [f \in (DOMAIN disk \ {files[1]}) \cup {Sorted} |->
                          IF f = Sorted THEN disk[files[1]] ELSE disk[f]]
       /\ failed' = ~there
    /\ pc' = "check"
    /\ UNCHANGED <<opt, left, files, made, ins, sin, next, out, scan>>

NoMerge ==
    /\ pc = "merge" /\ ~Does("mrg")
    /\ pc' = "check"
    /\ UNCHANGED <<opt, disk, left, files, made, ins, sin, next, out, scan, failed>>

-----------------------------------------------------------------------------
(* check; MBFSort ends with a status instead                                  *)

CheckStream == NewInput(CheckInput, NewPool(Memory, opt.chkblocks), FALSE)
Status == IF failed /\ opt.tool = "MBFSort" THEN "exit" ELSE "done"

Check ==
    /\ pc = "check"
    /\ IF Does("chk")
       THEN ins' = <<OpenInput(CheckStream, disk)>> /\ pc' = "scan"
       ELSE pc' = Status /\ UNCHANGED ins
    /\ UNCHANGED <<opt, disk, left, files, made, sin, next, out, scan, failed>>

\* Mutant of Scanned: vprev stays the first value.
ScannedFirst(s, v) ==
    IF s.cnt = 0 THEN [cnt |-> 1, bad |-> 0, first |-> v, prev |-> v, min |-> v, max |-> v]
    ELSE [s EXCEPT !.cnt = @ + 1, !.bad = IF Less(v, s.prev) THEN @ + 1 ELSE @,
                   !.min = IF Less(v, @) THEN v ELSE @, !.max = IF Less(@, v) THEN v ELSE @]

Scanned(s, v) ==
    IF s.cnt = 0 THEN [cnt |-> 1, bad |-> 0, first |-> v, prev |-> v, min |-> v, max |-> v]
    ELSE [s EXCEPT !.cnt = @ + 1, !.bad = IF Less(v, s.prev) THEN @ + 1 ELSE @, !.prev = v,
                   !.min = IF Less(v, @) THEN v ELSE @, !.max = IF Less(@, v) THEN v ELSE @]

CheckNext ==
    /\ pc = "scan" /\ Answered(ins[1])
    /\ LET s == Waited(ins[1])
       IN IF Empty(s) THEN ins' = <<s>> /\ pc' = "scanned" /\ UNCHANGED scan
          ELSE ins' = <<Pop(s)>> /\ scan' = Scanned(scan, FrontValue(s)) /\ UNCHANGED pc
    /\ UNCHANGED <<opt, disk, left, files, made, sin, next, out, failed>>

CheckEnd ==
    /\ pc = "scanned" /\ ins[1].reader = "gone"
    /\ ins' = <<>> /\ pc' = "done"
    /\ UNCHANGED <<opt, disk, left, files, made, sin, next, out, scan, failed>>

Main == \/ Parse \/ Generate \/ GeneratePush \/ GenerateLast \/ GenerateClose
        \/ GenerateJoin \/ Split \/ MergeStart \/ OpenStream \/ OpenedStream
        \/ OpenOut \/ MergePush \/ MergeEmpty \/ MergeLast \/ MergeStop \/ MergeJoin
        \/ CloseStream \/ MergeEnd \/ Rename \/ NoMerge
        \/ Check \/ CheckNext \/ CheckEnd

-----------------------------------------------------------------------------
(* The threads of the streams: InputLoop and OutputLoop                       *)

InputLoop(i) ==
    /\ \/ /\ ins[i].reader = "read" /\ ~SourceEmpty(ins[i]) /\ Available(ins[i].pool)
          /\ ins' = [ins EXCEPT ![i] = ReadBlock(@)]
       \/ /\ ins[i].reader = "queue"
          /\ ins' = [ins EXCEPT ![i] = QueueBlock(@)]
       \/ /\ ins[i].reader = "read" /\ SourceEmpty(ins[i])
          /\ ins' = [ins EXCEPT ![i] = EndInput(@)]
    /\ UNCHANGED <<opt, disk, pc, left, files, made, sin, next, out, scan, failed>>

OutputLoop ==
    /\ out # NULL
    /\ \/ /\ out.writer = "test" /\ out.queue # <<>>
          /\ out' = WriteBlock(out) /\ SetFile(out.file, Written(out, disk[out.file]))
       \/ /\ out.writer = "test" /\ out.queue = <<>> /\ out.stopped
          /\ out' = EndOutput(out) /\ UNCHANGED disk
       \/ /\ out.writer = "test" /\ out.queue = <<>> /\ ~out.stopped
          /\ out' = Tested(out) /\ UNCHANGED disk
       \/ /\ out.writer = "tested"
          /\ out' = Wait(out) /\ UNCHANGED disk
    /\ UNCHANGED <<opt, pc, left, files, made, ins, sin, next, scan, failed>>

Next == Main \/ OutputLoop \/ \E i \in DOMAIN ins : InputLoop(i)

\* Every thread is scheduled again and again.
Spec == Init /\ [][Next]_vars
FairSpec == /\ Spec /\ WF_vars(Main) /\ WF_vars(OutputLoop)
            /\ WF_vars(\E i \in DOMAIN ins : InputLoop(i))

-----------------------------------------------------------------------------
(* Properties                                                                 *)

Occurrences(v, s) == Cardinality({k \in DOMAIN s : s[k] = v})
OccurrencesIn(v, fs) ==
    Cardinality(UNION {{<<f, k>> : k \in {k \in DOMAIN disk[f] : disk[f][k] = v}} :
                       f \in fs \cap DOMAIN disk})

\* What is to be in the output
Source ==
    IF Refused \/ (opt.ifiles = NULL /\ ~Does("spl")) THEN <<>>
    ELSE IF Does("spl")
    THEN (IF Does("gen") THEN SubSeq(opt.random, 1, Generated)
          ELSE IF SplitInput \in DOMAIN opt.disk THEN opt.disk[SplitInput] ELSE <<>>)
    ELSE FlattenSeq([k \in DOMAIN opt.ifiles |->
                       IF opt.ifiles[k] \in DOMAIN opt.disk THEN opt.disk[opt.ifiles[k]] ELSE <<>>])

Held(s) == Len(s.queue) + (IF s.block = <<>> THEN 0 ELSE 1)

\* Every variable keeps its type.  The blocks of a pool are free, or else in the
\* queue or in hand of its stream or being read; all are back when the stream is
\* closed (assert(blocks_allocated_ == 0)), and Front is only called with a block.
TypeOK ==
    /\ pc \in {"parse", "generate", "push", "generated", "split", "merge", "open", "opened", "choose",
               "chosen", "join", "close", "check", "scan", "scanned", "done", "exit"}
    /\ ToSet(files) \subseteq (IF opt.ifiles = NULL THEN {} ELSE ToSet(opt.ifiles))
         \cup {SplitFile(i) : i \in 1..Len(Source)} \cup {MergeFile(i) : i \in 1..made}
    /\ ToSet(sin) \subseteq DOMAIN ins
    /\ scan.cnt \in 0..(Len(Contents(CheckInput))) /\ failed \in BOOLEAN
    /\ \A i \in DOMAIN ins : LET s == ins[i] IN
         /\ s.pool.free >= 0
         /\ s.pool.allocated = Held(s) + (IF s.fetched = <<>> THEN 0 ELSE 1)
    /\ out # NULL =>
         /\ out.pool.free >= 0 /\ out.pool.allocated = Held(out)
         /\ pc \in {"generated", "close"} /\ out.writer = "gone" => Deletable(out.pool)
    /\ pc \in {"close", "scanned"} =>
         \A i \in DOMAIN ins : ins[i].reader = "gone" => Deletable(ins[i].pool)
    /\ pc = "choose" => \A k \in DOMAIN sin : ~Empty(ins[sin[k]])

\* The edges of a file that agree on the low bits of their hash values, for any
\* number of bits, are neighbours: that is what makes the pages' Bloom bits few.
Grouped(s) ==
    \A bits \in 1..BloomSetBits, i, j \in DOMAIN s, k \in DOMAIN s :
      LET Agree(x, y) == \A b \in 1..bits : Masked(x[1], b) = Masked(y[1], b)
      IN i < k /\ k < j /\ Agree(s[i], s[j]) => Agree(s[i], s[k])

\* When a tool that merges has ended, the output has every value of the input,
\* of all the files given or of all that was generated, as often as that, in
\* order (for MBFSort with the edges grouped by their Bloom bits); with nothing
\* to sort it says so.
OutputExact ==
    pc \in {"done", "exit"} /\ ~Refused /\ Does("mrg") =>
      /\ failed <=> Sorted \notin DOMAIN disk
      /\ failed => Source = <<>>
      /\ ~failed =>
           LET s == disk[Sorted] IN
           /\ Len(s) = Len(Source)
           /\ \A v \in ToSet(Source) : Occurrences(v, s) = Occurrences(v, Source)
           /\ IF opt.tool = "MBFSort" THEN Grouped(s)
              ELSE \A i, j \in DOMAIN s : i < j => s[i] <= s[j]

\* check counts the values and those below their predecessor, and knows the
\* smallest and the largest one, wherever the blocks of the file end.
CheckExact ==
    pc = "done" /\ Does("chk") =>
      LET s == Contents(CheckInput) IN
      /\ scan.cnt = Len(s)
      /\ scan.bad = Cardinality({i \in DOMAIN s : i > 1 /\ s[i] < s[i - 1]})
      /\ s # <<>> => /\ scan.first = Head(s) /\ scan.prev = Last(s)
                     /\ scan.min = Min(ToSet(s)) /\ scan.max = Max(ToSet(s))

\* While files are merged, and removed once they were, every value of the input
\* is in a file as often as it was given: a merge that is stopped halfway has
\* lost nothing.
NothingLost ==
    ~Refused /\ Does("mrg") /\ pc \notin {"parse", "generate", "push", "generated", "split"} =>
      LET source == Source
          kept == ToSet(files) \cup {ins[i].file : i \in DOMAIN ins} \cup {Sorted}
                    \cup (IF out = NULL THEN {} ELSE {out.file})
      IN \A v \in ToSet(source) : OccurrencesIn(v, kept) >= Occurrences(v, source)

\* Close has told OutputLoop to stop after its test of stopped_ and before its
\* wait (block_output_stream.hpp:63 takes no mutex): the notification is lost.
WakeupLost == out # NULL /\ out.writer = "waiting" /\ out.stopped

\* The tool ends, whatever the threads of the streams do: nobody waits for a
\* block, a file or a thread for ever, but for the join of an OutputLoop that
\* has missed the notification of Close.  There is no other way to hang.
ToolEnds == <>(pc \in {"done", "exit"} \/ WakeupLost)

\* What check counts is exact, and a merge never leaves a value in no file.
ToolInv == TypeOK /\ CheckExact /\ NothingLost
=============================================================================
