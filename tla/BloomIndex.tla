----------------------------- MODULE BloomIndex -----------------------------
(* The Bloom index of core/sg_driver.hpp (partition_super_partition and the *)
(* functions it calls, and the query kernel): one filter of source vertices *)
(* per page of an edge file, SIMD_LEN filters to a group, stored bit by bit *)
(* (transposed).  With more than one super partition the edges of the graph *)
(* are also split over one file per super partition.  The files outlive the *)
(* program: between its runs edges are appended to the graph (the script    *)
(* run_random_update.sh), deleted in place (delete_page) and purged          *)
(* (purge_delete), and a run may be killed.  Of an edge only the source is   *)
(* kept.                                                                     *)
EXTENDS Integers, Sequences, FiniteSetsExt, Functions

CONSTANTS Sources,               \* vertices that have edges
          TOMBSTONE,             \* a deleted edge, both ids 0xFFFFFFFF
          SuperPartitionCounts,  \* numbers of super partitions, powers of two
          EdgesPerPage,          \* the option bfs_per_page
          SimdLen,               \* SIMD_LEN, filters in a group
          EdgeBytes,             \* F::split_size_bytes
          IdBits,                \* bits of a vertex id
          Bits, Hash,            \* bits of a filter; the bits a 64-bit value sets
          Wrap,                  \* stands for 2^64
          MaxEdges, MaxDeletes   \* bounds: length of the graph file, deletions

EdgesPerBuf == EdgesPerPage * SimdLen

ASSUME SizesAssumption ==
    /\ {EdgesPerPage, SimdLen, EdgeBytes, IdBits} \subseteq Nat \ {0}
    /\ SuperPartitionCounts \subseteq Nat \ {0}
    /\ MaxEdges \in Nat \ {0} /\ MaxDeletes \in Nat
\* A file has less than 2^64 edges and a group.
ASSUME WrapAssumption == Wrap \in Nat /\ MaxEdges + EdgesPerBuf <= Wrap
\* Ids with the top bit set are hashed differently by the builder and the query.
ASSUME SourcesAssumption ==
    Sources \subseteq 0..2^(IdBits - 1) - 1 /\ TOMBSTONE \notin Sources
ASSUME HashAssumption ==
    \A v \in Sources : Hash[v] \subseteq Bits

VARIABLES superPartitions,   \* fixed by the memory the runs are given
          efile,             \* the graph: a sequence of edges
          part,              \* edge file per super partition, if there are several
          bf,                \* index file per super partition: a sequence of groups
          pc, mode,          \* where the run is, its option bf_mode
          pos,               \* i, the next edge to distribute
          bufs,              \* edge_bufs[s], num_edges[s] edges of it
          epos, bpos,        \* positions of the files, in edges and in groups
          fatal,             \* the assertion that ended the last run, or "no"
          fresh,             \* the last create or update ended and no edge came since
          harm,              \* history, what only a create mends: "wrapped", an update
                             \* found no group in the single index file; "torn", a
                             \* process died while it wrote several files; or "none"
          deleted            \* edges deleted so far

vars == <<superPartitions, efile, part, bf, pc, mode, pos, bufs, epos, bpos, fatal, fresh, harm, deleted>>
files == <<efile, part, bf>>

Supers == 0..superPartitions - 1
SuperOf(v) == v % superPartitions        \* map_super_partition_wrap::map
CeilDiv(m, n) == (m + n - 1) \div n

Init == /\ superPartitions \in SuperPartitionCounts
        /\ efile \in {<<v>> : v \in Sources}
        /\ part = [s \in Supers |-> <<>>] /\ bf = [s \in Supers |-> <<>>]
        /\ pc = "idle" /\ mode = "none" /\ pos = 0
        /\ bufs = [s \in Supers |-> <<>>]
        /\ epos = [s \in Supers |-> 0] /\ bpos = [s \in Supers |-> 0]
        /\ fatal = "no" /\ fresh = FALSE /\ harm = "none" /\ deleted = 0

-----------------------------------------------------------------------------
(* Filters: bloom_filter_calculation and the query kernel "CPU" *)

\* `int src' widened to 64 bits by the builder, `unsigned int tmp_v' by the query.
SignExtended(v) == IF v >= 2^(IdBits - 1) THEN v - 2^IdBits ELSE v
BuildBits(v) == Hash[SignExtended(v)]
QueryBits(v) == Hash[v]

Page(edges, m) ==    \* page m of a sequence of edges, counted from 0; may be empty
    SubSeq(edges, m * EdgesPerPage + 1, Min({(m + 1) * EdgesPerPage, Len(edges)}))

Filter(page) == UNION {BuildBits(page[k]) : k \in DOMAIN page}

\* Mutant of Group: a page that is not full gets no filter.
GroupOfFullPages(edges) ==
    [b \in Bits |-> {m \in 0..SimdLen - 1 :
        Len(Page(edges, m)) = EdgesPerPage /\ b \in Filter(Page(edges, m))}]

\* bshuf_bitshuffle turns the filters of a group into rows: for every bit, the
\* pages that have it.  The filters of a group that is not full end in zeros.
Group(edges) == [b \in Bits |-> {m \in 0..SimdLen - 1 : b \in Filter(Page(edges, m))}]

\* The pages the index file of s names for the vertices vs.
Asked(s, vs) ==
    {k \in 0..SimdLen * Len(bf[s]) - 1 :
        \E v \in vs : \A b \in QueryBits(v) : (k % SimdLen) \in bf[s][k \div SimdLen + 1][b]}

-----------------------------------------------------------------------------
(* A run begins: partition_super_partition opens the files, sanity_check    *)
(* compares their sizes                                                      *)

Groups(edges) == CeilDiv(Len(edges), EdgesPerBuf)

\* The edges in all the edge files together
Distributed == Cardinality(UNION {{s} \X DOMAIN part[s] : s \in Supers})

\* The value as an unsigned long long
Unsigned(n) == IF n < 0 THEN n + Wrap ELSE n

Building == mode \in {"create", "update"}
Reading == mode \in {"use", "verify"}

SizesAgree ==
    IF superPartitions = 1
    THEN /\ mode \in {"use", "verify"} => Len(bf[0]) = Groups(efile)
         /\ mode = "update" => Len(bf[0]) <= Groups(efile)
    ELSE /\ \A s \in Supers : /\ Reading => Len(bf[s]) = Groups(part[s])
                              /\ mode = "update" => Len(bf[s]) <= Groups(part[s])
         /\ Reading => Len(efile) = Distributed
         /\ mode = "update" => Len(efile) >= Distributed

\* Mutant of StartEdge: an update goes on after the last group.
StartAfterLast ==
    IF mode # "update" THEN 0
    ELSE IF superPartitions = 1 THEN Len(bf[0]) * EdgesPerBuf ELSE Distributed

\* An update of a single index file builds its last group again; if it has no
\* group that is (0 - 1) * edges_per_buf, behind every edge.  Of several files
\* the edges that were split before are skipped.
StartEdge ==
    IF mode # "update" THEN 0
    ELSE IF superPartitions = 1 THEN Unsigned((Len(bf[0]) - 1) * EdgesPerBuf) ELSE Distributed

\* The variables of partition_super_partition and edge_distribution go.
Forget == /\ pos' = 0 /\ bufs' = [s \in Supers |-> <<>>]
          /\ epos' = [s \in Supers |-> 0] /\ bpos' = [s \in Supers |-> 0]

\* The process dies, and what fwrite has not passed on is lost.  A single index
\* file has the groups up to some moment, as if the process had died then (a part
\* of a group at its end counts as none: bf_size / bf_buf_size).  Of several files
\* each lacks its own last part, here up to a group of an edge file or index file.
Dies ==
    /\ pc' = "idle" /\ Forget
    /\ IF superPartitions > 1 /\ Building /\ pc = "distribute"
       THEN /\ harm' = "torn"
            /\ \E lost \in [Supers -> 0..EdgesPerBuf], gone \in [Supers -> 0..1] :
                  /\ part' = [s \in Supers |-> SubSeq(part[s], 1, Len(part[s]) - lost[s])]
                  /\ bf' = [s \in Supers |-> SubSeq(bf[s], 1, Len(bf[s]) - gone[s])]
       ELSE UNCHANGED <<part, bf, harm>>
    /\ UNCHANGED <<superPartitions, efile, mode, fresh, deleted>>

\* An assertion fails.
Abort(assertion) == fatal' = assertion /\ Dies

\* Files are created empty, opened to be read and written otherwise; a run that
\* finds no files fails at once and is left out.
Start(m) ==
    /\ pc = "idle" /\ (mode = "none" => m = "create")
    /\ mode' = m /\ pc' = "check" /\ fatal' = "no"
    /\ IF m = "create"
       THEN part' = [s \in Supers |-> <<>>] /\ bf' = [s \in Supers |-> <<>>]
       ELSE UNCHANGED <<part, bf>>
    /\ fresh' = (fresh /\ m \in {"use", "verify"})
    /\ harm' = IF m = "create" THEN "none" ELSE harm
    /\ UNCHANGED <<superPartitions, efile, pos, bufs, epos, bpos, deleted>>

FindsNoGroup == mode = "update" /\ superPartitions = 1 /\ bf[0] = <<>>

SanityCheck ==
    /\ pc = "check"
    /\ IF ~SizesAgree THEN Abort("size")
       ELSE /\ pos' = StartEdge
            /\ pc' = IF mode = "use" THEN "query" ELSE "seek"
            /\ harm' = IF FindsNoGroup THEN "wrapped" ELSE harm
            /\ UNCHANGED <<superPartitions, files, mode, bufs, epos, bpos, fatal, fresh, deleted>>

-----------------------------------------------------------------------------
(* edge_distribution *)

\* There is an edge at position pos.
MoreEdges == pos + 1 \in DOMAIN efile

\* num_edges[s] when edge_distribution is entered
Had(s) == IF superPartitions > 1 /\ mode = "update" THEN Len(part[s]) ELSE 0
Rest(s) == Had(s) % EdgesPerBuf       \* previous_edges

\* The edges of a group that is not full are read back, and the number of edges
\* that fread returns is compared with their number of bytes.
ReadBackFails == \E s \in Supers : Rest(s) # 0 /\ Rest(s) # Rest(s) * EdgeBytes

\* Mutant of FirstGroup: the index file is always written from its beginning.
FirstGroupZero(s) == 0

FirstGroup(s) ==
    IF superPartitions > 1 THEN Had(s) \div EdgesPerBuf
    ELSE IF pos # Len(efile) THEN pos \div EdgesPerBuf ELSE 0

Seek ==
    /\ pc = "seek"
    /\ IF ReadBackFails THEN Abort("read amount is incorrect")
       ELSE /\ bufs' = [s \in Supers |-> SubSeq(part[s], Had(s) - Rest(s) + 1, Had(s))]
            /\ epos' = [s \in Supers |-> Had(s) - Rest(s)]
            /\ bpos' = [s \in Supers |-> FirstGroup(s)]
            /\ pc' = "distribute"
            /\ UNCHANGED <<superPartitions, files, mode, pos, fatal, fresh, harm, deleted>>

\* fwrite of new at position at of a file
Written(old, at, new) ==
    SubSeq(old, 1, at) \o new \o SubSeq(old, at + Len(new) + 1, Len(old))

\* fwrite behind the end of an index file leaves zeros before the new group.
Padded(index, at) ==
    IF at <= Len(index) THEN index
    ELSE index \o [g \in 1..at - Len(index) |-> [b \in Bits |-> {}]]

\* memcmp of new with what is read at position at
Same(old, at, new) ==
    at + Len(new) <= Len(old) /\ SubSeq(old, at + 1, at + Len(new)) = new

\* The edges of s in new form a group: verify compares its filters and, if there
\* are several files, its edges with what is there; create and update write them.
Matches(s, new) ==
    /\ Same(bf[s], bpos[s], <<Group(new)>>)
    /\ superPartitions > 1 => Same(part[s], epos[s], new)

WriteGroup(s, new) ==
    /\ bf' = [bf EXCEPT ![s] = Written(Padded(bf[s], bpos[s]), bpos[s], <<Group(new)>>)]
    /\ part' = IF superPartitions > 1
               THEN [part EXCEPT ![s] = Written(part[s], epos[s], new)] ELSE part

Flush(s, new) ==
    IF mode = "verify" /\ ~Matches(s, new) THEN Abort("verify")
    ELSE /\ IF Building THEN WriteGroup(s, new) ELSE UNCHANGED <<bf, part>>
         /\ bpos' = [bpos EXCEPT ![s] = @ + 1]
         /\ epos' = [epos EXCEPT ![s] = @ + Len(new)]
         /\ bufs' = [bufs EXCEPT ![s] = <<>>]
         /\ UNCHANGED <<superPartitions, efile, pc, mode, fatal, fresh, harm, deleted>>

IsFull(edges) == Len(edges) = EdgesPerBuf

\* The next edge goes to the buffer of its super partition.
Distribute ==
    /\ pc = "distribute" /\ MoreEdges
    /\ LET e == efile[pos + 1] IN
       IF e = TOMBSTONE THEN Abort("tombstone")
       ELSE LET s == SuperOf(e)
                new == Append(bufs[s], e)
            IN /\ IF IsFull(new)
                  THEN Flush(s, new)
                  ELSE /\ bufs' = [bufs EXCEPT ![s] = new]
                       /\ UNCHANGED <<superPartitions, files, pc, mode, epos, bpos, fatal, fresh, harm, deleted>>
               /\ fatal' = "no" => pos' = pos + 1

\* What is left in the buffers is flushed, super partition by super partition.
FlushRest ==
    /\ pc = "distribute" /\ ~MoreEdges
    /\ \E s \in Supers : /\ bufs[s] # <<>> /\ \A r \in 0..s - 1 : bufs[r] = <<>>
                         /\ Flush(s, bufs[s])
                         /\ fatal' = "no" => UNCHANGED pos

\* The files are closed and the algorithm runs.
Close ==
    /\ pc = "distribute" /\ ~MoreEdges /\ \A s \in Supers : bufs[s] = <<>>
    /\ pc' = "query" /\ fresh' = (fresh \/ Building) /\ Forget
    /\ UNCHANGED <<superPartitions, files, mode, fatal, harm, deleted>>

End ==
    /\ pc = "query" /\ pc' = "idle"
    /\ UNCHANGED <<superPartitions, files, mode, pos, bufs, epos, bpos, fatal, fresh, harm, deleted>>

-----------------------------------------------------------------------------
(* Between and around the runs *)

\* A run is killed.
Kill == pc \in {"check", "seek", "distribute"} /\ Dies /\ UNCHANGED fatal

AddEdge ==
    /\ pc = "idle" /\ Len(efile) < MaxEdges
    /\ \E v \in Sources : efile' = Append(efile, v)
    /\ fresh' = FALSE
    /\ UNCHANGED <<superPartitions, part, bf, pc, mode, pos, bufs, epos, bpos, fatal, harm, deleted>>

\* delete_page overwrites edges of the graph file in place.
Delete ==
    /\ pc = "idle" /\ deleted < MaxDeletes
    /\ \E k \in DOMAIN efile : /\ efile[k] # TOMBSTONE
                               /\ efile' = [efile EXCEPT ![k] = TOMBSTONE]
    /\ deleted' = deleted + 1
    /\ UNCHANGED <<superPartitions, part, bf, pc, mode, pos, bufs, epos, bpos, fatal, fresh, harm>>

\* purge_delete writes a graph file of the edges that are not deleted, in their
\* order; it needs new index files, as run_purge_delete_twitter.sh makes them.
Kept == {k \in DOMAIN efile : efile[k] # TOMBSTONE}

Purge ==
    /\ pc = "idle" /\ Kept # DOMAIN efile
    /\ \E place \in [1..Cardinality(Kept) -> Kept] :
          /\ \A i, j \in DOMAIN place : i < j => place[i] < place[j]
          /\ efile' = [i \in DOMAIN place |-> efile[place[i]]]
    /\ mode' = "none" /\ fresh' = FALSE
    /\ UNCHANGED <<superPartitions, part, bf, pc, pos, bufs, epos, bpos, fatal, harm, deleted>>

Next == \/ \E m \in {"create", "update", "verify", "use"} : Start(m)
        \/ SanityCheck \/ Seek \/ Distribute \/ FlushRest \/ Close \/ End
        \/ Kill \/ AddEdge \/ Delete \/ Purge

Spec == Init /\ [][Next]_vars

-----------------------------------------------------------------------------
(* Properties *)

\* Every variable keeps its type; a buffer never holds a full group for long.
TypeOK ==
    LET Edges == Sources \cup {TOMBSTONE}
    IN /\ superPartitions \in SuperPartitionCounts
       /\ efile \in Seq(Edges) /\ Len(efile) <= MaxEdges
       /\ DOMAIN part = Supers /\ \A s \in Supers : part[s] \in Seq(Sources)
       /\ DOMAIN bf = Supers
       /\ \A s \in Supers : \A g \in DOMAIN bf[s] : bf[s][g] \in [Bits -> SUBSET (0..SimdLen - 1)]
       /\ pc \in {"idle", "check", "seek", "distribute", "query"}
       /\ mode \in {"none", "create", "update", "verify", "use"}
       /\ pos \in Nat
       /\ DOMAIN bufs = Supers
       /\ \A s \in Supers : bufs[s] \in Seq(Sources) /\ Len(bufs[s]) < EdgesPerBuf
       /\ epos \in [Supers -> Nat] /\ bpos \in [Supers -> Nat]
       /\ fatal \in {"no", "size", "read amount is incorrect", "tombstone", "verify"}
       /\ fresh \in BOOLEAN /\ harm \in {"none", "wrapped", "torn"} /\ deleted \in 0..MaxDeletes

\* The file the edges of super partition s are scattered from.
EdgeFile(s) == IF superPartitions = 1 THEN efile ELSE part[s]

\* The filters have no false negatives: whatever sequence of creations, updates,
\* kills, appends and deletions led to the files, once a create or an update has
\* gone through, a page that holds an edge of vertex v is among those the index
\* names for v.  partition_callback skips every other page.  There are two
\* exceptions, and only a create ends them: an update found no group in the single
\* index file (the create before it was killed before its first group, or the graph
\* had no edges then), ended without an error and built nothing (NothingBuilt); or
\* a process died while it wrote several edge files and index files.
NoPageMissed ==
    (pc = "query" /\ fresh /\ harm = "none") =>
        \A s \in Supers : \A k \in DOMAIN EdgeFile(s) :
            LET v == EdgeFile(s)[k]
            IN v # TOMBSTONE => (k - 1) \div EdgesPerPage \in Asked(s, {v})

Undeleted == \A k \in DOMAIN efile : efile[k] # TOMBSTONE

\* The places up to n of the graph that hold edges of super partition s
Own(s, n) == {k \in 1..n : SuperOf(efile[k]) = s}

\* The edges of s among the first n of the graph, in their order
IsOwnEdges(edges, s, n) ==
    /\ Len(edges) = Cardinality(Own(s, n))
    /\ \A k \in Own(s, n) : edges[Cardinality(Own(s, k))] = efile[k]

\* The index file that is built from a whole file of edges
Index(edges) ==
    [g \in 1..Groups(edges) |->
        Group(SubSeq(edges, (g - 1) * EdgesPerBuf + 1, Min({g * EdgesPerBuf, Len(edges)})))]

\* Incremental updates are as good as a new index: after any number of updates
\* the files are those that creating them from the whole graph would give, also
\* when builds of a single index file were killed on the way.  The exceptions are
\* those of NoPageMissed.
UpdateIsRebuild ==
    (fresh /\ Undeleted /\ harm = "none") =>
        \A s \in Supers : /\ superPartitions > 1 => IsOwnEdges(part[s], s, Len(efile))
                          /\ bf[s] = Index(EdgeFile(s))

\* The option bf_mode=verify accepts what create and update wrote, with the same
\* exceptions.
VerifyAccepts == (fresh /\ Undeleted /\ harm = "none") => fatal \notin {"verify", "size"}

\* An update can read back the group it continues (the assertion "read amount is
\* incorrect" of edge_distribution).  The code compares edges with bytes.
ReadsBackGroup == fatal # "read amount is incorrect"

\* Once an update has found no group in the single index file, no later update
\* puts one there: only a create does.
NothingBuilt == harm = "wrapped" => superPartitions = 1 /\ bf[0] = <<>>

\* The invariants of a run beside the index itself.
IndexInv == TypeOK /\ VerifyAccepts /\ NothingBuilt
=============================================================================
