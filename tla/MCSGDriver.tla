----------------------------- MODULE MCSGDriver -----------------------------
\* Small graphs for the driver: every set of at most MaxEdges edges, in files
\* of pages of two edges, with the one tombstone a deletion left behind.
EXTENDS SGDriver

CONSTANTS MaxEdges

EdgeSets == UNION {kSubset(k, Vertices \X Vertices) : k \in 0..MaxEdges}

\* The edges with a source in super partition s of n by source, two per page.
Pages(es, s, n) ==
    LET mine == SetToSortSeq({e \in es : e[1] % n = s},
                    LAMBDA d, e : NumVertices * d[1] + d[2] < NumVertices * e[1] + e[2])
        all == IF mine = <<>> \/ s = 0 THEN mine ELSE <<TOMBSTONE>> \o mine
    IN [k \in 1..((Len(all) + 1) \div 2) |-> SubSeq(all, 2*k - 1, Min({2*k, Len(all)}))]

Files(n) == {[s \in 0..n - 1 |-> Pages(es, s, n)] : es \in EdgeSets}

\* Every super partition has an edge, and none or all fit in a buffer.
FullFiles(n) == {f \in Files(n) : \A s \in 0..n - 1 : f[s] # <<>>}
LongFiles(n) == {f \in Files(n) : \A s \in 0..n - 1 : Len(f[s]) > BufferPages}
ShortFiles(n) == {f \in FullFiles(n) : \A s \in 0..n - 1 : Len(f[s]) <= BufferPages}

Set(files, max, chip) == {[file |-> f, maxCheckV |-> max, chipVOnce |-> chip] : f \in files}

\* Two super partitions, where queries for one vertex are asked, and one, where
\* they are padded and asked for up to two.
Both == Set(FullFiles(2), 4, 1) \cup Set(LongFiles(1), 4, 2)
Cached == Set(ShortFiles(1), 2, 1)
=============================================================================
