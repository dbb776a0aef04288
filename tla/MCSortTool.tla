----------------------------- MODULE MCSortTool -----------------------------
(* Values of two bytes; command lines of the two tools.  Memory of 8 bytes in *)
(* 2 blocks holds two values in a block, 4 bytes for the inputs of a merge in *)
(* 1 or 2 blocks two values or one.                                           *)
EXTENDS SortTool

F(i) == <<"given", i>>

Small == [disk |-> <<>>, random |-> <<>>, msize |-> 8, unit |-> "B"]

\* Options given on top of the defaults
With(o) == o @@ Small @@ Defaults
Disk(contents) == [f \in {F(i) : i \in DOMAIN contents} |-> contents[f[2]]]

All == {With([fsize |-> 2 * Len(s), random |-> s, kmerge |-> k]) :
          s \in {<<>>, <<2, 1>>, <<3, 1, 2, 2, 1>>}, k \in {2, 4}}
Whole == {With([act |-> "gen", random |-> [i \in 1..32 |-> (i * 3) % 5], msize |-> 4]),
          With([act |-> "srt", ifile |-> F(1), disk |-> Disk(<<<<2, 3, 1>>>>), splblocks |-> 4]),
          With([act |-> "spl", ifile |-> F(1), disk |-> Disk(<<<<2, 1>>>>)]),
          With([act |-> "none"]), With([unit |-> "G"]), With([act |-> "mrg"])}

\* Files given to be merged: one, two, three, four, five; empty and missing ones
Given == {<<<<1, 2>>>>, <<<<1, 3, 5>>, <<2, 2, 4>>>>, <<<<1>>, <<1, 2, 3>>>>, <<<<2, 3>>, <<>>, <<1>>>>,
          <<<<3>>, <<2>>, <<1, 4>>>>, <<<<4>>, <<3>>, <<2>>, <<1>>>>, <<<<>>, <<>>>>}
Merges == {With([act |-> "mrg", ofile |-> TRUE, disk |-> Disk(g), stmblocks |-> b, no_rm |-> n,
                 ifiles |-> [i \in 1..Len(g) |-> F(i)]]) : g \in Given, b \in {1, 2}, n \in BOOLEAN}
    \cup {With([act |-> "mrg", ofile |-> TRUE, disk |-> Disk(<<<<5>>, <<4>>, <<3>>, <<2>>, <<1>>>>),
                ifiles |-> [i \in 1..5 |-> F(i)], stmblocks |-> b, kmerge |-> 5]) : b \in {1, 2}}
    \cup {With([act |-> "mrg", ofile |-> TRUE, ifiles |-> [i \in 1..6 |-> F(i)], kmerge |-> 5,
                disk |-> Disk(<<<<4>>, <<2>>, <<3, 3>>, <<1>>, <<2>>, <<1>>>>)]),
          With([act |-> "mrg", ofile |-> TRUE, disk |-> Disk(<<<<1>>>>),
                ifiles |-> <<F(1), F(2)>>]),
          With([act |-> "mrg", ofile |-> TRUE, ifiles |-> <<F(2)>>])}

Checks == {With([act |-> "chk", chkfile |-> F(1), disk |-> Disk(<<s>>)]) :
             s \in {<<1>>, <<2, 2, 3, 1>>, <<3, 1, 2, 1, 4>>, <<1, 2, 3, 4, 4, 6>>, <<3, 2, 2>>}}

\* Checksums of the vertices 1 to 4; the edges of MBFSort
Crcs == <<<<5, 2, 8, 3>>, <<2, 9, 7, 4>>, <<4, 0, 1, 9>>, <<1, 0, 0, 5>>>>
Edges == {With([tool |-> "MBFSort", act |-> "srt", msize |-> 40, splblocks |-> 8,
                ifile |-> F(1), disk |-> Disk(<<s>>)]) :
            s \in {<<<<1, 2>>, <<3, 1>>, <<2, 4>>, <<4, 2>>, <<1, 1>>>>, <<<<4, 1>>, <<1, 2>>, <<3, 4>>>>, <<>>}}

CommandLines == All \cup Whole \cup Merges \cup Checks
=============================================================================
