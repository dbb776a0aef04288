------------------------------ MODULE Splitter ------------------------------
(* core/x-splitter.hpp: a processor distributes its slice of a buffer over   *)
(* partitions, in the passes of a radix sort between the buffer and the      *)
(* auxiliary buffer (x_split), or in place (x_split_qsort).  An area is a    *)
(* record of the data all processors share and the index of one of them: the *)
(* places where its partitions start.                                        *)
EXTENDS Integers, Sequences, FiniteSets, FiniteSetsExt, SequencesExt, Mapping

\* The bits not yet split by, the bits of a pass, and its fan out.
SplitStart(fanout, final) ==
    LET fan == Min({fanout, final})
    IN [numIn |-> 1, input |-> 0, shift |-> FloorLog2(final), delta |-> FloorLog2(fan), fan |-> fan]

\* The last pass may have fewer bits left than the others.
NextPass(s) ==
    IF s.shift < s.delta THEN [s EXCEPT !.delta = s.shift, !.fan = 2^s.shift, !.shift = 0]
    ELSE [s EXCEPT !.shift = @ - s.delta]

\* Where slice i of the input starts and ends; bytes: the length of all slices.
SliceFrom(index, i) == index[i]
SliceTo(index, i, numIn, bytes) == IF i = numIn - 1 THEN index[0] + bytes ELSE index[i + 1]

\* Where the outputs of the given sizes start, from base on.
Starts(base, size) == [j \in DOMAIN size |-> base + SumFunctionOnSet(size, 0..j - 1)]

\* data after the moves, pairs of a place and an item.
Overwritten(data, moved) ==
    [y \in DOMAIN data |-> IF \E m \in moved : m[1] = y THEN (CHOOSE m \in moved : m[1] = y)[2]
                           ELSE data[y]]

\* One pass: slice i is split into outputs fan * i..fan * (i + 1) - 1.  The
\* counts are added to what the output index holds; slices in order are copied
\* as they are; the input index is left empty for the next pass.  key: the
\* partition of each item.
Pass(src, dst, s, bytes, key) ==
    LET numOut == s.numIn * s.fan
        slice == [i \in 0..s.numIn - 1 |->
                    SliceFrom(src.index, i) + 1..SliceTo(src.index, i, s.numIn, bytes)]
        output == [x \in src.index[0] + 1..src.index[0] + bytes |->
                     (key[src.data[x]] \div 2^s.shift) % numOut]
        size == [j \in 0..numOut - 1 |->
                   IF slice[j \div s.fan] = {} THEN 0
                   ELSE dst.index[j] + Cardinality({x \in slice[j \div s.fan] : output[x] = j})]
        start == Starts(src.index[0], size)
        inOrder == {i \in DOMAIN slice : \A x, y \in slice[i] :
                      x < y => key[src.data[x]] <= key[src.data[y]]}
        Place(i, x) ==
            IF i \in inOrder THEN start[s.fan * i] + x - SliceFrom(src.index, i)
            ELSE start[output[x]] + Cardinality({y \in slice[i] : y <= x /\ output[y] = output[x]})
        moved == UNION {{<<Place(i, x), src.data[x]>> : x \in slice[i]} : i \in DOMAIN slice}
    IN [src |-> [src EXCEPT !.index = [j \in DOMAIN @ |-> IF j < s.numIn THEN 0 ELSE @[j]]],
        dst |-> [data |-> Overwritten(dst.data, moved),
                 index |-> [j \in DOMAIN dst.index |-> IF j < numOut THEN start[j] ELSE dst.index[j]]],
        filled |-> {j \in 0..numOut - 1 : size[j] # 0}]

-----------------------------------------------------------------------------

\* Every way qsort can leave a slice (it need not be stable).
SortedSlices(area, bytes, key) ==
    LET places == area.index[0] + 1..area.index[0] + bytes
    IN {q \in {[x \in 1..bytes |-> area.data[perm[x]]] : perm \in SetToSeqs(places)} :
          \A x \in 1..bytes - 1 : key[q[x]] <= key[q[x + 1]]}

\* The slice sorted as q, and the index of its partitions.
Sort(area, bytes, q, keys, key) ==
    LET base == area.index[0]
        size == [j \in 0..keys - 1 |-> (IF j = 0 THEN 0 ELSE area.index[j])
                                         + Cardinality({x \in 1..bytes : key[q[x]] = j})]
        start == Starts(base, size)
    IN [area |-> [data |-> Overwritten(area.data, {<<base + x, q[x]>> : x \in 1..bytes}),
                  index |-> [j \in DOMAIN area.index |-> IF j < keys THEN start[j] ELSE area.index[j]]],
        filled |-> {j \in 0..keys - 1 : size[j] # 0}]

\* get_substream: the items of a partition in the slice of one processor.
Substream(data, index, bytes, partition, entries) ==
    SubSeq(data, index[partition] + 1,
           IF partition < entries - 1 THEN index[partition + 1] ELSE bytes + index[0])
=============================================================================
