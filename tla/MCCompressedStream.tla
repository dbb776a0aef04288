------------------------- MODULE MCCompressedStream -------------------------
(* Up to four buffers of two items; three items make a unit of the file.      *)
EXTENDS CompressedStream

\* The i-th buffer, with n items for each super partition
Buffer(i, n) == [s \in Supers |-> [k \in 1..n |-> <<i, k>>]]
Appended == {[i \in 1..n |-> Buffer(i, 2)] : n \in 1..4}
=============================================================================
