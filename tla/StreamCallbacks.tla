--------------------------- MODULE StreamCallbacks ---------------------------
(* What the programs written directly on the streams of core/x-lib.hpp     *)
(* share.  Such a program is a list of passes; a pass goes through the     *)
(* super partitions and does the same steps for each: do_state_iter, which *)
(* calls state_iter_callback on every vertex, do_stream, which calls       *)
(* partition_callback on every item of a stream, and do_cpu.               *)
(*                                                                         *)
(* An item is a record whose key is the vertex that decides its super      *)
(* partition and that the callback looks up; id tells it from its likes.   *)
EXTENDS Integers, Sequences, FiniteSets, Bags

CONSTANTS NumVertices, NONE,
          Niters,              \* the iterations of a program with a fixed number
          Scale                \* a fraction is counted in 1/Scale

Vertices == 0..NumVertices - 1
Infinity == 1000                       \* the largest value of a weight

(* The steps of a pass; in is the stream read, out the one written. *)

Iter(step) == [do |-> "iter", step |-> step]
Cpu(step) == [do |-> "cpu", step |-> step]
Read(step, in, out) == [do |-> "stream", step |-> step, in |-> in, out |-> out,
                        reset |-> FALSE, loopback |-> FALSE]
Drain(step, in, out) == [Read(step, in, out) EXCEPT !.reset = TRUE]

(* What a callback did: the vertex's record, the items written and what it *)
(* added to the per-processor data.                                        *)

Did(r, items, counted) == [rec |-> r, out |-> items, add |-> counted]
Keeps(r) == Did(r, {}, EmptyBag)
Writes(r, items) == Did(r, items, EmptyBag)
Counted(name, n) == IF n = 0 THEN EmptyBag ELSE [c \in {name} |-> n]
One(name) == Counted(name, 1)
=============================================================================
