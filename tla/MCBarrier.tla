----------------------------- MODULE MCBarrier -----------------------------
(* TLC instance of Barrier: three threads, three rounds each, so that both *)
(* senses are used and the first one is used again.  Liveness is checked,  *)
(* so no symmetry reduction.  The mutants are plausible slips in wait().   *)
EXTENDS Barrier
============================================================================
