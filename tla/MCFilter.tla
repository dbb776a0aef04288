------------------------------ MODULE MCFilter ------------------------------
(* TLC instance of Filter: two threads and queues, four partitions (two    *)
(* per queue), passes enough to drain twice and to refill after done().    *)
EXTENDS Filter
=============================================================================
