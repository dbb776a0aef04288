---------------------------- MODULE MCBloomIndex ----------------------------
(* Small filters in which different vertices collide.                       *)
EXTENDS BloomIndex

MCHash == [x \in -(2^(IdBits - 1))..2^IdBits - 1 |-> {x % 3, (x \div 2) % 3}]
=============================================================================
