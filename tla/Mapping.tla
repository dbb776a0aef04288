------------------------------- MODULE Mapping -------------------------------
(* core/autotuner.hpp: how many cached and super partitions a run uses, how *)
(* big its buffers are, and where the state of a vertex is.  A configuration *)
(* is a record c; sizes are counted in items (an edge, an update and an      *)
(* index entry are one item long).  The conversions use masks and shifts;    *)
(* check_pow_2 lets only powers of two through, so they are % and \div here. *)
EXTENDS Integers, FiniteSets, FiniteSetsExt

CONSTANTS DiskPageSize,         \* DISK_PAGE_SIZE
          OptimumStreamUnit,    \* OPTIMUM_STREAM_UNIT
          Word                  \* bound: 2^w for the w bits of an unsigned long

ASSUME MappingAssumption == {DiskPageSize, OptimumStreamUnit, Word} \subseteq Nat \ {0}

CeilLog2(n) == Min({k \in 0..n : 2^k >= n})
FloorLog2(n) == Max({k \in 0..n : 2^k <= n})
IsPowerOf2(n) == \E k \in 0..n : n = 2^k

-----------------------------------------------------------------------------
(* Keys *)

PartitionShift(c) == CeilLog2(c.cached)
SuperShift(c) == CeilLog2(c.supers)
Stride(c) == 2^(PartitionShift(c) + SuperShift(c))

\* What check_pow_2 lets through, as the shifts setup_mapping computes from it.
PowersOfTwo(c) ==
    /\ c.vertices \in Nat \ {0}
    /\ c.supers \in Nat \ {0} /\ c.cached \in Nat \ {0}
    /\ 2^SuperShift(c) = c.supers /\ 2^PartitionShift(c) = c.cached
    /\ Stride(c) = c.cached * c.supers

MapSuper(c, key) == key % c.supers

MapCached(c, key) == (key \div 2^SuperShift(c)) % c.cached
MapOffset(c, key) == key \div Stride(c)
MapInverse(c, superp, partition, offset) ==
    (offset * 2^PartitionShift(c) + partition) * 2^SuperShift(c) + superp

\* Mutant of StateCount: every partition gets the rounded down share.
StateCountDown(c, superp, partition) == c.vertices \div Stride(c)

\* The last round of vertices reaches the partition or stops before it.
StateCount(c, superp, partition) ==
    LET base == partition * 2^SuperShift(c) + superp
        full == (c.vertices - 1) \div Stride(c)
    IN IF full * Stride(c) + base < c.vertices THEN full + 1 ELSE full

\* state_prepare: where the states of a partition start in the state buffer.
StateIndex(c, superp, partition) ==
    MapThenSumSet(LAMBDA q : c.vertexSize * StateCount(c, superp, q), 0..partition - 1)

-----------------------------------------------------------------------------
(* Sizes *)

RoundUp(n) == ((n + DiskPageSize - 1) \div DiskPageSize) * DiskPageSize
StateSize(c) == RoundUp((c.vertices \div c.supers) * c.vertexSize)

\* Loaded vertices, indices and filters (one index more for the splitter's
\* auxiliary one), bounce buffers, and the objects themselves.
RamBudget(c) ==
    LET aux == IF c.qsort THEN 0 ELSE 1
    IN StateSize(c) + (2 * c.maxBuffers + aux) * (c.cached + c.processors)
         + c.ioqs * c.streamUnit + c.objects

\* The rest is for the buffers, in unsigned arithmetic.
BufferSize(c) ==
    LET each == ((c.ram - RamBudget(c)) % Word) \div (c.maxBuffers + 1)
    IN (each - (each % DiskPageSize) - DiskPageSize) % Word

\* Mutant of SetCache: the fan out is halved once more than needed.
SetCacheOnceMore(c, partitions, supers) ==
    LET cached == partitions \div supers
        halvings == Min({k \in 0..cached : cached \div 2^k < c.cacheLines})
    IN [c EXCEPT !.supers = supers, !.cached = cached, !.fanout = cached \div 2^halvings]

\* set_cache: the fan out is halved until its outputs fit in the cache's lines.
SetCache(c, partitions, supers) ==
    LET cached == partitions \div supers
        halvings == Min({k \in 0..cached : cached \div 2^k <= c.cacheLines})
    IN [c EXCEPT !.supers = supers, !.cached = cached, !.fanout = cached \div 2^halvings]

\* autotune: enough cached partitions for the cache, and one per processor.
TotalPartitions(c) ==
    LET needed == Min({k \in 0..c.vertices : c.cacheVertices * 2^k >= c.vertices})
    IN Max({2^needed, c.processors})

\* A configuration that autotune settles for.
Accepted(c) ==
    /\ 10 * RamBudget(c) <= 9 * c.ram
    /\ BufferSize(c) >= c.streamUnit * c.supers
=============================================================================
