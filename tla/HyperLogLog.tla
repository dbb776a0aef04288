----------------------------- MODULE HyperLogLog -----------------------------
(* utils/hyperloglog.h with two registers (a relative standard deviation  *)
(* of 0.78).  A counter maps each register to the                          *)
(* greatest position of a least set bit seen there.  Estimates are in      *)
(* thousandths; the three builds of hll_union do the same.                 *)
EXTENDS Integers, FiniteSets

CONSTANT Jenkins                       \* the hash of each item

Registers == {0, 1}
Counters == [Registers -> 0..32]

\* alphaMM, small_cnt_threshold and small_cnt_lookup (by the count of zeroes)
AlphaMM == 1874
SmallThreshold == 375
SmallLookup == <<1386, 0>>

Larger(a, b) == IF a < b THEN b ELSE a

\* __builtin_ffs
Ffs(h) == IF h = 0 THEN 0 ELSE CHOOSE k \in 1..32 : h % 2^k # 0 /\ h % 2^(k - 1) = 0

HllInit == [i \in Registers |-> 0]
AddHll(ctr, hash) == [ctr EXCEPT ![hash % 2] = Larger(@, Ffs(hash \div 2))]

HllUnion(a, b) ==
    [ctr |-> [i \in Registers |-> Larger(a[i], b[i])], changed |-> \E i \in Registers : a[i] < b[i]]

\* The sum of 2^-register, in 1/1024
HllSum(ctr) == 2^(10 - ctr[0]) + 2^(10 - ctr[1])
CountHll(ctr) ==
    LET zeroes == Cardinality({i \in Registers : ctr[i] = 0})
    IN IF zeroes > 0 /\ 1000 * HllSum(ctr) > 1024 * SmallThreshold THEN SmallLookup[zeroes]
       ELSE (AlphaMM * 1024) \div HllSum(ctr)
=============================================================================
