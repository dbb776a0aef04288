--------------------------- MODULE OperatorProofs ---------------------------
(* Proofs about the pure functions of two modules: the counters of hyperanf  *)
(* and the places of vertices in partitions.                                 *)
EXTENDS HyperLogLog, Mapping, TLAPS

-----------------------------------------------------------------------------
(* Why hyperanf may unite counters in any order, as often as it likes, and *)
(* send only those that changed: the union of counters is the least upper  *)
(* bound of a partial order, and adding an item commutes with it.          *)

Union(a, b) == HllUnion(a, b).ctr

\* The union of two counters is a counter, each register the greater of the two.
LEMMA UnionType ==
    ASSUME NEW a \in Counters, NEW b \in Counters
    PROVE  /\ Union(a, b) \in Counters
           /\ \A i \in Registers : Union(a, b)[i] = Larger(a[i], b[i])
    BY DEF Union, HllUnion, Counters, Registers, Larger

\* hll_union: the order in which updates reach a vertex, and how often the same
\* counter does, makes no difference.
THEOREM UnionIsJoin ==
    ASSUME NEW a \in Counters, NEW b \in Counters, NEW c \in Counters
    PROVE  /\ Union(a, a) = a
           /\ Union(a, b) = Union(b, a)
           /\ Union(Union(a, b), c) = Union(a, Union(b, c))
<1>1. Union(a, a) = a
  BY DEF Union, HllUnion, Counters, Registers, Larger
<1>2. Union(a, b) = Union(b, a)
  BY DEF Union, HllUnion, Counters, Registers, Larger
<1>3. Union(Union(a, b), c) = Union(a, Union(b, c))
  <2>1. Union(a, b) \in Counters /\ Union(b, c) \in Counters
    BY UnionType
  <2>2. /\ Union(Union(a, b), c) \in Counters
        /\ Union(a, Union(b, c)) \in Counters
    BY <2>1, UnionType
  <2>3. ASSUME NEW i \in Registers
        PROVE  Union(Union(a, b), c)[i] = Union(a, Union(b, c))[i]
    <3>1. Union(Union(a, b), c)[i] = Larger(Larger(a[i], b[i]), c[i])
      BY <2>1, UnionType
    <3>2. Union(a, Union(b, c))[i] = Larger(a[i], Larger(b[i], c[i]))
      BY <2>1, UnionType
    <3>3. a[i] \in Int /\ b[i] \in Int /\ c[i] \in Int
      BY DEF Counters
    <3>4. QED
      BY <3>1, <3>2, <3>3 DEF Larger
  <2>4. QED
    BY <2>2, <2>3 DEF Counters
<1>4. QED
  BY <1>1, <1>2, <1>3

\* apply_one_update: a vertex is marked changed exactly if its counter is another.
THEOREM ChangedExactly ==
    ASSUME NEW a \in Counters, NEW b \in Counters
    PROVE  HllUnion(a, b).changed <=> Union(a, b) # a
<1>1. HllUnion(a, b).changed <=> \E i \in Registers : a[i] < b[i]
  BY DEF HllUnion
<1>2. ASSUME NEW i \in Registers
      PROVE  a[i] < b[i] <=> Union(a, b)[i] # a[i]
  <2>1. a[i] \in Int /\ b[i] \in Int
    BY DEF Counters
  <2>2. QED
    BY <2>1, UnionType DEF Larger
<1>3. Union(a, b) # a <=> \E i \in Registers : Union(a, b)[i] # a[i]
  BY UnionType DEF Counters
<1>4. QED
  BY <1>1, <1>2, <1>3

\* A counter that has reached a vertex adds nothing when it comes again: an
\* update is only needed from a vertex that changed.
THEOREM SentOnce ==
    ASSUME NEW a \in Counters, NEW b \in Counters, NEW c \in Counters
    PROVE  ~HllUnion(Union(Union(a, b), c), b).changed
<1>1. Union(a, b) \in Counters
  BY UnionType
<1>2. Union(Union(a, b), c) \in Counters
  BY <1>1, UnionType
<1>3. ASSUME NEW i \in Registers
      PROVE  ~(Union(Union(a, b), c)[i] < b[i])
  <2>1. Union(Union(a, b), c)[i] = Larger(Larger(a[i], b[i]), c[i])
    BY <1>1, UnionType
  <2>2. a[i] \in Int /\ b[i] \in Int /\ c[i] \in Int
    BY DEF Counters
  <2>3. QED
    BY <2>1, <2>2 DEF Larger
<1>4. QED
  BY <1>3 DEF HllUnion

\* add_hll_counter: a counter united with another is the counter of the items of
\* both, whenever its own were added.
THEOREM AddThenUnite ==
    ASSUME NEW a \in Counters, NEW b \in Counters, NEW hash \in Nat,
           Ffs(hash \div 2) \in 0..32
    PROVE  /\ AddHll(a, hash) \in Counters
           /\ Union(AddHll(a, hash), b) = AddHll(Union(a, b), hash)
<1> DEFINE bit == Ffs(hash \div 2)
           r == hash % 2
<1>1. r \in Registers
  BY DEF Registers
<1>2. ASSUME NEW x \in Counters
      PROVE  /\ AddHll(x, hash) \in Counters
             /\ \A i \in Registers : AddHll(x, hash)[i] = IF i = r THEN Larger(x[i], bit) ELSE x[i]
  BY <1>1 DEF AddHll, Counters, Larger
<1>3. AddHll(a, hash) \in Counters /\ Union(a, b) \in Counters
  BY <1>2, UnionType
<1>4. Union(AddHll(a, hash), b) \in Counters /\ AddHll(Union(a, b), hash) \in Counters
  BY <1>2, <1>3, UnionType
<1>5. ASSUME NEW i \in Registers
      PROVE  Union(AddHll(a, hash), b)[i] = AddHll(Union(a, b), hash)[i]
  <2>1. Union(AddHll(a, hash), b)[i] = Larger(AddHll(a, hash)[i], b[i])
    BY <1>3, UnionType
  <2>2. AddHll(a, hash)[i] = IF i = r THEN Larger(a[i], bit) ELSE a[i]
    BY <1>2
  <2>3. AddHll(Union(a, b), hash)[i] = IF i = r THEN Larger(Larger(a[i], b[i]), bit) ELSE Larger(a[i], b[i])
    BY <1>2, <1>3, UnionType
  <2>4. a[i] \in Int /\ b[i] \in Int /\ bit \in Int
    BY DEF Counters
  <2>5. QED
    BY <2>1, <2>2, <2>3, <2>4 DEF Larger
<1>6. QED
  BY <1>3, <1>4, <1>5 DEF Counters

-----------------------------------------------------------------------------
(* Where the state of a vertex is, for any number of vertices: map_super,   *)
(* map_cached and map_offset name a place, map_inverse the vertex at it,    *)
(* and state_count the number of places a partition needs (autotuner.hpp).  *)

\* A quotient and a remainder that fit are the quotient and the remainder.
LEMMA DivisionUnique ==
    ASSUME NEW a \in Nat, NEW b \in Nat \ {0}, NEW q \in Nat, NEW r \in 0..b - 1,
           a = b * q + r
    PROVE  a \div b = q /\ a % b = r
OBVIOUS

\* The quotient and the remainder are numbers of the right size.
LEMMA Division ==
    ASSUME NEW a \in Nat, NEW b \in Nat \ {0}
    PROVE  /\ a \div b \in Nat /\ a % b \in 0..b - 1
           /\ a = b * (a \div b) + (a % b)
OBVIOUS

\* A product grows with its second factor.
LEMMA Monotone ==
    ASSUME NEW n \in Nat, NEW x \in Nat, NEW y \in Nat, x <= y
    PROVE  n * x <= n * y
OBVIOUS

\* The base of a partition: its number in the first round of vertices.
Base(c, superp, partition) == partition * c.supers + superp

\* The base of a partition is one of a round.
LEMMA BaseInRound ==
    ASSUME NEW c, PowersOfTwo(c),
           NEW superp \in 0..c.supers - 1, NEW partition \in 0..c.cached - 1
    PROVE  Base(c, superp, partition) \in 0..Stride(c) - 1
<1>1. /\ c.supers \in Nat \ {0} /\ c.cached \in Nat \ {0}
      /\ Stride(c) = c.cached * c.supers
  BY DEF PowersOfTwo
<1>2. c.supers * partition <= c.supers * (c.cached - 1)
  BY <1>1, Monotone
<1>3. c.supers * (c.cached - 1) = c.cached * c.supers - c.supers
  BY <1>1
<1>4. partition * c.supers = c.supers * partition /\ partition * c.supers \in Nat
  BY <1>1
<1> HIDE DEF PowersOfTwo
<1>5. c.cached * c.supers \in Nat
  BY <1>1
<1>6. QED
  BY <1>1, <1>2, <1>3, <1>4, <1>5 DEF Base

\* map_super, map_cached, map_offset: every vertex has a place, and it is the
\* vertex that map_inverse has for this place; so no two vertices share one.
THEOREM PlaceOfVertex ==
    ASSUME NEW c, PowersOfTwo(c), NEW key \in Nat
    PROVE  LET superp == MapSuper(c, key)
               partition == MapCached(c, key)
               offset == MapOffset(c, key)
           IN /\ superp \in 0..c.supers - 1 /\ partition \in 0..c.cached - 1 /\ offset \in Nat
              /\ MapInverse(c, superp, partition, offset) = key
              /\ key = Stride(c) * offset + Base(c, superp, partition)
              /\ offset = (key \div c.supers) \div c.cached
<1> DEFINE q == key \div c.supers
           superp == MapSuper(c, key)
           partition == MapCached(c, key)
           o == q \div c.cached
           base == Base(c, superp, partition)
<1>1. /\ c.supers \in Nat \ {0} /\ c.cached \in Nat \ {0}
      /\ 2^SuperShift(c) = c.supers /\ 2^PartitionShift(c) = c.cached
      /\ Stride(c) = c.cached * c.supers
  BY DEF PowersOfTwo
<1>2. /\ q \in Nat /\ superp \in 0..c.supers - 1
      /\ key = c.supers * q + superp
  BY <1>1, Division DEF MapSuper
<1>3. /\ o \in Nat /\ partition \in 0..c.cached - 1
      /\ q = c.cached * o + partition
  BY <1>1, <1>2, Division DEF MapCached
<1>4. base \in 0..Stride(c) - 1
  BY <1>2, <1>3, BaseInRound
<1>5. key = Stride(c) * o + base
  <2> HIDE DEF q, o, superp, partition
  <2>1. key = c.supers * (c.cached * o + partition) + superp
    BY <1>2, <1>3
  <2>2. c.supers * (c.cached * o + partition) = (c.cached * c.supers) * o + partition * c.supers
    BY <1>1, <1>2, <1>3
  <2>3. QED
    BY <1>1, <1>2, <1>3, <2>1, <2>2 DEF Base
<1>6. MapOffset(c, key) = o
  <2>1. Stride(c) \in Nat \ {0}
    BY <1>1
  <2>2. QED
    BY <1>3, <1>4, <1>5, <2>1, DivisionUnique DEF MapOffset
<1>7. MapInverse(c, superp, partition, o) = key
  <2> HIDE DEF q, o, superp, partition
  <2>1. MapInverse(c, superp, partition, o) = (o * c.cached + partition) * c.supers + superp
    BY <1>1 DEF MapInverse
  <2>2. (o * c.cached + partition) * c.supers = c.supers * q
    BY <1>1, <1>2, <1>3
  <2>3. QED
    BY <1>2, <2>1, <2>2
<1>8. QED
  BY <1>2, <1>3, <1>5, <1>6, <1>7

\* map_inverse: every place has a vertex, whose place it is.
THEOREM VertexAtPlace ==
    ASSUME NEW c, PowersOfTwo(c), NEW superp \in 0..c.supers - 1,
           NEW partition \in 0..c.cached - 1, NEW offset \in Nat
    PROVE  LET key == MapInverse(c, superp, partition, offset)
           IN /\ key \in Nat
              /\ key = Stride(c) * offset + Base(c, superp, partition)
              /\ MapSuper(c, key) = superp
              /\ MapCached(c, key) = partition
              /\ MapOffset(c, key) = offset
<1> DEFINE key == MapInverse(c, superp, partition, offset)
           q == c.cached * offset + partition
<1>1. /\ c.supers \in Nat \ {0} /\ c.cached \in Nat \ {0}
      /\ 2^SuperShift(c) = c.supers /\ 2^PartitionShift(c) = c.cached
      /\ Stride(c) = c.cached * c.supers
  BY DEF PowersOfTwo
<1>2. q \in Nat
  BY <1>1
<1>3. key = c.supers * q + superp /\ key \in Nat
  <2>1. key = (offset * c.cached + partition) * c.supers + superp
    BY <1>1 DEF MapInverse
  <2>2. (offset * c.cached + partition) * c.supers = c.supers * q
    BY <1>1
  <2> HIDE DEF key, q
  <2>3. c.supers * q \in Nat
    BY <1>1, <1>2
  <2>4. QED
    BY <1>1, <2>1, <2>2, <2>3
<1>4. key \div c.supers = q /\ key % c.supers = superp
  <2> HIDE DEF key, q
  <2>1. QED
    BY <1>1, <1>2, <1>3, DivisionUnique
<1>5. q \div c.cached = offset /\ q % c.cached = partition
  BY <1>1, <1>2, DivisionUnique
<1>6. MapSuper(c, key) = superp
  BY <1>4 DEF MapSuper
<1>7. MapCached(c, key) = partition
  BY <1>1, <1>4, <1>5 DEF MapCached
<1>8. /\ key = Stride(c) * MapOffset(c, key) + Base(c, superp, partition)
      /\ MapOffset(c, key) = (key \div c.supers) \div c.cached
  BY <1>3, <1>6, <1>7, PlaceOfVertex
<1>9. MapOffset(c, key) = offset
  BY <1>4, <1>5, <1>8
<1>10. QED
  BY <1>3, <1>6, <1>7, <1>8, <1>9

\* state_count: the places of a partition that have a vertex are the first ones,
\* as many as the state buffer has room for.
THEOREM StateCountExact ==
    ASSUME NEW c, PowersOfTwo(c), NEW superp \in 0..c.supers - 1,
           NEW partition \in 0..c.cached - 1, NEW offset \in Nat
    PROVE  /\ StateCount(c, superp, partition) \in Nat
           /\ offset < StateCount(c, superp, partition)
                <=> MapInverse(c, superp, partition, offset) < c.vertices
<1> DEFINE base == Base(c, superp, partition)
           T == Stride(c)
           full == (c.vertices - 1) \div T
           count == StateCount(c, superp, partition)
           key == MapInverse(c, superp, partition, offset)
<1>1. /\ T \in Nat \ {0} /\ c.vertices \in Nat \ {0} /\ c.vertices - 1 \in Nat
      /\ 2^SuperShift(c) = c.supers
  BY DEF PowersOfTwo
<1>2. base \in 0..T - 1
  BY BaseInRound
<1>3. key = T * offset + base
  BY VertexAtPlace
<1>4. /\ full \in Nat
      /\ T * full <= c.vertices - 1 /\ c.vertices - 1 < T * full + T
  <2> HIDE DEF T
  <2>1. /\ full \in Nat /\ ((c.vertices - 1) % T) \in 0..T - 1
        /\ c.vertices - 1 = T * full + ((c.vertices - 1) % T)
    BY <1>1, Division
  <2>2. T * full \in Nat
    BY <1>1, <2>1
  <2> HIDE DEF full
  <2>3. QED
    BY <1>1, <2>1, <2>2
<1>5. count = IF T * full + base < c.vertices THEN full + 1 ELSE full
  BY <1>1, <1>4 DEF StateCount, Base
<1> HIDE DEF base, T, full, count, key
<1>6. T * full \in Nat /\ T * offset \in Nat
  BY <1>1, <1>4
<1>7. CASE T * full + base < c.vertices
  <2>1. count = full + 1
    BY <1>5, <1>7
  <2>2. ASSUME offset <= full
        PROVE  key < c.vertices
    <3>1. T * offset <= T * full
      BY <1>1, <1>4, <2>2, Monotone
    <3>2. QED
      BY <1>1, <1>2, <1>3, <1>6, <1>7, <3>1
  <2>3. ASSUME full + 1 <= offset
        PROVE  ~(key < c.vertices)
    <3>1. T * (full + 1) <= T * offset
      BY <1>1, <1>4, <2>3, Monotone
    <3>2. T * (full + 1) = T * full + T
      BY <1>1, <1>4
    <3>3. QED
      BY <1>1, <1>2, <1>3, <1>4, <1>6, <3>1, <3>2
  <2>4. QED
    BY <1>4, <2>1, <2>2, <2>3 DEF count, key
<1>8. CASE ~(T * full + base < c.vertices)
  <2>1. count = full
    BY <1>5, <1>8
  <2>2. ASSUME offset + 1 <= full
        PROVE  key < c.vertices
    <3>1. T * (offset + 1) <= T * full
      BY <1>1, <1>4, <2>2, Monotone
    <3>2. T * (offset + 1) = T * offset + T
      BY <1>1
    <3>3. QED
      BY <1>1, <1>2, <1>3, <1>4, <1>6, <3>1, <3>2
  <2>3. ASSUME full <= offset
        PROVE  ~(key < c.vertices)
    <3>1. T * full <= T * offset
      BY <1>1, <1>4, <2>3, Monotone
    <3>2. QED
      BY <1>1, <1>2, <1>3, <1>6, <1>8, <3>1
  <2>4. QED
    BY <1>4, <2>1, <2>2, <2>3 DEF count, key
<1>9. QED
  BY <1>7, <1>8
=============================================================================
