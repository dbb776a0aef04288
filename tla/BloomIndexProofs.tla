-------------------------- MODULE BloomIndexProofs --------------------------
(* Proofs about BloomIndex: the pages that the index names for a vertex      *)
(* are all that can hold an edge of it, and the files that updates leave are *)
(* those of a new index, for any hash function, any sizes of filters, pages  *)
(* and groups, any number of super partitions, and any sequence of runs,     *)
(* kills, appends, deletions and purges; but not after an update that found  *)
(* no group in the single index file, nor after a process died writing       *)
(* several files, until the next create (the variable harm).                 *)
(*                                                                           *)
(* The inductive invariant differs for the two layouts.  With one super      *)
(* partition the graph file changes under the index file: all groups but the *)
(* last are right, the last one is built again by every update, and all are  *)
(* right when a build has ended and no edge has come since.  With several,   *)
(* edge files and index files are only written together, and are right until *)
(* a process dies writing them.                                              *)
EXTENDS BloomIndex, SequenceTheorems, FiniteSetTheorems, TLAPS

Edges == Sources \cup {TOMBSTONE}
Rows == [Bits -> SUBSET (0..SimdLen - 1)]

\* The index has a filter for the page of edge k, and it has the edge's bits.
Covered(edges, index, k) ==
    LET g == (k - 1) \div EdgesPerBuf
        m == ((k - 1) % EdgesPerBuf) \div EdgesPerPage
    IN /\ g + 1 \in 1..Len(index)
       /\ \A b \in QueryBits(edges[k]) : m \in index[g + 1][b]

TypeInv ==
    /\ superPartitions \in Nat \ {0}
    /\ efile \in Seq(Edges) /\ Len(efile) <= MaxEdges
    /\ part \in [Supers -> Seq(Sources)] /\ bf \in [Supers -> Seq(Rows)]
    /\ bufs \in [Supers -> Seq(Sources)] /\ \A s \in Supers : Len(bufs[s]) < EdgesPerBuf
    /\ epos \in [Supers -> Nat] /\ bpos \in [Supers -> Nat]
    /\ pc \in {"idle", "check", "seek", "distribute", "query"}
    /\ mode \in {"none", "create", "update", "verify", "use"}
    /\ fresh \in BOOLEAN /\ harm \in {"none", "wrapped", "torn"}

\* What the modes of a run mean for the files it starts from.
ModeInv ==
    /\ pc # "idle" => mode # "none"
    /\ fresh => mode # "none"
    /\ pc \in {"check", "seek", "distribute"} =>
         /\ fatal = "no"
         /\ fresh => ~Building
    /\ pc \in {"check", "seek"} /\ mode = "create" =>
         \A s \in Supers : bf[s] = <<>> /\ part[s] = <<>>
    /\ pc = "seek" =>
         /\ pos = StartEdge
         /\ mode = "update" /\ superPartitions = 1 /\ harm # "wrapped" => bf[0] # <<>>

\* One index file for the graph file: every group but the last is right.
GraphInv ==
    (superPartitions = 1 /\ mode # "none") =>
        /\ bf[0] # <<>> => (Len(bf[0]) - 1) * EdgesPerBuf < Len(efile)
        /\ \A k \in DOMAIN efile :
              (efile[k] # TOMBSTONE /\ ((fresh /\ harm # "wrapped") \/ k <= (Len(bf[0]) - 1) * EdgesPerBuf))
              => Covered(efile, bf[0], k)

\* While it is built, the groups before the one in the buffer are right.
GraphRunInv ==
    (superPartitions = 1 /\ pc = "distribute" /\ Building /\ harm # "wrapped") =>
        LET base == bpos[0] * EdgesPerBuf
        IN /\ Len(bf[0]) \in {bpos[0], bpos[0] + 1}
           /\ pos \in 0..Len(efile)
           /\ \A k \in DOMAIN efile :
                 (efile[k] # TOMBSTONE /\ k <= base) => Covered(efile, bf[0], k)
           /\ \/ /\ pos = base + Len(bufs[0])
                 /\ \A i \in 1..Len(bufs[0]) : bufs[0][i] = efile[base + i]
              \/ pos = Len(efile) /\ bufs[0] = <<>> /\ Len(efile) <= base

\* An update that found no group has nothing to distribute, and puts none there.
WrapInv ==
    harm = "wrapped" =>
        /\ superPartitions = 1 /\ bf[0] = <<>>
        /\ pc # "idle" => mode # "create"
        /\ pc = "distribute" /\ Building => ~MoreEdges /\ bufs[0] = <<>>

\* One index file for each edge file: right until a process dies writing them.
SplitInv ==
    (superPartitions # 1 /\ harm # "torn") =>
        \A s \in Supers : \A k \in DOMAIN part[s] : Covered(part[s], bf[s], k)

\* While they are built, the rest of an edge file is what the buffer replaces.
SplitRunInv ==
    (superPartitions # 1 /\ pc = "distribute" /\ Building) =>
        \A s \in Supers :
            /\ epos[s] <= Len(part[s]) /\ Len(part[s]) <= epos[s] + Len(bufs[s])
            /\ MoreEdges \/ bufs[s] # <<>> => epos[s] = bpos[s] * EdgesPerBuf

IInv == /\ TypeInv /\ ModeInv /\ WrapInv
        /\ GraphInv /\ GraphRunInv /\ SplitInv /\ SplitRunInv

-----------------------------------------------------------------------------
(* Arithmetic of pages and groups *)

\* Pages and groups are not empty.
LEMMA Sizes ==
    /\ EdgesPerPage \in Nat \ {0} /\ SimdLen \in Nat \ {0}
    /\ EdgesPerBuf \in Nat \ {0}
BY SizesAssumption DEF EdgesPerBuf

\* Quotient and remainder.
LEMMA Division ==
    ASSUME NEW a \in Nat, NEW b \in Nat \ {0}
    PROVE  /\ a \div b \in Nat /\ a % b \in 0..b - 1
           /\ a = b * (a \div b) + (a % b)
OBVIOUS

\* A quotient and a remainder that fit are the quotient and the remainder.
LEMMA DivisionUnique ==
    ASSUME NEW a \in Nat, NEW b \in Nat \ {0}, NEW q \in Nat, NEW r \in 0..b - 1,
           a = q * b + r
    PROVE  a \div b = q /\ a % b = r
OBVIOUS

\* The group of an edge: the ones before group n are the first n groups' edges.
LEMMA GroupOfEdge ==
    ASSUME NEW k \in Nat \ {0}, NEW n \in Nat
    PROVE  /\ (k - 1) \div EdgesPerBuf \in Nat
           /\ k <= n * EdgesPerBuf <=> (k - 1) \div EdgesPerBuf < n
<1> DEFINE g == (k - 1) \div EdgesPerBuf
           r == (k - 1) % EdgesPerBuf
<1>1. EdgesPerBuf \in Nat \ {0} /\ k - 1 \in Nat
  BY Sizes
<1>2. g \in Nat /\ r \in 0..EdgesPerBuf - 1 /\ k - 1 = EdgesPerBuf * g + r
  BY <1>1, Division
<1> HIDE DEF g, r
<1>3. CASE g < n
  <2>1. PICK d \in Nat : n = g + 1 + d
    <3>1. n - g - 1 \in Nat /\ n = g + 1 + (n - g - 1)
      BY <1>2, <1>3
    <3>2. QED
      BY <3>1
  <2>2. n * EdgesPerBuf = EdgesPerBuf * g + EdgesPerBuf + EdgesPerBuf * d
    BY <1>1, <1>2, <2>1
  <2>3. EdgesPerBuf * d \in Nat
    BY <1>1, <2>1
  <2>4. QED
    BY <1>1, <1>2, <1>3, <2>2, <2>3 DEF g
<1>4. CASE ~(g < n)
  <2>1. PICK d \in Nat : g = n + d
    <3>1. g - n \in Nat /\ g = n + (g - n)
      BY <1>2, <1>4
    <3>2. QED
      BY <3>1
  <2>2. EdgesPerBuf * g = n * EdgesPerBuf + EdgesPerBuf * d
    BY <1>1, <2>1
  <2>3. EdgesPerBuf * d \in Nat /\ n * EdgesPerBuf \in Nat
    BY <1>1, <2>1
  <2>4. QED
    BY <1>1, <1>2, <1>4, <2>2, <2>3 DEF g
<1>5. QED
  BY <1>3, <1>4, <1>2 DEF g

\* The page of an edge is the group's pages and those before it in the group.
LEMMA PageOfEdge ==
    ASSUME NEW k \in Nat \ {0}
    PROVE  LET page == (k - 1) \div EdgesPerPage
               g == (k - 1) \div EdgesPerBuf
               j == (k - 1) % EdgesPerBuf
               m == j \div EdgesPerPage
           IN /\ page \in Nat /\ g \in Nat /\ j \in 0..EdgesPerBuf - 1 /\ m \in 0..SimdLen - 1
              /\ k - 1 = g * EdgesPerBuf + j
              /\ m * EdgesPerPage < j + 1 /\ j + 1 <= (m + 1) * EdgesPerPage
              /\ page \div SimdLen = g /\ page % SimdLen = m
<1> DEFINE page == (k - 1) \div EdgesPerPage
           g == (k - 1) \div EdgesPerBuf
           j == (k - 1) % EdgesPerBuf
           m == j \div EdgesPerPage
           r == j % EdgesPerPage
<1>1. EdgesPerBuf \in Nat \ {0} /\ EdgesPerPage \in Nat \ {0} /\ SimdLen \in Nat \ {0} /\ k - 1 \in Nat
  BY Sizes
<1>2. g \in Nat /\ j \in 0..EdgesPerBuf - 1 /\ k - 1 = EdgesPerBuf * g + j
  BY <1>1, Division
<1>3. m \in Nat /\ r \in 0..EdgesPerPage - 1 /\ j = EdgesPerPage * m + r
  <2> HIDE DEF j
  <2>1. j \in Nat
    BY <1>1, <1>2
  <2>2. QED
    BY <1>1, <2>1, Division
<1> HIDE DEF g, j, m, r
<1>4. m \in 0..SimdLen - 1
  <2>1. SUFFICES ASSUME m >= SimdLen PROVE FALSE
    BY <1>1, <1>3
  <2>2. PICK d \in Nat : m = SimdLen + d
    <3>1. m - SimdLen \in Nat /\ m = SimdLen + (m - SimdLen)
      BY <1>1, <1>3, <2>1
    <3>2. QED
      BY <3>1
  <2>3. EdgesPerPage * m = EdgesPerPage * SimdLen + EdgesPerPage * d
    BY <1>1, <2>2
  <2>4. EdgesPerPage * d \in Nat
    BY <1>1, <2>2
  <2>5. QED
    BY <1>1, <1>2, <1>3, <2>3, <2>4 DEF EdgesPerBuf
<1>5. page = g * SimdLen + m
  <2>1. k - 1 = (g * SimdLen + m) * EdgesPerPage + r
    <3>1. EdgesPerBuf * g = (g * SimdLen) * EdgesPerPage
      BY <1>1, <1>2 DEF EdgesPerBuf
    <3>2. g * SimdLen \in Nat
      BY <1>1, <1>2
    <3>3. (g * SimdLen + m) * EdgesPerPage = (g * SimdLen) * EdgesPerPage + EdgesPerPage * m
      BY <1>1, <1>3, <3>2
    <3>4. QED
      BY <1>1, <1>2, <1>3, <3>1, <3>2, <3>3
  <2>2. g * SimdLen + m \in Nat
    BY <1>1, <1>2, <1>3
  <2>3. QED
    BY <1>1, <1>3, <2>1, <2>2, DivisionUnique
<1>6. page \in Nat /\ page \div SimdLen = g /\ page % SimdLen = m
  <2>1. page \in Nat
    BY <1>1, Division
  <2> HIDE DEF page
  <2>2. QED
    BY <1>1, <1>2, <1>4, <1>5, <2>1, DivisionUnique
<1>7. m * EdgesPerPage < j + 1 /\ j + 1 <= (m + 1) * EdgesPerPage
  <2>1. m * EdgesPerPage = EdgesPerPage * m /\ (m + 1) * EdgesPerPage = EdgesPerPage * m + EdgesPerPage
    BY <1>1, <1>3
  <2>2. EdgesPerPage * m \in Nat
    BY <1>1, <1>3
  <2>3. QED
    BY <1>1, <1>3, <2>1, <2>2
<1>8. k - 1 = g * EdgesPerBuf + j
  BY <1>1, <1>2
<1>9. QED
  BY <1>2, <1>4, <1>6, <1>7, <1>8 DEF g, j, m, page

-----------------------------------------------------------------------------
(* Filters and files *)

\* The builder and the query hash an id alike: it is below the sign bit.
LEMMA SourceBits ==
    ASSUME NEW v \in Sources
    PROVE  v \in Nat /\ v # TOMBSTONE /\ BuildBits(v) = QueryBits(v) /\ QueryBits(v) \subseteq Bits
<1>1. IdBits - 1 \in Nat /\ v \in 0..2^(IdBits - 1) - 1
  BY SizesAssumption, SourcesAssumption
<1>2. 2^(IdBits - 1) \in Int
  BY <1>1, SMT
<1>3. ~(v >= 2^(IdBits - 1))
  BY <1>1, <1>2
<1>4. v \in Nat
  BY <1>1, <1>2
<1>5. QED
  BY <1>3, <1>4, SourcesAssumption, HashAssumption DEF BuildBits, QueryBits, SignExtended

\* The minimum of two numbers.
LEMMA MinPair ==
    ASSUME NEW m \in Int, NEW n \in Int
    PROVE  Min({m, n}) = IF m <= n THEN m ELSE n
<1> DEFINE least == IF m <= n THEN m ELSE n
<1>1. least \in {m, n} /\ \A y \in {m, n} : least =< y
  OBVIOUS
<1>2. \A x \in {m, n} : (\A y \in {m, n} : x =< y) => x = least
  OBVIOUS
<1>3. QED
  BY <1>1, <1>2 DEF Min

\* What is written to an index file is a row of sets of pages for every bit.
LEMMA GroupIsRow ==
    ASSUME NEW new PROVE Group(new) \in Rows
BY DEF Group, Rows

\* The filter of a page has the bits of all its edges.
LEMMA GroupHasBits ==
    ASSUME NEW new \in Seq(Sources), Len(new) <= EdgesPerBuf, NEW i \in 1..Len(new),
           NEW b \in QueryBits(new[i])
    PROVE  ((i - 1) \div EdgesPerPage) \in Group(new)[b]
<1> DEFINE m == (i - 1) \div EdgesPerPage
           low == m * EdgesPerPage + 1
           high == Min({(m + 1) * EdgesPerPage, Len(new)})
<1>1. i \in Nat \ {0} /\ EdgesPerBuf \in Nat \ {0} /\ EdgesPerPage \in Nat \ {0} /\ Len(new) \in Nat
  BY Sizes
<1>2. (i - 1) % EdgesPerBuf = i - 1
  <2>1. i - 1 \in 0..EdgesPerBuf - 1 /\ i - 1 = 0 * EdgesPerBuf + (i - 1)
    BY <1>1
  <2>2. QED
    BY <1>1, <2>1, DivisionUnique
<1>3. m \in 0..SimdLen - 1 /\ m * EdgesPerPage < i /\ i <= (m + 1) * EdgesPerPage
  <2>1. /\ ((i - 1) % EdgesPerBuf) \div EdgesPerPage = m
        /\ ((i - 1) % EdgesPerBuf) + 1 = i
    BY <1>1, <1>2
  <2>2. /\ ((i - 1) % EdgesPerBuf) \div EdgesPerPage \in 0..SimdLen - 1
        /\ (((i - 1) % EdgesPerBuf) \div EdgesPerPage) * EdgesPerPage < ((i - 1) % EdgesPerBuf) + 1
        /\ ((i - 1) % EdgesPerBuf) + 1 <= (((i - 1) % EdgesPerBuf) \div EdgesPerPage + 1) * EdgesPerPage
    BY <1>1, PageOfEdge
  <2> HIDE DEF m
  <2>3. QED
    BY <2>1, <2>2
<1> HIDE DEF m
<1>4. /\ m * EdgesPerPage \in Nat /\ (m + 1) * EdgesPerPage \in Nat
      /\ low \in Nat /\ high \in Nat /\ low <= i /\ i <= high /\ high <= Len(new)
  <2>1. m * EdgesPerPage \in Nat /\ (m + 1) * EdgesPerPage \in Nat
    BY <1>1, <1>3, Sizes
  <2>2. high = IF (m + 1) * EdgesPerPage <= Len(new) THEN (m + 1) * EdgesPerPage ELSE Len(new)
    BY <1>1, <2>1, MinPair
  <2>3. QED
    BY <1>1, <1>3, <2>1, <2>2
<1> HIDE DEF low, high
<1>5. \A x \in low..high : new[x] \in Sources
  <2>1. low >= 1
    BY <1>4 DEF low
  <2>2. \A x \in low..high : x \in 1..Len(new)
    BY <1>1, <1>4, <2>1
  <2>3. QED
    BY <2>2, ElementOfSeq
<1> DEFINE page == SubSeq(new, low, high)
<1>6. /\ page \in Seq(Sources) /\ Len(page) = high - low + 1
      /\ \A x \in 1..high - low + 1 : page[x] = new[low + x - 1]
  BY <1>4, <1>5, SubSeqProperties
<1>7. page = Page(new, m)
  BY DEF Page, low, high
<1> HIDE DEF page
<1>8. (i - low + 1) \in DOMAIN page /\ page[i - low + 1] = new[i]
  <2>1. i - low + 1 \in 1..high - low + 1
    BY <1>1, <1>4
  <2>2. low + (i - low + 1) - 1 = i
    BY <1>1, <1>4
  <2>3. QED
    BY <1>6, <2>1, <2>2
<1>9. b \in Bits /\ b \in BuildBits(new[i])
  <2>1. new[i] \in Sources
    OBVIOUS
  <2>2. QED
    BY <2>1, SourceBits
<1>10. b \in Filter(page)
  BY <1>8, <1>9 DEF Filter
<1>11. QED
  BY <1>3, <1>7, <1>9, <1>10 DEF Group, m

\* What a file has after a write that begins inside it or at its end.
LEMMA WrittenAt ==
    ASSUME NEW S, NEW old \in Seq(S), NEW new \in Seq(S), NEW at \in 0..Len(old)
    PROVE  /\ Written(old, at, new) \in Seq(S)
           /\ Len(Written(old, at, new)) = IF at + Len(new) <= Len(old) THEN Len(old) ELSE at + Len(new)
           /\ \A i \in 1..Len(Written(old, at, new)) :
                 Written(old, at, new)[i] = IF i <= at THEN old[i]
                                            ELSE IF i <= at + Len(new) THEN new[i - at] ELSE old[i]
<1> DEFINE n == Len(old)
           end == at + Len(new)
           head == SubSeq(old, 1, at)
           tail == SubSeq(old, end + 1, n)
<1>1. n \in Nat /\ end \in Nat /\ at \in Nat /\ at <= n /\ at <= end /\ Len(new) = end - at
  OBVIOUS
<1>2. \A i \in 1..n : old[i] \in S
  OBVIOUS
<1> HIDE DEF n, end
<1>3. /\ head \in Seq(S) /\ Len(head) = at
      /\ \A i \in 1..at : head[i] = old[i]
  <2>1. \A i \in 1..at : old[i] \in S
    BY <1>1, <1>2
  <2>2. /\ head \in Seq(S) /\ Len(head) = IF 1 <= at THEN at - 1 + 1 ELSE 0
        /\ \A i \in 1..at - 1 + 1 : head[i] = old[1 + i - 1]
    BY <1>1, <2>1, SubSeqProperties
  <2> HIDE DEF head
  <2>3. QED
    BY <1>1, <2>2
<1>4. /\ tail \in Seq(S) /\ Len(tail) = IF end < n THEN n - end ELSE 0
      /\ \A i \in 1..n - end : tail[i] = old[end + i]
  <2>1. \A i \in end + 1..n : old[i] \in S
    BY <1>1, <1>2
  <2>2. /\ tail \in Seq(S)
        /\ Len(tail) = IF end + 1 <= n THEN n - (end + 1) + 1 ELSE 0
        /\ \A i \in 1..n - (end + 1) + 1 : tail[i] = old[end + 1 + i - 1]
    BY <1>1, <2>1, SubSeqProperties
  <2> HIDE DEF tail
  <2>3. \A i \in 1..n - end : i \in 1..n - (end + 1) + 1 /\ end + 1 + i - 1 = end + i
    BY <1>1
  <2>4. QED
    BY <1>1, <2>2, <2>3
<1> DEFINE front == head \o new
           whole == front \o tail
<1>5. Written(old, at, new) = whole
  BY DEF Written, n, end
<1> HIDE DEF head, tail
<1>6. /\ front \in Seq(S) /\ Len(front) = end
      /\ \A i \in 1..end : front[i] = IF i <= at THEN old[i] ELSE new[i - at]
  <2>1. /\ front \in Seq(S) /\ Len(front) = Len(head) + Len(new)
        /\ \A i \in 1..Len(head) + Len(new) :
              front[i] = IF i <= Len(head) THEN head[i] ELSE new[i - Len(head)]
    BY <1>3, ConcatProperties
  <2> HIDE DEF front
  <2>2. Len(head) + Len(new) = end
    BY <1>1, <1>3
  <2>3. QED
    BY <1>1, <1>3, <2>1, <2>2
<1> HIDE DEF front
<1>7. /\ whole \in Seq(S) /\ Len(whole) = end + Len(tail)
      /\ \A i \in 1..end + Len(tail) : whole[i] = IF i <= end THEN front[i] ELSE tail[i - end]
  BY <1>4, <1>6, ConcatProperties
<1> HIDE DEF whole
<1>8. Len(whole) = IF end <= n THEN n ELSE end
  BY <1>1, <1>4, <1>7
<1>9. ASSUME NEW i \in 1..Len(whole)
      PROVE  whole[i] = IF i <= at THEN old[i] ELSE IF i <= end THEN new[i - at] ELSE old[i]
  <2>1. i \in 1..end + Len(tail) /\ i \in Nat /\ i >= 1
    BY <1>7, <1>8, <1>1
  <2>2. CASE i <= end
    BY <1>1, <1>6, <1>7, <2>1, <2>2
  <2>3. CASE i > end
    <3>1. i - end \in 1..n - end /\ end + (i - end) = i /\ ~(i <= at)
      BY <1>1, <1>8, <2>1, <2>3
    <3>2. whole[i] = tail[i - end]
      BY <1>1, <1>7, <2>1, <2>3
    <3>3. QED
      BY <1>1, <1>4, <2>3, <3>1, <3>2
  <2>4. QED
    BY <1>1, <2>1, <2>2, <2>3
<1>10. QED
  BY <1>5, <1>7, <1>8, <1>9 DEF n, end

\* One group written to an index file.
LEMMA IndexWritten ==
    ASSUME NEW index \in Seq(Rows), NEW g \in 0..Len(index), NEW row \in Rows
    PROVE  /\ Written(index, g, <<row>>) \in Seq(Rows)
           /\ Len(Written(index, g, <<row>>)) = IF g < Len(index) THEN Len(index) ELSE g + 1
           /\ Written(index, g, <<row>>)[g + 1] = row
           /\ \A i \in 1..Len(index) : i # g + 1 => Written(index, g, <<row>>)[i] = index[i]
<1>1. <<row>> \in Seq(Rows) /\ Len(<<row>>) = 1 /\ <<row>>[1] = row
  OBVIOUS
<1> DEFINE one == <<row>>
<1> HIDE DEF one
<1>2. one \in Seq(Rows) /\ Len(one) = 1 /\ one[1] = row
  BY <1>1 DEF one
<1> DEFINE new == Written(index, g, one)
<1>3. /\ new \in Seq(Rows)
      /\ Len(new) = IF g + Len(one) <= Len(index) THEN Len(index) ELSE g + Len(one)
      /\ \A i \in 1..Len(new) :
            new[i] = IF i <= g THEN index[i]
                     ELSE IF i <= g + Len(one) THEN one[i - g] ELSE index[i]
  BY <1>2, WrittenAt
<1> HIDE DEF new
<1>4. Len(index) \in Nat /\ g \in Nat /\ g <= Len(index) /\ (g + 1) - g = 1
  OBVIOUS
<1>5. Len(new) = IF g < Len(index) THEN Len(index) ELSE g + 1
  BY <1>2, <1>3, <1>4
<1>6. new[g + 1] = row
  <2>1. g + 1 \in 1..Len(new) /\ ~(g + 1 <= g) /\ g + 1 <= g + Len(one)
    BY <1>2, <1>4, <1>5
  <2>2. new[g + 1] = one[g + 1 - g]
    BY <1>3, <2>1
  <2>3. QED
    BY <1>2, <1>4, <2>2
<1>7. ASSUME NEW i \in 1..Len(index), i # g + 1 PROVE new[i] = index[i]
  <2>1. i \in 1..Len(new) /\ (i <= g \/ ~(i <= g + Len(one)))
    BY <1>2, <1>4, <1>5, <1>7
  <2>2. QED
    BY <1>2, <1>3, <1>4, <2>1
<1>8. QED
  BY <1>3, <1>5, <1>6, <1>7 DEF new, one

\* An edge whose group was just written is covered.
LEMMA GroupCovers ==
    ASSUME NEW edges, NEW index, NEW new \in Seq(Sources), Len(new) <= EdgesPerBuf,
           NEW g \in Nat, g + 1 \in 1..Len(index), index[g + 1] = Group(new),
           NEW i \in 1..Len(new), edges[g * EdgesPerBuf + i] = new[i]
    PROVE  Covered(edges, index, g * EdgesPerBuf + i)
<1>1. EdgesPerBuf \in Nat \ {0} /\ Len(new) \in Nat
  BY Sizes
<1> DEFINE k == g * EdgesPerBuf + i
<1>2. /\ k - 1 \in Nat /\ i - 1 \in 0..EdgesPerBuf - 1
      /\ k - 1 = g * EdgesPerBuf + (i - 1)
  <2>1. g * EdgesPerBuf \in Nat
    BY <1>1
  <2>2. QED
    BY <1>1, <2>1
<1> HIDE DEF k
<1>3. (k - 1) \div EdgesPerBuf = g /\ (k - 1) % EdgesPerBuf = i - 1
  BY <1>1, <1>2, DivisionUnique
<1>4. \A b \in QueryBits(edges[k]) : ((i - 1) \div EdgesPerPage) \in index[g + 1][b]
  BY GroupHasBits DEF k
<1>5. QED
  BY <1>3, <1>4 DEF Covered, k

\* An edge whose group was not written stays covered.
LEMMA StaysCovered ==
    ASSUME NEW edges, NEW index, NEW edges2, NEW index2, NEW g, NEW k,
           Covered(edges, index, k), edges2[k] = edges[k], (k - 1) \div EdgesPerBuf # g,
           (k - 1) \div EdgesPerBuf \in Nat, g \in Nat,
           Len(index) \in Nat, Len(index2) \in Nat, Len(index) <= Len(index2),
           \A i \in 1..Len(index) : i # g + 1 => index2[i] = index[i]
    PROVE  Covered(edges2, index2, k)
<1> DEFINE h == (k - 1) \div EdgesPerBuf
<1> HIDE DEF h
<1>1. h + 1 \in 1..Len(index) /\ h \in Nat /\ h # g
  BY DEF Covered, h
<1>2. h + 1 \in 1..Len(index2) /\ index2[h + 1] = index[h + 1]
  BY <1>1
<1>3. QED
  BY <1>2 DEF Covered, h

\* A group of the graph's edges is written to its index file.
LEMMA ExtendCovers ==
    ASSUME NEW edges \in Seq(Edges), NEW index \in Seq(Rows), NEW g \in Nat,
           Len(index) \in {g, g + 1},
           NEW new \in Seq(Sources), Len(new) <= EdgesPerBuf,
           \A i \in 1..Len(new) : new[i] = edges[g * EdgesPerBuf + i],
           Len(new) = EdgesPerBuf \/ g * EdgesPerBuf + Len(new) = Len(edges),
           \A k \in DOMAIN edges :
              (edges[k] # TOMBSTONE /\ k <= g * EdgesPerBuf) => Covered(edges, index, k)
    PROVE  LET index2 == Written(index, g, <<Group(new)>>)
           IN /\ index2 \in Seq(Rows) /\ Len(index2) = g + 1
              /\ \A k \in DOMAIN edges :
                    (edges[k] # TOMBSTONE /\ k <= (g + 1) * EdgesPerBuf)
                    => Covered(edges, index2, k)
<1> DEFINE index2 == Written(index, g, <<Group(new)>>)
           base == g * EdgesPerBuf
<1>1. /\ EdgesPerBuf \in Nat \ {0} /\ Len(new) \in Nat /\ Len(edges) \in Nat
      /\ base \in Nat /\ (g + 1) * EdgesPerBuf = base + EdgesPerBuf
      /\ Len(index) \in Nat /\ g \in 0..Len(index) /\ Group(new) \in Rows
  BY Sizes, GroupIsRow
<1>2. /\ index2 \in Seq(Rows)
      /\ Len(index2) = IF g < Len(index) THEN Len(index) ELSE g + 1
      /\ index2[g + 1] = Group(new)
      /\ \A i \in 1..Len(index) : i # g + 1 => index2[i] = index[i]
  BY <1>1, IndexWritten
<1> HIDE DEF index2
<1>3. Len(index2) = g + 1
  BY <1>1, <1>2
<1>4. ASSUME NEW k \in DOMAIN edges, edges[k] # TOMBSTONE, k <= (g + 1) * EdgesPerBuf
      PROVE  Covered(edges, index2, k)
  <2>1. k \in Nat \ {0} /\ k <= Len(edges)
    BY <1>1
  <2>2. CASE k <= base
    <3>1. (k - 1) \div EdgesPerBuf \in Nat /\ (k - 1) \div EdgesPerBuf < g
      BY <2>1, <2>2, GroupOfEdge
    <3>2. Covered(edges, index, k)
      BY <1>4, <2>2
    <3>3. Len(index) <= Len(index2) /\ Len(index2) \in Nat /\ (k - 1) \div EdgesPerBuf # g
      BY <1>1, <1>2, <1>3, <3>1
    <3>4. QED
      BY <1>1, <1>2, <3>1, <3>2, <3>3, StaysCovered
  <2>3. CASE k > base
    <3>1. k - base \in 1..Len(new) /\ base + (k - base) = k
      <4> HIDE DEF base
      <4>1. QED
        BY <1>1, <1>4, <2>1, <2>3 DEF base
    <3>2. edges[base + (k - base)] = new[k - base]
      BY <3>1
    <3>3. g + 1 \in 1..Len(index2)
      BY <1>1, <1>3
    <3>4. Covered(edges, index2, base + (k - base))
      BY <1>2, <3>1, <3>2, <3>3, GroupCovers
    <3>5. QED
      BY <3>1, <3>4
  <2>4. QED
    BY <1>1, <2>1, <2>2, <2>3
<1>5. QED
  BY <1>2, <1>3, <1>4 DEF index2

\* A group is written to an edge file and to its index file; what it replaces in
\* the edge file is not longer.
LEMMA OverwriteCovers ==
    ASSUME NEW old \in Seq(Sources), NEW index \in Seq(Rows), NEW g \in Nat,
           NEW new \in Seq(Sources), Len(new) \in 1..EdgesPerBuf,
           g * EdgesPerBuf <= Len(old), Len(old) <= g * EdgesPerBuf + Len(new),
           \A k \in DOMAIN old : Covered(old, index, k)
    PROVE  LET edges2 == Written(old, g * EdgesPerBuf, new)
               index2 == Written(index, g, <<Group(new)>>)
           IN /\ edges2 \in Seq(Sources) /\ index2 \in Seq(Rows) /\ g <= Len(index)
              /\ Len(edges2) = g * EdgesPerBuf + Len(new)
              /\ \A k \in DOMAIN edges2 : Covered(edges2, index2, k)
<1> DEFINE base == g * EdgesPerBuf
           edges2 == Written(old, base, new)
           index2 == Written(index, g, <<Group(new)>>)
<1>1. /\ EdgesPerBuf \in Nat \ {0} /\ Len(new) \in Nat /\ Len(old) \in Nat
      /\ base \in Nat /\ base \in 0..Len(old) /\ Len(index) \in Nat /\ Group(new) \in Rows
  BY Sizes, GroupIsRow
<1>2. g <= Len(index)
  <2>1. CASE g = 0
    BY <1>1, <2>1
  <2>2. CASE g # 0
    <3>1. base \in DOMAIN old /\ base \in Nat \ {0}
      <4>1. g * EdgesPerBuf # 0
        BY <1>1, <2>2
      <4>2. QED
        BY <1>1, <4>1
    <3>2. (base - 1) \div EdgesPerBuf + 1 \in 1..Len(index)
      BY <3>1 DEF Covered
    <3>3. (base - 1) \div EdgesPerBuf \in Nat /\ ~((base - 1) \div EdgesPerBuf < g - 1)
      <4>1. g - 1 \in Nat /\ (g - 1) * EdgesPerBuf = base - EdgesPerBuf
        BY <1>1, <2>2
      <4> HIDE DEF base
      <4>2. ~(base <= (g - 1) * EdgesPerBuf)
        BY <1>1, <4>1
      <4>3. QED
        BY <3>1, <4>1, <4>2, GroupOfEdge
    <3> HIDE DEF base
    <3>4. QED
      BY <1>1, <3>2, <3>3
  <2>3. QED
    BY <2>1, <2>2
<1>3. /\ index2 \in Seq(Rows)
      /\ Len(index2) = IF g < Len(index) THEN Len(index) ELSE g + 1
      /\ index2[g + 1] = Group(new)
      /\ \A i \in 1..Len(index) : i # g + 1 => index2[i] = index[i]
  BY <1>1, <1>2, IndexWritten
<1>4. /\ edges2 \in Seq(Sources)
      /\ Len(edges2) = IF base + Len(new) <= Len(old) THEN Len(old) ELSE base + Len(new)
      /\ \A i \in 1..Len(edges2) :
            edges2[i] = IF i <= base THEN old[i]
                        ELSE IF i <= base + Len(new) THEN new[i - base] ELSE old[i]
  BY <1>1, WrittenAt
<1> HIDE DEF index2, edges2
<1>5. Len(edges2) = base + Len(new)
  <2> HIDE DEF base
  <2>1. QED
    BY <1>1, <1>4 DEF base
<1>6. ASSUME NEW k \in DOMAIN edges2
      PROVE  Covered(edges2, index2, k)
  <2>1. k \in 1..Len(edges2) /\ k \in Nat \ {0} /\ Len(index2) \in Nat /\ Len(index) <= Len(index2)
    BY <1>1, <1>2, <1>3, <1>4
  <2>2. CASE k <= base
    <3>1. (k - 1) \div EdgesPerBuf \in Nat /\ (k - 1) \div EdgesPerBuf # g
      <4>1. (k - 1) \div EdgesPerBuf \in Nat /\ (k - 1) \div EdgesPerBuf < g
        BY <2>1, <2>2, GroupOfEdge
      <4>2. QED
        BY <4>1
    <3>2. k \in DOMAIN old /\ Covered(old, index, k)
      <4>1. k \in DOMAIN old
        BY <1>1, <2>1, <2>2
      <4>2. QED
        BY <4>1
    <3>3. edges2[k] = old[k]
      BY <1>4, <2>1, <2>2
    <3>4. QED
      BY <1>1, <1>3, <2>1, <3>1, <3>2, <3>3, StaysCovered
  <2>3. CASE k > base
    <3>1. k - base \in 1..Len(new) /\ base + (k - base) = k /\ ~(k <= base) /\ k <= base + Len(new)
      <4> HIDE DEF base
      <4>1. QED
        BY <1>1, <1>5, <2>1, <2>3
    <3>2. edges2[base + (k - base)] = new[k - base]
      BY <1>4, <2>1, <3>1
    <3>3. g + 1 \in 1..Len(index2) /\ Len(new) <= EdgesPerBuf
      BY <1>1, <1>2, <1>3
    <3>4. Covered(edges2, index2, base + (k - base))
      BY <1>3, <3>1, <3>2, <3>3, GroupCovers
    <3>5. QED
      BY <3>1, <3>4
  <2>4. QED
    BY <1>1, <2>1, <2>2, <2>3
<1>7. QED
  BY <1>2, <1>3, <1>4, <1>5, <1>6 DEF index2, edges2

\* A file that is written behind its end is padded to there, and no other file.
LEMMA PaddedIs ==
    ASSUME NEW index \in Seq(Rows), NEW at \in Nat
    PROVE  /\ Padded(index, at) \in Seq(Rows) /\ at \in 0..Len(Padded(index, at))
           /\ at <= Len(index) => Padded(index, at) = index
<1>1. CASE at <= Len(index)
  BY <1>1 DEF Padded
<1>2. CASE ~(at <= Len(index))
  <2> DEFINE zero == [b \in Bits |-> {}]
             more == [g \in 1..at - Len(index) |-> zero]
  <2>1. zero \in Rows
    BY DEF Rows
  <2> HIDE DEF zero
  <2>2. Len(index) \in Nat /\ at - Len(index) \in Nat
    BY <1>2
  <2>3. more \in Seq(Rows) /\ Len(more) = at - Len(index)
    BY <2>1, <2>2
  <2> HIDE DEF more
  <2>4. index \o more \in Seq(Rows) /\ Len(index \o more) = Len(index) + Len(more)
    BY <2>3, ConcatProperties
  <2>5. Padded(index, at) = index \o more
    BY <1>2 DEF Padded, more, zero
  <2>6. QED
    BY <1>2, <2>2, <2>3, <2>4, <2>5
<1>3. QED
  BY <1>1, <1>2

-----------------------------------------------------------------------------
(* The invariant holds at first and every step keeps it *)

USE DEF Supers

\* What a run starts with.
LEMMA EmptyBuffers ==
    /\ <<>> \in Seq(Sources) /\ <<>> \in Seq(Rows) /\ Len(<<>>) = 0 /\ 0 < EdgesPerBuf
    /\ DOMAIN <<>> = {}
BY Sizes

\* Whether an edge is covered depends on no other edge.
LEMMA CoveredEdge ==
    ASSUME NEW edges, NEW edges2, NEW index, NEW k, edges2[k] = edges[k], Covered(edges, index, k)
    PROVE  Covered(edges2, index, k)
BY DEF Covered

\* At first there are no index files.
LEMMA InitInv ==
    Init => IInv
<1> SUFFICES ASSUME Init PROVE IInv
  OBVIOUS
<1>1. TypeInv
  <2>1. superPartitions \in Nat \ {0}
    BY SizesAssumption DEF Init
  <2>2. efile \in Seq(Edges)
    <3>1. PICK v \in Sources : efile = <<v>>
      BY DEF Init
    <3>2. v \in Edges
      BY DEF Edges
    <3> HIDE DEF Edges
    <3>3. QED
      BY <3>1, <3>2
  <2>3. Len(efile) <= MaxEdges
    <3>1. PICK v \in Sources : efile = <<v>>
      BY DEF Init
    <3>2. Len(efile) = 1
      BY <3>1
    <3>3. QED
      BY <3>2, SizesAssumption
  <2>4. QED
    BY <2>1, <2>2, <2>3, EmptyBuffers DEF Init, TypeInv
<1>2. ModeInv /\ WrapInv
  BY DEF Init, ModeInv, WrapInv
<1>3. GraphInv /\ GraphRunInv /\ SplitRunInv
  BY DEF Init, GraphInv, GraphRunInv, SplitRunInv
<1>4. SplitInv
  BY EmptyBuffers DEF Init, SplitInv
<1>5. QED
  BY <1>1, <1>2, <1>3, <1>4 DEF IInv

\* What a file of anything has up to a position is such a file.
LEMMA PrefixIsSeq ==
    ASSUME NEW S, NEW file \in Seq(S), NEW n \in Nat
    PROVE  SubSeq(file, 1, Len(file) - n) \in Seq(S)
<1>1. Len(file) \in Nat /\ \A i \in 1..Len(file) - n : file[i] \in S
  OBVIOUS
<1>2. QED
  BY <1>1, SubSeqProperties

\* The process dies: what it wrote stays or is torn, its variables go.
LEMMA DiesInv ==
    ASSUME IInv, Dies
    PROVE  IInv'
<1>1. /\ pc' = "idle" /\ Forget
      /\ UNCHANGED <<superPartitions, efile, mode, fresh>>
  BY DEF Dies
<1>2. CASE superPartitions > 1 /\ Building /\ pc = "distribute"
  <2>1. PICK lost \in [Supers -> 0..EdgesPerBuf], gone \in [Supers -> 0..1] :
           /\ part' = [s \in Supers |-> SubSeq(part[s], 1, Len(part[s]) - lost[s])]
           /\ bf' = [s \in Supers |-> SubSeq(bf[s], 1, Len(bf[s]) - gone[s])]
    BY <1>2 DEF Dies
  <2>2. harm' = "torn"
    BY <1>2 DEF Dies
  <2>3. ASSUME NEW s \in Supers
        PROVE  /\ SubSeq(part[s], 1, Len(part[s]) - lost[s]) \in Seq(Sources)
               /\ SubSeq(bf[s], 1, Len(bf[s]) - gone[s]) \in Seq(Rows)
    <3>1. lost[s] \in Nat /\ gone[s] \in Nat
      BY Sizes
    <3>2. part[s] \in Seq(Sources) /\ bf[s] \in Seq(Rows)
      BY DEF IInv, TypeInv
    <3>3. QED
      BY <3>1, <3>2, PrefixIsSeq
  <2>4. TypeInv'
    BY <1>1, <2>1, <2>2, <2>3, EmptyBuffers DEF IInv, TypeInv, Forget
  <2>5. ModeInv' /\ WrapInv' /\ SplitInv'
    BY <1>1, <2>2 DEF IInv, ModeInv, WrapInv, SplitInv
  <2>6. GraphInv' /\ GraphRunInv' /\ SplitRunInv'
    BY <1>1, <1>2 DEF GraphInv, GraphRunInv, SplitRunInv
  <2>7. QED
    BY <2>4, <2>5, <2>6 DEF IInv
<1>3. CASE ~(superPartitions > 1 /\ Building /\ pc = "distribute")
  <2>1. UNCHANGED <<part, bf, harm>>
    BY <1>3 DEF Dies
  <2>2. TypeInv'
    BY <1>1, <2>1, EmptyBuffers DEF IInv, TypeInv, Forget
  <2>3. ModeInv' /\ WrapInv'
    BY <1>1, <2>1 DEF IInv, ModeInv, WrapInv
  <2>4. GraphInv' /\ SplitInv'
    BY <1>1, <2>1 DEF IInv, GraphInv, SplitInv
  <2>5. GraphRunInv' /\ SplitRunInv'
    BY <1>1 DEF GraphRunInv, SplitRunInv
  <2>6. QED
    BY <2>2, <2>3, <2>4, <2>5 DEF IInv
<1>4. QED
  BY <1>2, <1>3

\* An assertion fails.
LEMMA AbortInv ==
    ASSUME IInv, NEW assertion, Abort(assertion)
    PROVE  IInv'
BY DiesInv DEF Abort

\* A run is killed.
LEMMA KillInv ==
    ASSUME IInv, Kill
    PROVE  IInv'
BY DiesInv DEF Kill

\* A run starts; create empties the files.
LEMMA StartInv ==
    ASSUME IInv, NEW m \in {"create", "update", "verify", "use"}, Start(m)
    PROVE  IInv'
<1>1. TypeInv'
  <2>1. part' \in [Supers' -> Seq(Sources)] /\ bf' \in [Supers' -> Seq(Rows)]
    <3>1. CASE m = "create"
      BY <3>1, EmptyBuffers DEF Start
    <3>2. CASE m # "create"
      BY <3>2 DEF IInv, TypeInv, Start
    <3>3. QED
      BY <3>1, <3>2
  <2>2. QED
    BY <2>1, EmptyBuffers DEF IInv, TypeInv, Start
<1>2. ModeInv'
  BY DEF IInv, TypeInv, ModeInv, Start, Building
<1>7. WrapInv'
  BY DEF IInv, WrapInv, Start
<1>3. GraphInv'
  <2>1. CASE m = "create"
    <3> SUFFICES ASSUME superPartitions' = 1 PROVE GraphInv'
      BY DEF GraphInv
    <3>1. bf'[0] = <<>> /\ fresh' = FALSE /\ efile' = efile
      <4>1. superPartitions = 1 /\ bf' = [s \in Supers |-> <<>>] /\ efile' = efile
        BY <2>1 DEF Start
      <4>2. 0 \in Supers
        BY <4>1 DEF Supers
      <4>3. ~fresh'
        BY <2>1 DEF Start
      <4>4. fresh' = FALSE
        BY <2>1, <4>3 DEF Start
      <4>5. QED
        BY <4>1, <4>2, <4>4
    <3>2. (Len(bf'[0]) - 1) * EdgesPerBuf = -EdgesPerBuf /\ EdgesPerBuf \in Nat
      <4>1. Len(bf'[0]) = 0
        BY <3>1, EmptyBuffers
      <4>2. QED
        BY <4>1, Sizes
    <3>3. \A k \in DOMAIN efile' : ~(k <= (Len(bf'[0]) - 1) * EdgesPerBuf)
      BY <3>1, <3>2 DEF IInv, TypeInv
    <3>4. QED
      BY <3>1, <3>3 DEF GraphInv
  <2>2. CASE m # "create"
    <3>1. /\ mode # "none" /\ (fresh' => fresh)
          /\ bf' = bf /\ efile' = efile /\ harm' = harm /\ superPartitions' = superPartitions
      BY <2>2 DEF Start
    <3>2. QED
      BY <3>1 DEF IInv, GraphInv
  <2>3. QED
    BY <2>1, <2>2
<1>4. SplitInv'
  <2>1. CASE m = "create"
    BY <2>1, EmptyBuffers DEF SplitInv, Start
  <2>2. CASE m # "create"
    BY <2>2 DEF IInv, SplitInv, Start
  <2>3. QED
    BY <2>1, <2>2
<1>5. GraphRunInv' /\ SplitRunInv'
  BY DEF GraphRunInv, SplitRunInv, Start
<1>6. QED
  BY <1>1, <1>2, <1>7, <1>3, <1>4, <1>5 DEF IInv

\* The sizes are compared and the first edge is chosen.
LEMMA SanityCheckInv ==
    ASSUME IInv, SanityCheck
    PROVE  IInv'
<1>1. CASE ~SizesAgree
  BY <1>1, AbortInv DEF SanityCheck
<1>2. CASE SizesAgree
  <2>1. /\ pc = "check" /\ pos' = StartEdge
        /\ pc' = IF mode = "use" THEN "query" ELSE "seek"
        /\ harm' = IF FindsNoGroup THEN "wrapped" ELSE harm
        /\ UNCHANGED <<superPartitions, efile, part, bf, mode, bufs, epos, bpos, fatal, fresh>>
    BY <1>2 DEF SanityCheck, files
  <2>2. TypeInv'
    BY <2>1 DEF IInv, TypeInv
  <2>3. StartEdge' = StartEdge
    BY <2>1 DEF StartEdge, Distributed
  <2>4. ModeInv'
    BY <2>1, <2>3 DEF IInv, ModeInv, Building, FindsNoGroup
  <2>8. WrapInv'
    BY <2>1 DEF IInv, WrapInv, FindsNoGroup
  <2>5. GraphInv' /\ SplitInv'
    BY <2>1 DEF IInv, GraphInv, SplitInv, FindsNoGroup
  <2>6. GraphRunInv' /\ SplitRunInv'
    BY <2>1 DEF GraphRunInv, SplitRunInv
  <2>7. QED
    BY <2>2, <2>4, <2>8, <2>5, <2>6 DEF IInv
<1>3. QED
  BY <1>1, <1>2

\* The graph of a single index file is read from the group that is built again;
\* if there is none, from behind its end.
LEMMA StartOfGroup ==
    ASSUME IInv, pc = "seek", superPartitions = 1
    PROVE  /\ pos \in Nat
           /\ mode # "update" => pos = 0
           /\ mode = "update" /\ harm # "wrapped" =>
                 /\ bf[0] # <<>> /\ Len(bf[0]) - 1 \in Nat
                 /\ pos = (Len(bf[0]) - 1) * EdgesPerBuf
           /\ mode = "update" /\ harm = "wrapped" => ~MoreEdges
<1>1. pos = StartEdge
  BY DEF IInv, ModeInv
<1>2. CASE mode # "update"
  BY <1>1, <1>2 DEF StartEdge
<1>3. CASE mode = "update" /\ harm # "wrapped"
  <2>1. bf[0] # <<>> /\ bf[0] \in Seq(Rows)
    BY <1>3 DEF IInv, ModeInv, TypeInv
  <2>2. Len(bf[0]) - 1 \in Nat
    BY <2>1, EmptySeq
  <2>3. (Len(bf[0]) - 1) * EdgesPerBuf \in Nat
    BY <2>2, Sizes
  <2>4. pos = (Len(bf[0]) - 1) * EdgesPerBuf
    BY <1>1, <1>3, <2>3 DEF StartEdge, Unsigned
  <2>5. QED
    BY <1>3, <2>1, <2>2, <2>3, <2>4
<1>4. CASE mode = "update" /\ harm = "wrapped"
  <2>1. bf[0] = <<>> /\ efile \in Seq(Edges) /\ Len(efile) <= MaxEdges
    BY <1>4 DEF IInv, WrapInv, TypeInv
  <2>2. Len(bf[0]) - 1 = -1 /\ EdgesPerBuf \in Nat \ {0} /\ MaxEdges \in Nat
    BY <2>1, Sizes, SizesAssumption
  <2>3. (Len(bf[0]) - 1) * EdgesPerBuf = -EdgesPerBuf
    BY <2>2
  <2>4. pos = -EdgesPerBuf + Wrap
    BY <1>1, <1>4, <2>2, <2>3 DEF StartEdge, Unsigned
  <2>5. pos \in Nat /\ Len(efile) <= pos
    BY <2>1, <2>2, <2>4, WrapAssumption
  <2>6. QED
    BY <1>4, <2>1, <2>5 DEF MoreEdges
<1>5. QED
  BY <1>2, <1>3, <1>4

\* The group that is continued is read back, or built again.
LEMMA SeekInv ==
    ASSUME IInv, Seek
    PROVE  IInv'
<1>1. CASE ReadBackFails
  BY <1>1, AbortInv DEF Seek
<1>2. CASE ~ReadBackFails
  <2>1. /\ pc = "seek" /\ pc' = "distribute"
        /\ bufs' = [s \in Supers |-> SubSeq(part[s], Had(s) - Rest(s) + 1, Had(s))]
        /\ epos' = [s \in Supers |-> Had(s) - Rest(s)]
        /\ bpos' = [s \in Supers |-> FirstGroup(s)]
        /\ UNCHANGED <<superPartitions, efile, part, bf, mode, pos, fatal, fresh, harm>>
    BY <1>2 DEF Seek, files
  <2> DEFINE quot(s) == Had(s) \div EdgesPerBuf
  <2>2. ASSUME NEW s \in Supers
        PROVE  /\ Had(s) \in Nat /\ Had(s) <= Len(part[s]) /\ Len(part[s]) \in Nat
               /\ Rest(s) \in 0..EdgesPerBuf - 1 /\ Rest(s) <= Had(s)
               /\ quot(s) \in Nat /\ Had(s) - Rest(s) = quot(s) * EdgesPerBuf
    <3>1. part[s] \in Seq(Sources)
      BY DEF IInv, TypeInv
    <3>2. Had(s) \in Nat /\ Had(s) <= Len(part[s]) /\ Len(part[s]) \in Nat
      BY <3>1 DEF Had
    <3>3. /\ EdgesPerBuf \in Nat \ {0} /\ quot(s) \in Nat /\ Rest(s) \in 0..EdgesPerBuf - 1
          /\ Had(s) = EdgesPerBuf * quot(s) + Rest(s)
      BY <3>2, Sizes, Division DEF Rest
    <3> HIDE DEF quot
    <3>4. EdgesPerBuf * quot(s) \in Nat /\ EdgesPerBuf * quot(s) = quot(s) * EdgesPerBuf
      BY <3>3
    <3>5. QED
      BY <3>2, <3>3, <3>4
  <2> HIDE DEF quot
  <2>3. ASSUME NEW s \in Supers
        PROVE  bufs'[s] \in Seq(Sources) /\ Len(bufs'[s]) = Rest(s)
    <3> DEFINE low == Had(s) - Rest(s) + 1
    <3>1. part[s] \in Seq(Sources) /\ low \in Nat /\ low >= 1
      <4>1. part[s] \in Seq(Sources)
        BY DEF IInv, TypeInv
      <4>2. QED
        BY <2>2, <4>1, Sizes
    <3>2. \A i \in low..Had(s) : part[s][i] \in Sources
      <4>1. \A i \in low..Had(s) : i \in 1..Len(part[s])
        BY <2>2, <3>1
      <4>2. QED
        BY <3>1, <4>1, ElementOfSeq
    <3>3. Had(s) - low + 1 = Rest(s) /\ (low <= Had(s) <=> Rest(s) # 0)
      BY <2>2
    <3> HIDE DEF low
    <3>4. /\ SubSeq(part[s], low, Had(s)) \in Seq(Sources)
          /\ Len(SubSeq(part[s], low, Had(s))) = IF low <= Had(s) THEN Had(s) - low + 1 ELSE 0
      BY <2>2, <3>1, <3>2, SubSeqProperties
    <3>5. QED
      BY <2>1, <3>3, <3>4 DEF low
  <2>4. ASSUME NEW s \in Supers PROVE FirstGroup(s) \in Nat
    <3>1. CASE superPartitions # 1
      <4>1. superPartitions > 1
        BY <3>1 DEF IInv, TypeInv
      <4>2. QED
        BY <2>2, <4>1 DEF FirstGroup, quot
    <3>2. CASE superPartitions = 1
      <4>1. pos \in Nat
        BY <2>1, <3>2, StartOfGroup
      <4>2. pos \div EdgesPerBuf \in Nat
        BY <4>1, Sizes, Division
      <4>3. QED
        BY <3>2, <4>2 DEF FirstGroup
    <3>3. QED
      BY <3>1, <3>2
  <2>5. TypeInv'
    <3>1. ASSUME NEW s \in Supers
          PROVE  Len(bufs'[s]) < EdgesPerBuf /\ Had(s) - Rest(s) \in Nat
      BY <2>2, <2>3, Sizes
    <3>2. bufs' \in [Supers -> Seq(Sources)]
      BY <2>1, <2>3
    <3>3. QED
      BY <2>1, <2>4, <3>1, <3>2 DEF IInv, TypeInv
  <2>6. ModeInv'
    BY <2>1 DEF IInv, ModeInv, Building
  <2>7. GraphInv' /\ SplitInv'
    BY <2>1 DEF IInv, GraphInv, SplitInv
  <2>8. GraphRunInv'
    <3> SUFFICES ASSUME superPartitions = 1, Building, harm # "wrapped" PROVE GraphRunInv'
      BY <2>1 DEF GraphRunInv, Building
    <3>1. /\ bf[0] \in Seq(Rows) /\ efile \in Seq(Edges) /\ Len(efile) \in Nat /\ 0 \in Supers
          /\ EdgesPerBuf \in Nat \ {0} /\ mode # "none" /\ mode \in {"create", "update"}
      BY Sizes DEF IInv, TypeInv, Building
    <3>2. bufs'[0] = <<>>
      <4>1. Rest(0) = 0
        BY Sizes DEF Had, Rest
      <4>2. QED
        BY <2>3, <3>1, <4>1, EmptySeq
    <3>3. bpos'[0] * EdgesPerBuf = pos /\ pos \in 0..Len(efile) /\ Len(bf[0]) \in {bpos'[0], bpos'[0] + 1}
      <4>1. CASE mode = "create"
        <5>1. pos = 0 /\ bf[0] = <<>>
          BY <2>1, <3>1, <4>1, StartOfGroup DEF IInv, ModeInv
        <5>2. 0 \div EdgesPerBuf = 0
          BY <3>1, DivisionUnique
        <5>3. bpos'[0] = 0
          BY <2>1, <3>1, <5>1, <5>2 DEF FirstGroup
        <5>4. QED
          BY <3>1, <5>1, <5>3
      <4>2. CASE mode = "update"
        <5> DEFINE g == Len(bf[0]) - 1
        <5>1. g \in Nat /\ pos = g * EdgesPerBuf /\ bf[0] # <<>> /\ Len(bf[0]) = g + 1
          BY <2>1, <3>1, <4>2, StartOfGroup
        <5>2. pos < Len(efile) /\ pos \in Nat
          BY <3>1, <5>1 DEF IInv, GraphInv
        <5> HIDE DEF g
        <5>3. pos \div EdgesPerBuf = g
          BY <3>1, <5>1, <5>2, DivisionUnique
        <5>4. bpos'[0] = g
          <6>1. bpos'[0] = FirstGroup(0)
            BY <2>1, <3>1
          <6>2. FirstGroup(0) = pos \div EdgesPerBuf
            BY <3>1, <5>2 DEF FirstGroup
          <6>3. QED
            BY <5>3, <6>1, <6>2
        <5>5. QED
          BY <3>1, <5>1, <5>2, <5>4
      <4>3. QED
        BY <3>1, <4>1, <4>2
    <3>4. ASSUME NEW k \in DOMAIN efile, efile[k] # TOMBSTONE, k <= bpos'[0] * EdgesPerBuf
          PROVE  Covered(efile, bf[0], k)
      <4>1. mode = "update"
        <5>1. pos >= 1
          BY <3>1, <3>3, <3>4
        <5>2. QED
          BY <2>1, <5>1, StartOfGroup
      <4>2. k <= (Len(bf[0]) - 1) * EdgesPerBuf
        BY <2>1, <3>3, <3>4, <4>1, StartOfGroup
      <4>3. QED
        BY <3>1, <3>4, <4>2 DEF IInv, GraphInv
    <3>5. pos = bpos'[0] * EdgesPerBuf + Len(bufs'[0]) /\ 1..Len(bufs'[0]) = {}
      BY <3>2, <3>3
    <3>6. QED
      BY <2>1, <3>3, <3>4, <3>5 DEF GraphRunInv
  <2>9. SplitRunInv'
    <3> SUFFICES ASSUME superPartitions # 1, Building, NEW s \in Supers
                 PROVE  /\ epos'[s] <= Len(part[s]) /\ Len(part[s]) <= epos'[s] + Len(bufs'[s])
                        /\ epos'[s] = bpos'[s] * EdgesPerBuf
      BY <2>1 DEF SplitRunInv, Building
    <3>1. superPartitions > 1
      BY DEF IInv, TypeInv
    <3>2. Had(s) = Len(part[s])
      <4>1. CASE mode = "create"
        BY <2>1, <3>1, <4>1, EmptyBuffers DEF IInv, ModeInv, Had
      <4>2. CASE mode = "update"
        BY <3>1, <4>2 DEF Had
      <4>3. QED
        BY <4>1, <4>2 DEF Building
    <3>3. epos'[s] = Had(s) - Rest(s) /\ bpos'[s] = quot(s) /\ Len(bufs'[s]) = Rest(s)
      BY <2>1, <2>3, <3>1 DEF FirstGroup, quot
    <3>4. QED
      BY <2>2, <3>2, <3>3
  <2>10. WrapInv'
    <3> SUFFICES ASSUME harm = "wrapped", Building
                 PROVE  ~MoreEdges /\ bufs'[0] = <<>>
      BY <2>1 DEF IInv, WrapInv, Building, MoreEdges
    <3>1. superPartitions = 1 /\ mode = "update"
      BY <2>1 DEF IInv, WrapInv, Building
    <3>2. Rest(0) = 0 /\ 0 \in Supers
      BY <3>1, Sizes DEF Had, Rest
    <3>3. QED
      BY <2>1, <2>3, <3>1, <3>2, StartOfGroup, EmptySeq
  <2>11. QED
    BY <2>5, <2>6, <2>7, <2>8, <2>9, <2>10 DEF IInv
<1>3. QED
  BY <1>1, <1>2

\* A group of super partition s is written: new is what the buffer held and, in
\* Distribute, the edge read last.
LEMMA FlushInv ==
    ASSUME IInv, pc = "distribute", NEW s \in Supers,
           NEW new \in Seq(Sources), Len(new) \in 1..EdgesPerBuf, Flush(s, new),
           MoreEdges \/ bufs[s] # <<>>, Len(bufs[s]) <= Len(new),
           fatal' = "no" => (MoreEdges' => MoreEdges /\ Len(new) = EdgesPerBuf),
           (fatal' = "no" /\ superPartitions = 1 /\ Building) =>
               /\ \A i \in 1..Len(new) : new[i] = efile[bpos[0] * EdgesPerBuf + i]
               /\ pos' = bpos[0] * EdgesPerBuf + Len(new) /\ pos' <= Len(efile)
               /\ Len(new) = EdgesPerBuf \/ pos' = Len(efile)
    PROVE  IInv'
<1> DEFINE edges2 == Written(part[s], epos[s], new)
           padded == Padded(bf[s], bpos[s])
           index2 == Written(padded, bpos[s], <<Group(new)>>)
<1>1. CASE mode = "verify" /\ ~Matches(s, new)
  BY <1>1, AbortInv DEF Flush
<1>2. CASE ~(mode = "verify" /\ ~Matches(s, new))
  <2>1. /\ bpos' = [bpos EXCEPT ![s] = @ + 1]
        /\ epos' = [epos EXCEPT ![s] = @ + Len(new)]
        /\ bufs' = [bufs EXCEPT ![s] = <<>>]
        /\ UNCHANGED <<superPartitions, efile, pc, mode, fatal, fresh, harm>>
        /\ Building => WriteGroup(s, new)
        /\ ~Building => UNCHANGED <<bf, part>>
    BY <1>2 DEF Flush
  <2> HIDE DEF edges2, padded, index2
  <2>2. /\ superPartitions \in Nat \ {0} /\ efile \in Seq(Edges) /\ Len(efile) \in Nat
        /\ part[s] \in Seq(Sources) /\ bf[s] \in Seq(Rows) /\ bufs[s] \in Seq(Sources)
        /\ epos[s] \in Nat /\ bpos[s] \in Nat /\ fatal' = "no"
        /\ EdgesPerBuf \in Nat \ {0} /\ Len(new) \in Nat /\ Len(bufs[s]) \in Nat /\ Len(part[s]) \in Nat
    <3>1. /\ superPartitions \in Nat \ {0} /\ efile \in Seq(Edges)
          /\ part[s] \in Seq(Sources) /\ bf[s] \in Seq(Rows) /\ bufs[s] \in Seq(Sources)
          /\ epos[s] \in Nat /\ bpos[s] \in Nat
      BY DEF IInv, TypeInv
    <3>2. fatal' = "no"
      BY <2>1 DEF IInv, ModeInv
    <3>3. QED
      BY <3>1, <3>2, Sizes
  <2>3. bufs' \in [Supers -> Seq(Sources)] /\ \A r \in Supers : Len(bufs'[r]) < EdgesPerBuf
    <3>1. bufs' = [bufs EXCEPT ![s] = <<>>]
      BY <2>1
    <3>2. QED
      BY <3>1, EmptyBuffers DEF IInv, TypeInv
  <2>4. epos' \in [Supers -> Nat] /\ bpos' \in [Supers -> Nat]
    <3>1. bpos' = [bpos EXCEPT ![s] = @ + 1] /\ epos' = [epos EXCEPT ![s] = @ + Len(new)]
      BY <2>1
    <3>2. epos \in [Supers -> Nat] /\ bpos \in [Supers -> Nat]
      BY DEF IInv, TypeInv
    <3>3. epos[s] + Len(new) \in Nat /\ bpos[s] + 1 \in Nat
      BY <2>2
    <3>4. QED
      BY <3>1, <3>2, <3>3
  <2>5. ModeInv'
    BY <2>1 DEF IInv, ModeInv, Building
  <2>10. padded \in Seq(Rows) /\ bpos[s] \in 0..Len(padded) /\ (bpos[s] <= Len(bf[s]) => padded = bf[s])
    BY <2>2, PaddedIs DEF padded
  <2>11. Building => WrapInv' /\ harm # "wrapped"
    BY <2>1 DEF IInv, WrapInv
  <2>6. CASE ~Building
    <3>1. TypeInv'
      BY <2>1, <2>3, <2>4, <2>6 DEF IInv, TypeInv
    <3>2. GraphInv' /\ SplitInv'
      BY <2>1, <2>6 DEF IInv, GraphInv, SplitInv
    <3>3. GraphRunInv' /\ SplitRunInv'
      BY <2>1, <2>6 DEF GraphRunInv, SplitRunInv, Building
    <3>4. WrapInv'
      BY <2>1, <2>6 DEF IInv, WrapInv, Building
    <3>5. QED
      BY <2>5, <3>1, <3>2, <3>3, <3>4 DEF IInv
  <2>7. CASE Building /\ superPartitions = 1
    <3> DEFINE g == bpos[0]
               base == g * EdgesPerBuf
    <3>1. s = 0 /\ g \in Nat /\ base \in Nat /\ (g + 1) * EdgesPerBuf = base + EdgesPerBuf
      BY <2>2, <2>7
    <3>2. /\ Len(bf[0]) \in {g, g + 1}
          /\ \A k \in DOMAIN efile :
                (efile[k] # TOMBSTONE /\ k <= base) => Covered(efile, bf[0], k)
      BY <2>7, <2>11 DEF IInv, GraphRunInv
    <3>3. /\ \A i \in 1..Len(new) : new[i] = efile[base + i]
          /\ pos' = base + Len(new) /\ pos' <= Len(efile)
          /\ Len(new) = EdgesPerBuf \/ base + Len(new) = Len(efile)
      BY <2>2, <2>7
    <3>4. /\ index2 \in Seq(Rows) /\ Len(index2) = g + 1
          /\ \A k \in DOMAIN efile :
                (efile[k] # TOMBSTONE /\ k <= (g + 1) * EdgesPerBuf) => Covered(efile, index2, k)
      <4> DEFINE index == bf[0]
      <4>1. index \in Seq(Rows) /\ Len(index) \in {g, g + 1} /\ index2 = Written(index, g, <<Group(new)>>)
        BY <2>2, <2>10, <3>1, <3>2 DEF index2
      <4>2. \A k \in DOMAIN efile :
                (efile[k] # TOMBSTONE /\ k <= base) => Covered(efile, index, k)
        BY <3>2
      <4>3. /\ g \in Nat /\ Len(new) <= EdgesPerBuf /\ efile \in Seq(Edges)
            /\ \A i \in 1..Len(new) : new[i] = efile[g * EdgesPerBuf + i]
            /\ Len(new) = EdgesPerBuf \/ g * EdgesPerBuf + Len(new) = Len(efile)
            /\ \A k \in DOMAIN efile :
                (efile[k] # TOMBSTONE /\ k <= g * EdgesPerBuf) => Covered(efile, index, k)
        BY <2>2, <3>1, <3>3, <4>2
      <4> HIDE DEF index, g
      <4>4. QED
        BY <4>1, <4>3, ExtendCovers
    <3> HIDE DEF base
    <3>5. bf' \in [Supers -> Seq(Rows)] /\ bf'[0] = index2 /\ part' = part
          /\ bpos'[0] = g + 1 /\ bufs'[0] = <<>>
      <4>1. bf' = [bf EXCEPT ![0] = index2] /\ part' = part
        BY <2>1, <2>7, <3>1 DEF WriteGroup, index2, padded
      <4>2. bpos' = [bpos EXCEPT ![0] = @ + 1] /\ bufs' = [bufs EXCEPT ![0] = <<>>] /\ 0 \in Supers
        BY <2>1, <2>7, <3>1
      <4>3. QED
        BY <3>4, <4>1, <4>2 DEF IInv, TypeInv
    <3>6. TypeInv'
      BY <2>1, <2>3, <2>4, <3>5 DEF IInv, TypeInv
    <3>7. GraphInv'
      <4>1. ~fresh'
        BY <2>1, <2>7 DEF IInv, ModeInv
      <4>2. Len(bf'[0]) - 1 = g /\ (Len(bf'[0]) - 1) * EdgesPerBuf = base /\ base < Len(efile)
        <5>1. Len(bf'[0]) = g + 1
          BY <3>4, <3>5
        <5>2. Len(bf'[0]) - 1 = g
          BY <3>1, <5>1
        <5>3. base < Len(efile)
          BY <2>2, <3>1, <3>3
        <5>4. QED
          BY <5>2, <5>3 DEF base
      <4>3. ASSUME NEW k \in DOMAIN efile, efile[k] # TOMBSTONE, k <= base
            PROVE  Covered(efile, index2, k)
        <5>1. k <= (g + 1) * EdgesPerBuf
          BY <2>2, <3>1, <4>3
        <5>2. QED
          BY <3>4, <4>3, <5>1
      <4>4. QED
        BY <2>1, <3>5, <4>1, <4>2, <4>3 DEF GraphInv
    <3>8. GraphRunInv'
      <4>1. bpos'[0] * EdgesPerBuf = base + EdgesPerBuf /\ pos' \in 0..Len(efile)
        BY <2>2, <3>1, <3>3, <3>5
      <4>2. CASE Len(new) = EdgesPerBuf
        <5>1. pos' = bpos'[0] * EdgesPerBuf + Len(bufs'[0]) /\ 1..Len(bufs'[0]) = {}
          BY <2>2, <3>1, <3>3, <3>5, <4>1, <4>2, EmptyBuffers
        <5>2. QED
          BY <2>1, <3>1, <3>4, <3>5, <4>1, <5>1 DEF GraphRunInv
      <4>3. CASE base + Len(new) = Len(efile)
        <5>1. pos' = Len(efile) /\ Len(efile) <= bpos'[0] * EdgesPerBuf
          BY <2>2, <3>1, <3>3, <4>1, <4>3
        <5>2. QED
          BY <2>1, <3>1, <3>4, <3>5, <4>1, <5>1 DEF GraphRunInv
      <4>4. QED
        BY <3>3, <4>2, <4>3
    <3>9. SplitInv' /\ SplitRunInv'
      BY <2>1, <2>7 DEF SplitInv, SplitRunInv
    <3>10. QED
      BY <2>5, <2>7, <2>11, <3>6, <3>7, <3>8, <3>9 DEF IInv
  <2>8. CASE Building /\ superPartitions # 1
    <3> DEFINE g == bpos[s]
    <3>1. superPartitions > 1
      BY <2>2, <2>8
    <3>2. /\ epos[s] = g * EdgesPerBuf /\ epos[s] <= Len(part[s])
          /\ Len(part[s]) <= epos[s] + Len(bufs[s])
      BY <2>8 DEF IInv, SplitRunInv
    <3>3. g * EdgesPerBuf <= Len(part[s]) /\ Len(part[s]) <= g * EdgesPerBuf + Len(new)
      BY <2>2, <3>2
    <3>4. /\ edges2 \in Seq(Sources) /\ index2 \in Seq(Rows)
          /\ Len(edges2) = epos[s] + Len(new)
      <4>1. epos[s] \in 0..Len(part[s])
        BY <2>2, <3>2
      <4>2. /\ edges2 \in Seq(Sources)
            /\ Len(edges2) = IF epos[s] + Len(new) <= Len(part[s]) THEN Len(part[s]) ELSE epos[s] + Len(new)
        BY <2>2, <4>1, WrittenAt DEF edges2
      <4>3. index2 \in Seq(Rows)
        <5>1. Group(new) \in Rows /\ padded \in Seq(Rows) /\ bpos[s] \in 0..Len(padded)
          BY <2>10, GroupIsRow
        <5>2. QED
          BY <5>1, IndexWritten DEF index2
      <4>4. Len(part[s]) <= epos[s] + Len(new)
        BY <2>2, <3>2
      <4>5. Len(edges2) = epos[s] + Len(new)
        <5>1. {Len(edges2), Len(new), Len(part[s]), epos[s]} \subseteq Nat
          BY <2>2, <4>1, <4>2
        <5>2. QED
          BY <4>2, <4>4, <5>1
      <4>6. QED
        BY <4>2, <4>3, <4>5
    <3>11. ASSUME harm # "torn"
           PROVE  \A k \in DOMAIN edges2 : Covered(edges2, index2, k)
      <4> DEFINE old == part[s]
                 index == bf[s]
      <4>1. /\ old \in Seq(Sources) /\ index \in Seq(Rows) /\ g \in Nat
            /\ g * EdgesPerBuf <= Len(old) /\ Len(old) <= g * EdgesPerBuf + Len(new)
            /\ \A k \in DOMAIN old : Covered(old, index, k)
        BY <2>2, <2>8, <3>2, <3>3, <3>11 DEF IInv, SplitInv
      <4>2. edges2 = Written(old, g * EdgesPerBuf, new)
        BY <3>2 DEF edges2
      <4>3. g <= Len(index) => index2 = Written(index, g, <<Group(new)>>)
        BY <2>10 DEF index2
      <4> HIDE DEF old, index, g
      <4>4. QED
        BY <4>1, <4>2, <4>3, OverwriteCovers
    <3>5. /\ bf' = [bf EXCEPT ![s] = index2] /\ part' = [part EXCEPT ![s] = edges2]
          /\ bf' \in [Supers -> Seq(Rows)] /\ part' \in [Supers -> Seq(Sources)]
      <4>1. bf' = [bf EXCEPT ![s] = index2] /\ part' = [part EXCEPT ![s] = edges2]
        BY <2>1, <2>8, <3>1 DEF WriteGroup, index2, padded, edges2
      <4>2. QED
        BY <3>4, <4>1 DEF IInv, TypeInv
    <3>6. TypeInv'
      BY <2>1, <2>3, <2>4, <3>5 DEF IInv, TypeInv
    <3>7. GraphInv' /\ GraphRunInv'
      BY <2>1, <2>8 DEF GraphInv, GraphRunInv
    <3>8. SplitInv'
      <4>1. ASSUME harm # "torn", NEW r \in Supers, NEW k \in DOMAIN part'[r]
            PROVE  Covered(part'[r], bf'[r], k)
        <5>1. CASE r = s
          <6>1. part'[r] = edges2 /\ bf'[r] = index2
            BY <3>5, <5>1 DEF IInv, TypeInv
          <6>2. QED
            BY <3>11, <4>1, <6>1
        <5>2. CASE r # s
          <6>1. part'[r] = part[r] /\ bf'[r] = bf[r]
            BY <3>5, <5>2
          <6>2. QED
            BY <2>8, <4>1, <6>1 DEF IInv, SplitInv
        <5>3. QED
          BY <5>1, <5>2
      <4>2. QED
        BY <2>1, <4>1 DEF SplitInv
    <3>9. SplitRunInv'
      <4>1. ASSUME NEW r \in Supers
            PROVE  /\ epos'[r] <= Len(part'[r]) /\ Len(part'[r]) <= epos'[r] + Len(bufs'[r])
                   /\ MoreEdges' \/ bufs'[r] # <<>> => epos'[r] = bpos'[r] * EdgesPerBuf
        <5>1. CASE r = s
          <6>1. /\ epos'[r] = epos[s] + Len(new) /\ bpos'[r] = g + 1 /\ bufs'[r] = <<>>
                /\ part'[r] = edges2
            BY <2>1, <3>5, <5>1 DEF IInv, TypeInv
          <6>2. MoreEdges' => epos'[r] = (g + 1) * EdgesPerBuf
            BY <2>2, <3>2, <6>1
          <6>3. QED
            BY <2>2, <3>4, <6>1, <6>2, EmptyBuffers
        <5>2. CASE r # s
          <6>1. /\ epos'[r] = epos[r] /\ bpos'[r] = bpos[r] /\ bufs'[r] = bufs[r]
                /\ part'[r] = part[r]
            BY <2>1, <3>5, <5>2 DEF IInv, TypeInv
          <6>2. QED
            BY <2>2, <2>8, <6>1 DEF IInv, SplitRunInv
        <5>3. QED
          BY <5>1, <5>2
      <4>2. QED
        BY <2>1, <4>1 DEF SplitRunInv
    <3>10. QED
      BY <2>5, <2>8, <2>11, <3>6, <3>7, <3>8, <3>9 DEF IInv
  <2>9. QED
    BY <2>6, <2>7, <2>8
<1>3. QED
  BY <1>1, <1>2

\* A group that is not full is written at the end.
LEMMA FlushRestInv ==
    ASSUME IInv, FlushRest
    PROVE  IInv'
<1>1. PICK s \in Supers : /\ bufs[s] # <<>> /\ Flush(s, bufs[s])
                          /\ fatal' = "no" => UNCHANGED pos
  BY DEF FlushRest
<1>2. /\ pc = "distribute" /\ ~MoreEdges /\ efile \in Seq(Edges) /\ Len(efile) \in Nat
      /\ bufs[s] \in Seq(Sources) /\ Len(bufs[s]) < EdgesPerBuf
      /\ EdgesPerBuf \in Nat \ {0}
  BY Sizes DEF FlushRest, IInv, TypeInv
<1>3. Len(bufs[s]) \in 1..EdgesPerBuf /\ Len(bufs[s]) <= Len(bufs[s])
  BY <1>1, <1>2, EmptySeq
<1>4. efile' = efile
  BY <1>1 DEF Flush, Abort, Dies, files
<1>5. fatal' = "no" => ~MoreEdges'
  BY <1>1, <1>2, <1>4 DEF MoreEdges
<1>6. ASSUME fatal' = "no", superPartitions = 1, Building
      PROVE  /\ \A i \in 1..Len(bufs[s]) : bufs[s][i] = efile[bpos[0] * EdgesPerBuf + i]
             /\ pos' = bpos[0] * EdgesPerBuf + Len(bufs[s]) /\ pos' <= Len(efile)
             /\ pos' = Len(efile)
  <2>1. s = 0 /\ pos' = pos
    BY <1>1, <1>6
  <2>4. harm # "wrapped"
    BY <1>1, <1>2, <1>6, <2>1 DEF IInv, WrapInv
  <2>2. pos = Len(efile)
    BY <1>2, <1>6, <2>4 DEF IInv, GraphRunInv, MoreEdges
  <2>3. QED
    BY <1>1, <1>2, <1>6, <2>1, <2>2, <2>4 DEF IInv, GraphRunInv
<1>7. QED
  BY <1>1, <1>2, <1>3, <1>5, <1>6, FlushInv

\* An edge is put into its buffer, which may be full then.
LEMMA DistributeInv ==
    ASSUME IInv, Distribute
    PROVE  IInv'
<1> DEFINE e == efile[pos + 1]
           s == SuperOf(e)
           new == Append(bufs[s], e)
<1>1. /\ pc = "distribute" /\ MoreEdges /\ fatal = "no"
      /\ superPartitions \in Nat \ {0} /\ efile \in Seq(Edges) /\ Len(efile) \in Nat
      /\ EdgesPerBuf \in Nat \ {0}
  BY Sizes DEF Distribute, IInv, TypeInv, ModeInv
<1>5. Building => harm # "wrapped"
  BY <1>1 DEF IInv, WrapInv
<1>2. CASE e = TOMBSTONE
  BY <1>2, AbortInv DEF Distribute
<1>3. CASE e # TOMBSTONE
  <2>1. e \in Sources
    <3>1. pos + 1 \in 1..Len(efile)
      BY <1>1 DEF MoreEdges
    <3>2. e \in Edges
      BY <1>1, <3>1, ElementOfSeq
    <3> HIDE DEF e
    <3>3. QED
      BY <1>3, <3>2 DEF Edges
  <2>2. s \in Supers
    <3>1. e \in Nat
      BY <2>1, SourceBits
    <3> HIDE DEF e
    <3>2. QED
      BY <1>1, <3>1, Division DEF SuperOf
  <2>3. /\ IF IsFull(new) THEN Flush(s, new)
           ELSE /\ bufs' = [bufs EXCEPT ![s] = new]
                /\ UNCHANGED <<superPartitions, files, pc, mode, epos, bpos, fatal, fresh, harm, deleted>>
        /\ fatal' = "no" => pos' = pos + 1
    BY <1>3 DEF Distribute
  <2>4. bufs[s] \in Seq(Sources) /\ Len(bufs[s]) \in Nat /\ Len(bufs[s]) < EdgesPerBuf
    <3> HIDE DEF s
    <3>1. bufs[s] \in Seq(Sources) /\ Len(bufs[s]) < EdgesPerBuf
      BY <2>2 DEF IInv, TypeInv
    <3>2. QED
      BY <3>1
  <2>5. /\ new \in Seq(Sources) /\ Len(new) = Len(bufs[s]) + 1 /\ new # <<>>
        /\ \A i \in 1..Len(bufs[s]) : new[i] = bufs[s][i]
        /\ new[Len(bufs[s]) + 1] = e
    BY <2>1, <2>4, AppendProperties
  <2>6. superPartitions = 1 /\ Building =>
           /\ s = 0 /\ pos \in Nat /\ pos < Len(efile) /\ bpos[0] * EdgesPerBuf \in Nat
           /\ pos + 1 = bpos[0] * EdgesPerBuf + Len(new)
           /\ \A i \in 1..Len(new) : new[i] = efile[bpos[0] * EdgesPerBuf + i]
    <3> HIDE DEF new
    <3> SUFFICES ASSUME superPartitions = 1, Building
                 PROVE  /\ s = 0 /\ pos \in Nat /\ pos < Len(efile) /\ bpos[0] * EdgesPerBuf \in Nat
                        /\ pos + 1 = bpos[0] * EdgesPerBuf + Len(new)
                        /\ \A i \in 1..Len(new) : new[i] = efile[bpos[0] * EdgesPerBuf + i]
      OBVIOUS
    <3> DEFINE base == bpos[0] * EdgesPerBuf
    <3>1. s = 0
      BY <2>2
    <3> HIDE DEF s
    <3>2. bpos[0] \in Nat /\ base \in Nat
      <4>1. bpos[0] \in Nat
        BY DEF IInv, TypeInv
      <4>2. QED
        BY <1>1, <4>1
    <3>3. pos \in 0..Len(efile) /\ pos < Len(efile)
      BY <1>1, <1>5 DEF IInv, GraphRunInv, MoreEdges
    <3>4. pos = base + Len(bufs[0]) /\ \A i \in 1..Len(bufs[0]) : bufs[0][i] = efile[base + i]
      BY <1>1, <1>5, <3>3 DEF IInv, GraphRunInv
    <3> HIDE DEF base
    <3>5. ASSUME NEW i \in 1..Len(new) PROVE new[i] = efile[base + i]
      <4>1. CASE i \in 1..Len(bufs[0])
        BY <2>5, <3>1, <3>4, <4>1
      <4>2. CASE i = Len(bufs[0]) + 1
        BY <2>5, <3>1, <3>2, <3>4, <4>2, <2>4
      <4>3. QED
        BY <2>4, <2>5, <3>1, <4>1, <4>2
    <3>6. pos + 1 = base + Len(new)
      BY <2>4, <2>5, <3>1, <3>2, <3>4
    <3>7. QED
      BY <3>1, <3>2, <3>3, <3>5, <3>6 DEF base
  <2>7. CASE IsFull(new)
    <3> HIDE DEF s, new
    <3>1. Flush(s, new) /\ Len(new) = EdgesPerBuf /\ Len(new) \in 1..EdgesPerBuf /\ Len(bufs[s]) <= Len(new)
      BY <1>1, <2>3, <2>4, <2>5, <2>7 DEF IsFull
    <3>2. ASSUME fatal' = "no", superPartitions = 1, Building
          PROVE  /\ \A i \in 1..Len(new) : new[i] = efile[bpos[0] * EdgesPerBuf + i]
                 /\ pos' = bpos[0] * EdgesPerBuf + Len(new) /\ pos' <= Len(efile)
      BY <1>1, <2>3, <2>6, <3>2
    <3>3. QED
      BY <1>1, <2>2, <2>5, <3>1, <3>2, FlushInv
  <2>8. CASE ~IsFull(new)
    <3> HIDE DEF s, new
    <3>1. /\ bufs' = [bufs EXCEPT ![s] = new] /\ pos' = pos + 1
          /\ UNCHANGED <<superPartitions, efile, part, bf, pc, mode, epos, bpos, fatal, fresh, harm>>
      BY <1>1, <2>3, <2>8 DEF files
    <3>2. TypeInv'
      <4>1. Len(new) < EdgesPerBuf
        BY <1>1, <2>4, <2>5, <2>8 DEF IsFull
      <4>2. bufs' \in [Supers -> Seq(Sources)] /\ \A r \in Supers : Len(bufs'[r]) < EdgesPerBuf
        BY <2>2, <2>5, <3>1, <4>1 DEF IInv, TypeInv
      <4>3. QED
        BY <3>1, <4>2 DEF IInv, TypeInv
    <3>3. ModeInv' /\ WrapInv'
      BY <1>1, <1>5, <3>1 DEF IInv, ModeInv, WrapInv, Building
    <3>4. GraphInv' /\ SplitInv'
      BY <3>1 DEF IInv, GraphInv, SplitInv
    <3>5. GraphRunInv'
      <4> SUFFICES ASSUME superPartitions = 1, Building PROVE GraphRunInv'
        BY <3>1 DEF GraphRunInv, Building
      <4>1. bufs'[0] = new
        BY <2>2, <2>6, <3>1 DEF IInv, TypeInv
      <4>2. pos' \in 0..Len(efile) /\ pos' = bpos[0] * EdgesPerBuf + Len(bufs'[0])
        BY <1>1, <2>6, <3>1, <4>1
      <4>3. \A i \in 1..Len(bufs'[0]) : bufs'[0][i] = efile[bpos[0] * EdgesPerBuf + i]
        BY <2>6, <4>1
      <4>4. /\ Len(bf[0]) \in {bpos[0], bpos[0] + 1}
            /\ \A k \in DOMAIN efile :
                 (efile[k] # TOMBSTONE /\ k <= bpos[0] * EdgesPerBuf) => Covered(efile, bf[0], k)
        BY <1>1, <1>5 DEF IInv, GraphRunInv
      <4>5. QED
        BY <3>1, <4>2, <4>3, <4>4 DEF GraphRunInv
    <3>6. SplitRunInv'
      <4> SUFFICES ASSUME superPartitions # 1, Building, NEW r \in Supers
                   PROVE  /\ epos[r] <= Len(part[r]) /\ Len(part[r]) <= epos[r] + Len(bufs'[r])
                          /\ epos[r] = bpos[r] * EdgesPerBuf
        BY <3>1 DEF SplitRunInv, Building
      <4>1. /\ epos[r] <= Len(part[r]) /\ Len(part[r]) <= epos[r] + Len(bufs[r])
            /\ epos[r] = bpos[r] * EdgesPerBuf
        BY <1>1 DEF IInv, SplitRunInv
      <4>2. epos[r] \in Nat /\ part[r] \in Seq(Sources) /\ bufs[r] \in Seq(Sources)
        BY DEF IInv, TypeInv
      <4>3. CASE r = s
        <5>1. bufs'[r] = new
          BY <3>1, <4>3 DEF IInv, TypeInv
        <5>2. Len(bufs'[r]) = Len(bufs[r]) + 1 /\ Len(bufs[r]) \in Nat /\ Len(part[r]) \in Nat
          BY <2>4, <2>5, <4>2, <4>3, <5>1
        <5>3. QED
          BY <4>1, <4>2, <5>2
      <4>4. CASE r # s
        <5>1. bufs'[r] = bufs[r]
          BY <3>1, <4>4 DEF IInv, TypeInv
        <5>2. QED
          BY <4>1, <5>1
      <4>5. QED
        BY <4>3, <4>4
    <3>7. QED
      BY <3>2, <3>3, <3>4, <3>5, <3>6 DEF IInv
  <2>9. QED
    BY <2>7, <2>8
<1>4. QED
  BY <1>2, <1>3

\* A build is complete: the groups written reach the end of the graph.
LEMMA CloseInv ==
    ASSUME IInv, Close
    PROVE  IInv'
<1>1. /\ pc = "distribute" /\ pc' = "query" /\ ~MoreEdges /\ \A s \in Supers : bufs[s] = <<>>
      /\ fresh' = (fresh \/ Building) /\ Forget
      /\ UNCHANGED <<superPartitions, efile, part, bf, mode, fatal, harm>>
  BY DEF Close, files
<1>2. TypeInv'
  BY <1>1, EmptyBuffers DEF IInv, TypeInv, Forget
<1>3. ModeInv' /\ WrapInv'
  BY <1>1 DEF IInv, ModeInv, WrapInv
<1>4. GraphInv'
  <2>1. CASE ~Building
    BY <1>1, <2>1 DEF IInv, TypeInv, GraphInv
  <2>2. CASE Building
    <3> SUFFICES ASSUME superPartitions = 1, harm # "wrapped" PROVE GraphInv'
      BY <1>1 DEF IInv, GraphInv, ModeInv
    <3>1. efile \in Seq(Edges) /\ Len(efile) \in Nat /\ bpos[0] \in Nat /\ bufs[0] = <<>>
      BY <1>1 DEF IInv, TypeInv
    <3>2. Len(efile) <= bpos[0] * EdgesPerBuf
      <4>1. pos = Len(efile)
        BY <1>1, <2>2, <3>1 DEF IInv, GraphRunInv, MoreEdges
      <4>2. bpos[0] * EdgesPerBuf \in Nat /\ Len(bufs[0]) = 0
        BY <3>1, Sizes
      <4>3. QED
        BY <1>1, <2>2, <4>1, <4>2 DEF IInv, GraphRunInv
    <3>3. ASSUME NEW k \in DOMAIN efile, efile[k] # TOMBSTONE
          PROVE  Covered(efile, bf[0], k)
      <4>1. k <= bpos[0] * EdgesPerBuf
        BY <3>1, <3>2, Sizes
      <4>2. QED
        BY <1>1, <2>2, <3>3, <4>1 DEF IInv, GraphRunInv
    <3>4. QED
      BY <1>1, <3>3 DEF IInv, GraphInv, ModeInv
  <2>3. QED
    BY <2>1, <2>2
<1>5. SplitInv'
  BY <1>1 DEF IInv, SplitInv
<1>6. GraphRunInv' /\ SplitRunInv'
  BY <1>1 DEF GraphRunInv, SplitRunInv
<1>7. QED
  BY <1>2, <1>3, <1>4, <1>5, <1>6 DEF IInv

\* The run is over.
LEMMA EndInv ==
    ASSUME IInv, End
    PROVE  IInv'
<1>1. /\ pc' = "idle"
      /\ UNCHANGED <<superPartitions, efile, part, bf, mode, bufs, epos, bpos, fresh, harm>>
  BY DEF End, files
<1>2. TypeInv' /\ ModeInv' /\ WrapInv' /\ GraphInv' /\ SplitInv'
  BY <1>1 DEF IInv, TypeInv, ModeInv, WrapInv, GraphInv, SplitInv
<1>3. GraphRunInv' /\ SplitRunInv'
  BY <1>1 DEF GraphRunInv, SplitRunInv
<1>4. QED
  BY <1>2, <1>3 DEF IInv

\* An edge is added behind the groups that are right.
LEMMA AddEdgeInv ==
    ASSUME IInv, AddEdge
    PROVE  IInv'
<1>1. PICK v \in Sources : efile' = Append(efile, v)
  BY DEF AddEdge
<1>2. /\ pc = "idle" /\ fresh' = FALSE
      /\ UNCHANGED <<superPartitions, part, bf, pc, mode, bufs, epos, bpos, fatal, harm>>
      /\ Len(efile) < MaxEdges
  BY DEF AddEdge
<1>3. /\ efile \in Seq(Edges) /\ Len(efile) \in Nat /\ efile' \in Seq(Edges)
      /\ Len(efile') = Len(efile) + 1 /\ \A k \in 1..Len(efile) : efile'[k] = efile[k]
  <2>1. v \in Edges /\ efile \in Seq(Edges)
    BY DEF IInv, TypeInv, Edges
  <2>2. QED
    BY <1>1, <2>1, AppendProperties
<1>4. TypeInv'
  <2>1. Len(efile') <= MaxEdges
    BY <1>2, <1>3, SizesAssumption
  <2>2. QED
    BY <1>2, <1>3, <2>1 DEF IInv, TypeInv
<1>5. ModeInv' /\ WrapInv' /\ SplitInv'
  BY <1>2 DEF IInv, ModeInv, WrapInv, SplitInv
<1>6. GraphInv'
  <2> SUFFICES ASSUME superPartitions = 1, mode # "none" PROVE GraphInv'
    BY <1>2 DEF GraphInv
  <2> DEFINE known == (Len(bf[0]) - 1) * EdgesPerBuf
  <2>1. bf[0] \in Seq(Rows) /\ Len(bf[0]) \in Nat /\ EdgesPerBuf \in Nat \ {0} /\ known \in Int
    <3>1. bf[0] \in Seq(Rows)
      BY DEF IInv, TypeInv
    <3>2. QED
      BY <3>1, Sizes
  <2>2. bf[0] # <<>> => known < Len(efile)
    BY DEF IInv, GraphInv
  <2>3. bf[0] = <<>> => known = -EdgesPerBuf
    BY <2>1
  <2>4. \A k \in DOMAIN efile : (efile[k] # TOMBSTONE /\ k <= known) => Covered(efile, bf[0], k)
    BY DEF IInv, GraphInv
  <2> HIDE DEF known
  <2>5. ASSUME NEW k \in DOMAIN efile', efile'[k] # TOMBSTONE, k <= known
        PROVE  Covered(efile', bf[0], k)
    <3>1. k \in 1..Len(efile)
      BY <1>3, <2>1, <2>2, <2>3, <2>5
    <3>2. efile'[k] = efile[k] /\ Covered(efile, bf[0], k)
      BY <1>3, <2>4, <2>5, <3>1
    <3>3. QED
      BY <3>2, CoveredEdge
  <2>6. bf[0] # <<>> => known < Len(efile')
    BY <1>3, <2>1, <2>2
  <2>7. QED
    BY <1>2, <2>5, <2>6 DEF GraphInv, known
<1>7. GraphRunInv' /\ SplitRunInv'
  BY <1>2 DEF GraphRunInv, SplitRunInv
<1>8. QED
  BY <1>4, <1>5, <1>6, <1>7 DEF IInv

\* A deleted edge asks for nothing.
LEMMA DeleteInv ==
    ASSUME IInv, Delete
    PROVE  IInv'
<1>1. PICK j \in DOMAIN efile : efile' = [efile EXCEPT ![j] = TOMBSTONE]
  BY DEF Delete
<1>2. pc = "idle" /\ UNCHANGED <<superPartitions, part, bf, pc, mode, bufs, epos, bpos, fatal, fresh, harm>>
  BY DEF Delete
<1>3. /\ efile \in Seq(Edges) /\ efile' \in Seq(Edges) /\ Len(efile') = Len(efile)
      /\ DOMAIN efile' = DOMAIN efile
      /\ \A k \in DOMAIN efile : efile'[k] # TOMBSTONE => efile'[k] = efile[k]
  <2>1. TOMBSTONE \in Edges /\ efile \in Seq(Edges)
    BY DEF IInv, TypeInv, Edges
  <2>2. /\ efile' \in Seq(Edges) /\ Len(efile') = Len(efile)
        /\ \A k \in 1..Len(efile) : efile'[k] = IF k = j THEN TOMBSTONE ELSE efile[k]
    BY <1>1, <2>1, ExceptSeq
  <2>3. QED
    BY <2>1, <2>2
<1>4. TypeInv'
  BY <1>2, <1>3 DEF IInv, TypeInv
<1>5. ModeInv' /\ WrapInv' /\ SplitInv'
  BY <1>2 DEF IInv, ModeInv, WrapInv, SplitInv
<1>6. GraphInv'
  <2> SUFFICES ASSUME superPartitions = 1, mode # "none" PROVE GraphInv'
    BY <1>2 DEF GraphInv
  <2>1. ASSUME NEW k \in DOMAIN efile', efile'[k] # TOMBSTONE,
               (fresh /\ harm # "wrapped") \/ k <= (Len(bf[0]) - 1) * EdgesPerBuf
        PROVE  Covered(efile', bf[0], k)
    <3>1. k \in DOMAIN efile /\ efile'[k] = efile[k] /\ efile[k] # TOMBSTONE
      BY <1>3, <2>1
    <3>2. Covered(efile, bf[0], k)
      BY <2>1, <3>1 DEF IInv, GraphInv
    <3>3. QED
      BY <3>1, <3>2, CoveredEdge
  <2>2. bf[0] # <<>> => (Len(bf[0]) - 1) * EdgesPerBuf < Len(efile')
    BY <1>3 DEF IInv, GraphInv
  <2>3. QED
    BY <1>2, <2>1, <2>2 DEF GraphInv
<1>7. GraphRunInv' /\ SplitRunInv'
  BY <1>2 DEF GraphRunInv, SplitRunInv
<1>8. QED
  BY <1>4, <1>5, <1>6, <1>7 DEF IInv

\* Purging asks for new index files.
LEMMA PurgeInv ==
    ASSUME IInv, Purge
    PROVE  IInv'
<1> DEFINE n == Cardinality(Kept)
<1>1. PICK place \in [1..n -> Kept] : efile' = [i \in DOMAIN place |-> efile[place[i]]]
  BY DEF Purge
<1>2. /\ pc = "idle" /\ mode' = "none" /\ fresh' = FALSE
      /\ UNCHANGED <<superPartitions, part, bf, pc, bufs, epos, bpos, fatal, harm>>
  BY DEF Purge
<1>3. efile \in Seq(Edges) /\ DOMAIN efile = 1..Len(efile) /\ Len(efile) \in Nat
  BY DEF IInv, TypeInv
<1>4. n \in Nat /\ n <= Len(efile)
  <2> DEFINE m == Len(efile)
  <2>1. m \in Nat /\ Kept \subseteq 1..m
    BY <1>3 DEF Kept
  <2> HIDE DEF m
  <2>2. IsFiniteSet(1..m) /\ Cardinality(1..m) = m
    BY <2>1, FS_Interval
  <2>3. IsFiniteSet(Kept) /\ n <= Cardinality(1..m)
    BY <2>1, <2>2, FS_Subset
  <2>4. QED
    BY <2>2, <2>3, FS_CardinalityType DEF m
<1> HIDE DEF n
<1>5. efile' \in Seq(Edges) /\ Len(efile') = n
  <2>1. \A i \in 1..n : efile[place[i]] \in Edges
    BY <1>3 DEF Kept
  <2>2. efile' = [i \in 1..n |-> efile[place[i]]]
    BY <1>1
  <2>3. QED
    BY <1>4, <2>1, <2>2
<1>6. TypeInv'
  <2>1. Len(efile) <= MaxEdges
    BY DEF IInv, TypeInv
  <2>2. Len(efile') <= MaxEdges
    BY <1>3, <1>4, <1>5, <2>1, SizesAssumption
  <2>3. QED
    BY <1>2, <1>5, <2>2 DEF IInv, TypeInv
<1>7. ModeInv' /\ WrapInv' /\ SplitInv'
  BY <1>2 DEF IInv, ModeInv, WrapInv, SplitInv
<1>8. GraphInv' /\ GraphRunInv' /\ SplitRunInv'
  BY <1>2 DEF GraphInv, GraphRunInv, SplitRunInv
<1>9. QED
  BY <1>6, <1>7, <1>8 DEF IInv

\* Every step keeps the invariant.
LEMMA NextInv ==
    ASSUME IInv, [Next]_vars
    PROVE  IInv'
<1>1. CASE \E m \in {"create", "update", "verify", "use"} : Start(m)
  BY <1>1, StartInv
<1>2. CASE SanityCheck
  BY <1>2, SanityCheckInv
<1>3. CASE Seek
  BY <1>3, SeekInv
<1>4. CASE Distribute
  BY <1>4, DistributeInv
<1>5. CASE FlushRest
  BY <1>5, FlushRestInv
<1>6. CASE Close
  BY <1>6, CloseInv
<1>7. CASE End
  BY <1>7, EndInv
<1>8. CASE Kill
  BY <1>8, KillInv
<1>9. CASE AddEdge
  BY <1>9, AddEdgeInv
<1>10. CASE Delete
  BY <1>10, DeleteInv
<1>11. CASE Purge
  BY <1>11, PurgeInv
<1>12. CASE UNCHANGED vars
  BY <1>12 DEF vars, IInv, TypeInv, ModeInv, WrapInv, GraphInv, GraphRunInv, SplitInv, SplitRunInv,
               Building, StartEdge, Distributed, MoreEdges
<1>13. QED
  BY <1>1, <1>2, <1>3, <1>4, <1>5, <1>6, <1>7, <1>8, <1>9, <1>10, <1>11, <1>12 DEF Next

-----------------------------------------------------------------------------
(* The theorems *)

\* What holds of the graph and index files in every state.
THEOREM IndexInvariant ==
    Spec => []IInv
<1>1. Init => IInv
  BY InitInv
<1>2. IInv /\ [Next]_vars => IInv'
  BY NextInv
<1>3. QED
  BY <1>1, <1>2, PTL DEF Spec

\* A covered edge's page is one that a query for its source names.
LEMMA CoveredIsAsked ==
    ASSUME NEW s \in Supers, NEW edges, NEW k \in Nat \ {0}, Covered(edges, bf[s], k),
           Len(bf[s]) \in Nat
    PROVE  (k - 1) \div EdgesPerPage \in Asked(s, {edges[k]})
<1> DEFINE page == (k - 1) \div EdgesPerPage
           g == (k - 1) \div EdgesPerBuf
           m == ((k - 1) % EdgesPerBuf) \div EdgesPerPage
<1>1. /\ page \in Nat /\ g \in Nat /\ m \in 0..SimdLen - 1
      /\ page \div SimdLen = g /\ page % SimdLen = m
  BY PageOfEdge
<1>2. g + 1 \in 1..Len(bf[s]) /\ \A b \in QueryBits(edges[k]) : m \in bf[s][g + 1][b]
  BY DEF Covered
<1> HIDE DEF page, g, m
<1> DEFINE n == Len(bf[s])
<1>3. n \in Nat /\ g + 1 <= n
  BY <1>2
<1>4. page \in 0..SimdLen * n - 1
  <2> HIDE DEF n
  <2>1. SimdLen \in Nat \ {0} /\ page = SimdLen * g + m
    <3>1. page = SimdLen * (page \div SimdLen) + (page % SimdLen)
      BY <1>1, Sizes, Division
    <3>2. QED
      BY <1>1, <3>1, Sizes, Zenon
  <2>2. PICK d \in Nat : n = g + 1 + d
    <3>1. n - g - 1 \in Nat /\ n = g + 1 + (n - g - 1)
      BY <1>1, <1>3
    <3>2. QED
      BY <3>1
  <2>3. SimdLen * n = SimdLen * g + SimdLen + SimdLen * d
    BY <1>1, <2>1, <2>2
  <2>4. SimdLen * d \in Nat /\ SimdLen * g \in Nat
    BY <1>1, <2>1
  <2>5. QED
    BY <1>1, <2>1, <2>3, <2>4
<1>5. QED
  BY <1>1, <1>2, <1>4 DEF Asked, page

\* The filters have no false negatives.
THEOREM NoPageMissedAlways ==
    Spec => []NoPageMissed
<1>1. IInv => NoPageMissed
  <2> SUFFICES ASSUME IInv, pc = "query", fresh, harm = "none", NEW s \in Supers, NEW k \in DOMAIN EdgeFile(s),
                      EdgeFile(s)[k] # TOMBSTONE
               PROVE  (k - 1) \div EdgesPerPage \in Asked(s, {EdgeFile(s)[k]})
    BY DEF NoPageMissed
  <2>1. bf[s] \in Seq(Rows) /\ efile \in Seq(Edges) /\ part[s] \in Seq(Sources) /\ mode # "none"
    BY DEF IInv, TypeInv, ModeInv
  <2>2. k \in Nat \ {0} /\ Len(bf[s]) \in Nat
    BY <2>1 DEF EdgeFile
  <2>3. Covered(EdgeFile(s), bf[s], k)
    <3>1. CASE superPartitions = 1
      <4>1. s = 0
        BY <3>1
      <4>2. QED
        BY <2>1, <3>1, <4>1 DEF IInv, GraphInv, EdgeFile
    <3>2. CASE superPartitions # 1
      BY <3>2 DEF IInv, SplitInv, EdgeFile
    <3>3. QED
      BY <3>1, <3>2
  <2>4. QED
    BY <2>2, <2>3, CoveredIsAsked
<1>2. QED
  BY <1>1, IndexInvariant, PTL

-----------------------------------------------------------------------------
(* What the files hold exactly *)

BoundsInv ==
    /\ superPartitions \in SuperPartitionCounts
    /\ deleted \in 0..MaxDeletes /\ pos \in Nat
    /\ fatal \in {"no", "size", "read amount is incorrect", "tombstone", "verify"}

\* One index file: its groups but the last are those of a new index, and the
\* last one is too when nothing came after the build.
GraphExact ==
    (superPartitions = 1 /\ mode # "none" /\ Undeleted) =>
        /\ \A g \in 1..Len(bf[0]) - 1 : bf[0][g] = Index(efile)[g]
        /\ fresh => bf[0] = Index(efile)

\* During a run the buffer holds the edges read since the last group; those
\* before are in groups that a build has written.
GraphRunExact ==
    (superPartitions = 1 /\ pc = "distribute" /\ Undeleted) =>
        LET base == bpos[0] * EdgesPerBuf
        IN /\ Building => \A g \in 1..bpos[0] : bf[0][g] = Index(efile)[g]
           /\ \/ /\ pos = base + Len(bufs[0]) /\ pos <= Len(efile)
                 /\ \A i \in 1..Len(bufs[0]) : bufs[0][i] = efile[base + i]
              \/ pos = Len(efile) /\ bufs[0] = <<>> /\ Len(efile) <= base

\* Several super partitions: each index is that of its edge file.
SplitIndexed ==
    superPartitions # 1 => \A s \in Supers : bf[s] = Index(part[s])

\* The edge files hold the first edges of the graph, all if nothing came since.
SplitExact ==
    (superPartitions # 1 /\ mode # "none" /\ Undeleted /\ ~(pc = "distribute" /\ Building)) =>
        \E n \in 0..Len(efile) :
            /\ n = Distributed /\ (fresh => n = Len(efile))
            /\ \A s \in Supers : IsOwnEdges(part[s], s, n)

\* The elements of sequences of these lengths, one for every super partition
Pairs(len) == UNION {{s} \X (1..len[s]) : s \in Supers}

\* The edges of s that a run has passed
Passed(s) == epos[s] + Len(bufs[s])

\* An edge file up to a position, and then the buffer, hold the first edges of s;
\* verify finds those of the buffer in the file.
Held(edges, at, buf, s, n) ==
    /\ at + Len(buf) = Cardinality(Own(s, n))
    /\ Building => \A k \in Own(s, n) :
          LET r == Cardinality(Own(s, k))
          IN efile[k] = IF r <= at THEN edges[r] ELSE buf[r - at]
    /\ ~Building => \A i \in 1..Len(buf) : buf[i] = edges[at + i]

\* During a run the files and the buffers hold the edges read so far.
SplitRunExact ==
    (superPartitions # 1 /\ pc = "distribute" /\ Undeleted /\ (Building \/ fresh)) =>
        \E n \in 0..Len(efile) :
            /\ n = pos /\ n = Cardinality(Pairs([s \in Supers |-> Passed(s)]))
            /\ \A s \in Supers :
                  /\ Held(part[s], epos[s], bufs[s], s, n)
                  /\ (~Building /\ (MoreEdges \/ bufs[s] # <<>>)) => epos[s] = bpos[s] * EdgesPerBuf

ExactInv == /\ VerifyAccepts /\ GraphExact /\ GraphRunExact
            /\ SplitIndexed /\ SplitExact /\ SplitRunExact

\* When only a create mends the files, nothing is said of what they hold exactly.
ExactUnlessHarmed == IInv /\ BoundsInv /\ (harm = "none" => ExactInv)
EInv == IInv /\ BoundsInv /\ ExactInv /\ harm = "none"

-----------------------------------------------------------------------------
(* New index files *)

\* The groups of a file are as many as begin inside it.
LEMMA GroupsOf ==
    ASSUME NEW S, NEW edges \in Seq(S)
    PROVE  /\ Groups(edges) \in Nat
           /\ \A g \in Nat : g < Groups(edges) <=> g * EdgesPerBuf < Len(edges)
<1> DEFINE n == Len(edges)
           q == (n + EdgesPerBuf - 1) \div EdgesPerBuf
           r == (n + EdgesPerBuf - 1) % EdgesPerBuf
<1>1. n \in Nat /\ EdgesPerBuf \in Nat \ {0} /\ n + EdgesPerBuf - 1 \in Nat
  BY Sizes
<1> HIDE DEF n
<1>2. q \in Nat /\ r \in 0..EdgesPerBuf - 1 /\ n + EdgesPerBuf - 1 = EdgesPerBuf * q + r
  BY <1>1, Division
<1>3. Groups(edges) = q
  BY DEF Groups, CeilDiv, n
<1> HIDE DEF q, r
<1>4. ASSUME NEW g \in Nat, g < q PROVE g * EdgesPerBuf < n
  <2>1. PICK d \in Nat : q = g + 1 + d
    <3>1. q - g - 1 \in Nat /\ q = g + 1 + (q - g - 1)
      BY <1>2, <1>4
    <3>2. QED
      BY <3>1
  <2>2. EdgesPerBuf * q = g * EdgesPerBuf + EdgesPerBuf + EdgesPerBuf * d
    BY <1>1, <1>2, <2>1
  <2>3. EdgesPerBuf * d \in Nat /\ g * EdgesPerBuf \in Nat
    BY <1>1, <2>1
  <2>4. QED
    BY <1>1, <1>2, <2>2, <2>3
<1>5. ASSUME NEW g \in Nat, ~(g < q) PROVE ~(g * EdgesPerBuf < n)
  <2>1. PICK d \in Nat : g = q + d
    <3>1. g - q \in Nat /\ g = q + (g - q)
      BY <1>2, <1>5
    <3>2. QED
      BY <3>1
  <2>2. g * EdgesPerBuf = EdgesPerBuf * q + EdgesPerBuf * d
    BY <1>1, <1>2, <2>1
  <2>3. EdgesPerBuf * d \in Nat /\ EdgesPerBuf * q \in Nat
    BY <1>1, <1>2, <2>1
  <2>4. QED
    BY <1>1, <1>2, <2>2, <2>3
<1>6. QED
  BY <1>2, <1>3, <1>4, <1>5 DEF n

\* A new index has a row for every group.
LEMMA IndexOf ==
    ASSUME NEW S, NEW edges \in Seq(S)
    PROVE  Index(edges) \in Seq(Rows) /\ Len(Index(edges)) = Groups(edges)
<1>1. Groups(edges) \in Nat
  BY GroupsOf
<1> DEFINE row(g) == Group(SubSeq(edges, (g - 1) * EdgesPerBuf + 1, Min({g * EdgesPerBuf, Len(edges)})))
<1>2. \A g \in 1..Groups(edges) : row(g) \in Rows
  BY GroupIsRow
<1> HIDE DEF row
<1>3. Index(edges) = [g \in 1..Groups(edges) |-> row(g)]
  BY DEF Index, row
<1>4. QED
  BY <1>1, <1>2, <1>3

\* The row of group g + 1 is made of the edges of that group.
LEMMA RowOfGroup ==
    ASSUME NEW S, NEW edges \in Seq(S), NEW new \in Seq(S), NEW g \in Nat, NEW at,
           at = g * EdgesPerBuf, Len(new) \in 1..EdgesPerBuf, at + Len(new) <= Len(edges),
           \A i \in 1..Len(new) : new[i] = edges[at + i],
           Len(new) = EdgesPerBuf \/ at + Len(new) = Len(edges)
    PROVE  g + 1 \in 1..Groups(edges) /\ Index(edges)[g + 1] = Group(new)
<1> DEFINE n == Len(edges)
           m == Len(new)
           high == Min({(g + 1) * EdgesPerBuf, n})
           slice == SubSeq(edges, at + 1, high)
<1>1. /\ EdgesPerBuf \in Nat \ {0} /\ at \in Nat /\ (g + 1) * EdgesPerBuf = at + EdgesPerBuf
      /\ n \in Nat /\ m \in Nat /\ m >= 1 /\ m <= EdgesPerBuf /\ at + m <= n
  BY Sizes
<1>2. m = EdgesPerBuf \/ at + m = n
  OBVIOUS
<1>3. \A i \in 1..n : edges[i] \in S
  OBVIOUS
<1>4. \A i \in 1..m : new[i] = edges[at + i]
  OBVIOUS
<1>5. g + 1 \in 1..Groups(edges)
  <2>1. Groups(edges) \in Nat /\ (g < Groups(edges) <=> g * EdgesPerBuf < Len(edges))
    BY GroupsOf
  <2>2. QED
    BY <1>1, <2>1
<1>6. new \in Seq(S) /\ Len(new) = m
  OBVIOUS
<1> HIDE DEF n, m
<1>7. high = at + m
  <2>1. high = Min({at + EdgesPerBuf, n})
    BY <1>1
  <2>2. at + EdgesPerBuf \in Int /\ n \in Int
    BY <1>1
  <2>3. high = IF at + EdgesPerBuf <= n THEN at + EdgesPerBuf ELSE n
    BY <2>1, <2>2, MinPair
  <2> HIDE DEF high
  <2>4. QED
    BY <1>1, <1>2, <2>3
<1> HIDE DEF high
<1>8. /\ slice \in Seq(S) /\ Len(slice) = m
      /\ \A i \in 1..m : slice[i] = edges[at + i]
  <2>1. at + 1 \in Int /\ high \in Int /\ at + 1 <= high /\ high - (at + 1) + 1 = m
    BY <1>1, <1>7
  <2>2. \A i \in at + 1..high : edges[i] \in S
    BY <1>1, <1>3, <1>7
  <2> DEFINE low == at + 1
  <2> HIDE DEF low
  <2>5. /\ SubSeq(edges, low, high) \in Seq(S)
        /\ Len(SubSeq(edges, low, high)) = IF low <= high THEN high - low + 1 ELSE 0
        /\ \A i \in 1..high - low + 1 : SubSeq(edges, low, high)[i] = edges[low + i - 1]
    BY <2>1, <2>2, SubSeqProperties DEF low
  <2>6. low <= high /\ high - low + 1 = m
    BY <2>1 DEF low
  <2>3. /\ slice \in Seq(S) /\ Len(slice) = m
        /\ \A i \in 1..m : slice[i] = edges[at + 1 + i - 1]
    BY <2>5, <2>6 DEF low
  <2> HIDE DEF slice
  <2>4. \A i \in 1..m : at + 1 + i - 1 = at + i
    BY <1>1
  <2>7. QED
    BY <2>3, <2>4
<1> HIDE DEF slice
<1>9. slice = new
  BY <1>4, <1>6, <1>8, SeqEqual
<1>10. Index(edges)[g + 1] = Group(SubSeq(edges, (g + 1 - 1) * EdgesPerBuf + 1, Min({(g + 1) * EdgesPerBuf, Len(edges)})))
  BY <1>5 DEF Index
<1>11. (g + 1 - 1) * EdgesPerBuf + 1 = at + 1
  BY <1>1
<1>12. QED
  BY <1>5, <1>9, <1>10, <1>11 DEF slice, high, n

\* Files that agree up to the end of a group have the same row for it.
LEMMA SameRow ==
    ASSUME NEW S, NEW a \in Seq(S), NEW b \in Seq(S), NEW g \in Nat, NEW at,
           at = g * EdgesPerBuf, at + EdgesPerBuf <= Len(a), at + EdgesPerBuf <= Len(b),
           \A i \in 1..at + EdgesPerBuf : a[i] = b[i]
    PROVE  g + 1 \in 1..Groups(a) /\ g + 1 \in 1..Groups(b) /\ Index(a)[g + 1] = Index(b)[g + 1]
<1> DEFINE new == SubSeq(a, at + 1, at + EdgesPerBuf)
<1>1. /\ EdgesPerBuf \in Nat \ {0} /\ at \in Nat /\ Len(a) \in Nat /\ Len(b) \in Nat
  BY Sizes
<1>2. at + EdgesPerBuf <= Len(a) /\ at + EdgesPerBuf <= Len(b)
  OBVIOUS
<1>3. \A i \in 1..at + EdgesPerBuf : a[i] = b[i]
  OBVIOUS
<1>4. /\ new \in Seq(S) /\ Len(new) = EdgesPerBuf
      /\ \A i \in 1..EdgesPerBuf : new[i] = a[at + i]
  <2>1. at + 1 \in Int /\ at + EdgesPerBuf \in Int /\ at + 1 <= at + EdgesPerBuf
        /\ at + EdgesPerBuf - (at + 1) + 1 = EdgesPerBuf
    BY <1>1
  <2>2. \A i \in at + 1..at + EdgesPerBuf : a[i] \in S
    BY <1>1, <1>2
  <2> DEFINE low == at + 1
             high == at + EdgesPerBuf
  <2> HIDE DEF low, high
  <2>6. /\ SubSeq(a, low, high) \in Seq(S)
        /\ Len(SubSeq(a, low, high)) = IF low <= high THEN high - low + 1 ELSE 0
        /\ \A i \in 1..high - low + 1 : SubSeq(a, low, high)[i] = a[low + i - 1]
    BY <2>1, <2>2, SubSeqProperties DEF low, high
  <2>7. low <= high /\ high - low + 1 = EdgesPerBuf
    BY <1>1, <2>1 DEF low, high
  <2>3. /\ new \in Seq(S) /\ Len(new) = EdgesPerBuf
        /\ \A i \in 1..EdgesPerBuf : new[i] = a[low + i - 1]
    BY <2>6, <2>7 DEF low, high
  <2> HIDE DEF new
  <2>4. \A i \in 1..EdgesPerBuf : at + 1 + i - 1 = at + i
    BY <1>1
  <2>5. QED
    BY <2>3, <2>4 DEF low
<1> HIDE DEF new
<1>5. \A i \in 1..EdgesPerBuf : at + i \in 1..at + EdgesPerBuf
  BY <1>1
<1>6. \A i \in 1..EdgesPerBuf : new[i] = b[at + i]
  BY <1>3, <1>4, <1>5
<1>7. Len(new) \in 1..EdgesPerBuf
  BY <1>1, <1>4
<1>8. /\ at + Len(new) <= Len(a) /\ at + Len(new) <= Len(b)
      /\ \A i \in 1..Len(new) : new[i] = a[at + i]
      /\ \A i \in 1..Len(new) : new[i] = b[at + i]
  BY <1>2, <1>4, <1>6
<1>9. new \in Seq(S) /\ at = g * EdgesPerBuf
  BY <1>4
<1>10. /\ Len(new) = EdgesPerBuf \/ at + Len(new) = Len(a)
       /\ Len(new) = EdgesPerBuf \/ at + Len(new) = Len(b)
  BY <1>4
<1>11. g + 1 \in 1..Groups(a) /\ Index(a)[g + 1] = Group(new)
  BY <1>7, <1>8, <1>9, <1>10, RowOfGroup
<1>12. g + 1 \in 1..Groups(b) /\ Index(b)[g + 1] = Group(new)
  BY <1>7, <1>8, <1>9, <1>10, RowOfGroup
<1>13. QED
  BY <1>11, <1>12

\* An index with the rows of a new one is the new one.
LEMMA WholeIndex ==
    ASSUME NEW S, NEW edges \in Seq(S), NEW index \in Seq(Rows), Len(index) = Groups(edges),
           \A g \in 1..Len(index) : index[g] = Index(edges)[g]
    PROVE  index = Index(edges)
BY IndexOf, SeqEqual

\* The index of an empty file is empty.
LEMMA EmptyIndex ==
    Index(<<>>) = <<>>
<1>1. <<>> \in Seq({}) /\ Len(<<>>) = 0
  OBVIOUS
<1>2. Groups(<<>>) \in Nat /\ (0 < Groups(<<>>) <=> 0 * EdgesPerBuf < 0)
  BY <1>1, GroupsOf
<1>3. Groups(<<>>) = 0
  BY <1>2, Sizes
<1>4. QED
  BY <1>1, <1>3, IndexOf, EmptySeq

\* An edge file and its index stay together when a group is written.
LEMMA IndexKept ==
    ASSUME NEW old \in Seq(Sources), NEW new \in Seq(Sources), NEW g \in Nat, NEW at,
           at = g * EdgesPerBuf, Len(new) \in 1..EdgesPerBuf,
           at <= Len(old), Len(old) <= at + Len(new)
    PROVE  Written(Index(old), g, <<Group(new)>>) = Index(Written(old, at, new))
<1> DEFINE whole == Written(old, at, new)
           index == Written(Index(old), g, <<Group(new)>>)
<1>1. /\ EdgesPerBuf \in Nat \ {0} /\ at \in Nat /\ at \in 0..Len(old) /\ Len(old) \in Nat
      /\ Len(new) \in Nat /\ Len(new) >= 1 /\ Len(new) <= EdgesPerBuf
  BY Sizes
<1>2. /\ whole \in Seq(Sources) /\ Len(whole) = at + Len(new)
      /\ \A i \in 1..at + Len(new) : whole[i] = IF i <= at THEN old[i] ELSE new[i - at]
  <2>1. /\ whole \in Seq(Sources)
        /\ Len(whole) = IF at + Len(new) <= Len(old) THEN Len(old) ELSE at + Len(new)
        /\ \A i \in 1..Len(whole) :
              whole[i] = IF i <= at THEN old[i]
                         ELSE IF i <= at + Len(new) THEN new[i - at] ELSE old[i]
    BY <1>1, WrittenAt
  <2> HIDE DEF whole
  <2>2. Len(whole) = at + Len(new)
    BY <1>1, <2>1
  <2>3. ASSUME NEW k \in 1..at + Len(new) PROVE whole[k] = IF k <= at THEN old[k] ELSE new[k - at]
    BY <1>1, <2>1, <2>2, <2>3
  <2>4. QED
    BY <2>1, <2>2, <2>3
<1> HIDE DEF whole
<1>3. Index(old) \in Seq(Rows) /\ Len(Index(old)) = Groups(old) /\ Groups(old) \in Nat
  BY IndexOf, GroupsOf
<1>4. g <= Groups(old) /\ Groups(old) <= g + 1
  <2>1. /\ \A h \in Nat : h < Groups(old) <=> h * EdgesPerBuf < Len(old)
        /\ (g + 1) * EdgesPerBuf = at + EdgesPerBuf
    BY <1>1, GroupsOf
  <2>2. Groups(old) <= g + 1
    <3>1. ~(g + 1 < Groups(old))
      BY <1>1, <2>1
    <3>2. QED
      BY <1>3, <3>1
  <2>3. g <= Groups(old)
    <3>1. CASE g = 0
      BY <1>3, <3>1
    <3>2. CASE g # 0
      <4>1. g - 1 \in Nat /\ (g - 1) * EdgesPerBuf = at - EdgesPerBuf
        BY <1>1, <3>2
      <4>2. g - 1 < Groups(old)
        BY <1>1, <2>1, <4>1
      <4>3. QED
        BY <1>3, <4>2
    <3>3. QED
      BY <3>1, <3>2
  <2>4. QED
    BY <2>2, <2>3
<1>5. /\ index \in Seq(Rows) /\ Len(index) = g + 1 /\ index[g + 1] = Group(new)
      /\ \A i \in 1..g : index[i] = Index(old)[i]
  <2>1. g \in 0..Len(Index(old)) /\ Group(new) \in Rows
    BY <1>3, <1>4, GroupIsRow
  <2>2. /\ index \in Seq(Rows)
        /\ Len(index) = IF g < Len(Index(old)) THEN Len(Index(old)) ELSE g + 1
        /\ index[g + 1] = Group(new)
        /\ \A i \in 1..Len(Index(old)) : i # g + 1 => index[i] = Index(old)[i]
    BY <1>3, <2>1, IndexWritten
  <2> HIDE DEF index
  <2>3. QED
    BY <1>3, <1>4, <2>2
<1> HIDE DEF index
<1>6. g + 1 \in 1..Groups(whole) /\ Index(whole)[g + 1] = Group(new)
  <2>1. at + Len(new) <= Len(whole) /\ (Len(new) = EdgesPerBuf \/ at + Len(new) = Len(whole))
    BY <1>1, <1>2
  <2>2. \A i \in 1..Len(new) : new[i] = whole[at + i]
    <3>1. \A i \in 1..Len(new) : at + i \in 1..at + Len(new) /\ ~(at + i <= at) /\ (at + i) - at = i
      BY <1>1
    <3>2. QED
      BY <1>2, <3>1
  <2>3. QED
    BY <1>2, <2>1, <2>2, RowOfGroup
<1>7. Groups(whole) = g + 1
  <2>1. Groups(whole) \in Nat /\ (g + 1 < Groups(whole) <=> (g + 1) * EdgesPerBuf < Len(whole))
    BY <1>2, GroupsOf
  <2>2. (g + 1) * EdgesPerBuf = at + EdgesPerBuf
    BY <1>1
  <2>3. QED
    BY <1>1, <1>2, <1>6, <2>1, <2>2
<1>8. ASSUME NEW h \in 1..g PROVE index[h] = Index(whole)[h]
  <2> DEFINE start == (h - 1) * EdgesPerBuf
  <2>1. h - 1 \in Nat /\ start \in Nat /\ start + EdgesPerBuf <= at
    <3>1. PICK d \in Nat : g = h + d
      <4>1. g - h \in Nat /\ g = h + (g - h)
        OBVIOUS
      <4>2. QED
        BY <4>1
    <3>2. at = start + EdgesPerBuf + d * EdgesPerBuf /\ d * EdgesPerBuf \in Nat
      BY <1>1, <3>1
    <3>3. QED
      BY <1>1, <3>2
  <2>2. start = (h - 1) * EdgesPerBuf
    OBVIOUS
  <2> HIDE DEF start
  <2>3. start + EdgesPerBuf <= Len(old) /\ start + EdgesPerBuf <= Len(whole)
    BY <1>1, <1>2, <2>1
  <2>4. \A i \in 1..start + EdgesPerBuf : old[i] = whole[i]
    <3>1. \A i \in 1..start + EdgesPerBuf : i \in 1..at + Len(new) /\ i <= at
      BY <1>1, <2>1
    <3>2. QED
      BY <1>2, <3>1
  <2>5. Index(old)[(h - 1) + 1] = Index(whole)[(h - 1) + 1]
    BY <1>2, <2>1, <2>2, <2>3, <2>4, SameRow
  <2>6. (h - 1) + 1 = h
    OBVIOUS
  <2>7. QED
    BY <1>5, <2>5, <2>6
<1>9. \A h \in 1..Len(index) : index[h] = Index(whole)[h]
  BY <1>5, <1>6, <1>8
<1>10. index = Index(whole)
  BY <1>2, <1>5, <1>7, <1>9, WholeIndex
<1>11. QED
  BY <1>10 DEF index, whole

\* What is compared is there when its elements are.
LEMMA SameAt ==
    ASSUME NEW S, NEW old \in Seq(S), NEW new \in Seq(S), NEW at \in Nat,
           at + Len(new) <= Len(old), \A i \in 1..Len(new) : new[i] = old[at + i]
    PROVE  Same(old, at, new)
<1> DEFINE low == at + 1
           high == at + Len(new)
<1>1. /\ Len(new) \in Nat /\ Len(old) \in Nat /\ low \in Nat /\ high \in Nat /\ low >= 1
      /\ high <= Len(old) /\ high - low + 1 = Len(new)
      /\ (low <= high <=> Len(new) # 0) /\ \A i \in 1..Len(new) : low + i - 1 = at + i
  OBVIOUS
<1>2. low \in Int /\ high \in Int
  BY <1>1
<1> HIDE DEF low, high
<1>3. \A i \in low..high : old[i] \in S
  <2>1. \A i \in low..high : i \in 1..Len(old)
    BY <1>1
  <2>2. QED
    BY <2>1, ElementOfSeq
<1> DEFINE there == SubSeq(old, low, high)
<1>4. /\ there \in Seq(S)
      /\ Len(there) = IF low <= high THEN high - low + 1 ELSE 0
      /\ \A i \in 1..high - low + 1 : there[i] = old[low + i - 1]
  BY <1>2, <1>3, SubSeqProperties
<1> HIDE DEF there
<1>5. there \in Seq(S) /\ Len(there) = Len(new) /\ \A i \in 1..Len(there) : there[i] = new[i]
  <2>1. Len(there) = Len(new)
    BY <1>1, <1>4
  <2>2. \A i \in 1..Len(new) : there[i] = old[low + i - 1] /\ low + i - 1 = at + i
    BY <1>1, <1>4
  <2>3. QED
    BY <1>4, <2>1, <2>2
<1>6. there = new
  BY <1>5, SeqEqual
<1>7. QED
  BY <1>6 DEF Same, there, low, high

\* One group is found in an index.
LEMMA SameGroup ==
    ASSUME NEW index \in Seq(Rows), NEW g \in Nat, NEW row \in Rows,
           g + 1 \in 1..Len(index), index[g + 1] = row
    PROVE  Same(index, g, <<row>>)
<1> DEFINE one == <<row>>
<1>1. one \in Seq(Rows) /\ Len(one) = 1 /\ one[1] = row
  OBVIOUS
<1> HIDE DEF one
<1>2. g + Len(one) <= Len(index) /\ \A i \in 1..Len(one) : one[i] = index[g + i]
  BY <1>1
<1>3. Same(index, g, one)
  BY <1>1, <1>2, SameAt
<1>4. QED
  BY <1>3 DEF one

-----------------------------------------------------------------------------
(* Counting the edges of a super partition *)

\* The edges of a super partition among the first n are finitely many.
LEMMA OwnFinite ==
    ASSUME NEW s, NEW n \in Nat
    PROVE  IsFiniteSet(Own(s, n)) /\ Cardinality(Own(s, n)) \in Nat
<1>1. IsFiniteSet(1..n) /\ Own(s, n) \subseteq 1..n
  BY FS_Interval DEF Own
<1>2. QED
  BY <1>1, FS_Subset, FS_CardinalityType

\* There is none among no edges.
LEMMA OwnNone ==
    ASSUME NEW s
    PROVE  Own(s, 0) = {} /\ Cardinality(Own(s, 0)) = 0
<1>1. Own(s, 0) = {}
  BY DEF Own
<1>2. QED
  BY <1>1, FS_EmptySet

\* The next edge is one of s or is not.
LEMMA OwnNext ==
    ASSUME NEW s, NEW n \in Nat
    PROVE  /\ SuperOf(efile[n + 1]) = s => /\ Own(s, n + 1) = Own(s, n) \cup {n + 1}
                                           /\ Cardinality(Own(s, n + 1)) = Cardinality(Own(s, n)) + 1
           /\ SuperOf(efile[n + 1]) # s => Own(s, n + 1) = Own(s, n)
<1>1. 1..n + 1 = 1..n \cup {n + 1} /\ n + 1 \notin 1..n
  OBVIOUS
<1>2. SuperOf(efile[n + 1]) = s => Own(s, n + 1) = Own(s, n) \cup {n + 1}
  BY <1>1 DEF Own
<1>3. SuperOf(efile[n + 1]) # s => Own(s, n + 1) = Own(s, n)
  BY <1>1 DEF Own
<1>4. n + 1 \notin Own(s, n)
  BY <1>1 DEF Own
<1>5. Cardinality(Own(s, n) \cup {n + 1}) = Cardinality(Own(s, n)) + 1
  BY <1>4, OwnFinite, FS_AddElement
<1>6. QED
  BY <1>2, <1>3, <1>5

\* The rank of an edge of s is one of those in its file.
LEMMA RankOfOwn ==
    ASSUME NEW s, NEW n \in Nat, NEW k \in Own(s, n)
    PROVE  k \in 1..n /\ Cardinality(Own(s, k)) \in 1..Cardinality(Own(s, n))
<1>1. k \in 1..n /\ k \in Nat /\ k \in Own(s, k)
  BY DEF Own
<1>2. Own(s, k) \subseteq Own(s, n)
  BY <1>1 DEF Own
<1>3. IsFiniteSet(Own(s, n)) /\ Cardinality(Own(s, n)) \in Nat
  BY OwnFinite
<1>4. IsFiniteSet(Own(s, k)) /\ Cardinality(Own(s, k)) \in Nat
  BY <1>1, OwnFinite
<1>5. Cardinality(Own(s, k)) <= Cardinality(Own(s, n))
  BY <1>2, <1>3, FS_Subset
<1>6. Cardinality(Own(s, k)) # 0
  BY <1>1, <1>4, FS_EmptySet
<1>7. QED
  BY <1>1, <1>3, <1>4, <1>5, <1>6

\* The places of the first n edges stay when the edges do.
LEMMA OwnStays ==
    ASSUME NEW s, NEW n \in Nat, superPartitions' = superPartitions,
           \A k \in 1..n : efile'[k] = efile[k]
    PROVE  Own(s, n)' = Own(s, n)
BY DEF Own, SuperOf

\* The elements of the sequences are finitely many.
LEMMA PairsFinite ==
    ASSUME superPartitions \in Nat, NEW len \in [Supers -> Nat]
    PROVE  IsFiniteSet(Pairs(len)) /\ Cardinality(Pairs(len)) \in Nat
<1> DEFINE sets == {{s} \X (1..len[s]) : s \in Supers}
<1>1. IsFiniteSet(Supers)
  BY FS_Interval
<1>2. IsFiniteSet(sets)
  <2> DEFINE set == [s \in Supers |-> {s} \X (1..len[s])]
  <2>1. set \in [Supers -> sets] /\ \A T \in sets : \E s \in Supers : set[s] = T
    OBVIOUS
  <2>2. set \in Surjection(Supers, sets)
    BY <2>1 DEF Surjection
  <2>3. QED
    BY <1>1, <2>2, FS_Surjection
<1>3. \A T \in sets : IsFiniteSet(T)
  <2>1. ASSUME NEW s \in Supers PROVE IsFiniteSet({s} \X (1..len[s]))
    <3>1. IsFiniteSet({s}) /\ IsFiniteSet(1..len[s])
      <4>1. len[s] \in Int /\ 1 \in Int
        OBVIOUS
      <4>2. QED
        BY <4>1, FS_Singleton, FS_Interval
    <3>2. QED
      BY <3>1, FS_Product
  <2>2. QED
    BY <2>1
<1> HIDE DEF sets
<1>4. IsFiniteSet(UNION sets)
  BY <1>2, <1>3, FS_UNION
<1>5. QED
  BY <1>4, FS_CardinalityType DEF Pairs, sets

\* One sequence grows by an element.
LEMMA PairsGrow ==
    ASSUME superPartitions \in Nat, NEW s \in Supers,
           NEW len \in [Supers -> Nat], NEW len2 \in [Supers -> Nat],
           len2[s] = len[s] + 1, \A r \in Supers : r # s => len2[r] = len[r]
    PROVE  Cardinality(Pairs(len2)) = Cardinality(Pairs(len)) + 1
<1> DEFINE one == <<s, len[s] + 1>>
<1>1. one \notin Pairs(len)
  BY DEF Pairs
<1>2. Pairs(len2) = Pairs(len) \cup {one}
  <2>1. ASSUME NEW x \in Pairs(len2) PROVE x \in Pairs(len) \cup {one}
    <3>1. PICK r \in Supers : x \in {r} \X (1..len2[r])
      BY DEF Pairs
    <3>2. PICK i \in 1..len2[r] : x = <<r, i>>
      BY <3>1
    <3>3. CASE r = s /\ i = len[s] + 1
      BY <3>2, <3>3
    <3>4. CASE ~(r = s /\ i = len[s] + 1)
      <4>1. i \in 1..len[r]
        BY <3>1, <3>2, <3>4
      <4>2. x \in {r} \X (1..len[r])
        BY <3>2, <4>1
      <4>3. QED
        BY <3>1, <4>2 DEF Pairs
    <3>5. QED
      BY <3>3, <3>4
  <2>2. ASSUME NEW x \in Pairs(len) PROVE x \in Pairs(len2)
    <3>1. PICK r \in Supers : x \in {r} \X (1..len[r])
      BY DEF Pairs
    <3>2. PICK i \in 1..len[r] : x = <<r, i>>
      BY <3>1
    <3>3. i \in 1..len2[r]
      BY <3>1, <3>2
    <3>4. x \in {r} \X (1..len2[r])
      BY <3>2, <3>3
    <3>5. QED
      BY <3>1, <3>4 DEF Pairs
  <2>3. one \in Pairs(len2)
    <3>1. one \in {s} \X (1..len2[s])
      OBVIOUS
    <3>2. QED
      BY <3>1 DEF Pairs
  <2>4. QED
    BY <2>1, <2>2, <2>3
<1> HIDE DEF one
<1>3. IsFiniteSet(Pairs(len))
  BY PairsFinite
<1>4. QED
  BY <1>1, <1>2, <1>3, FS_AddElement

\* Empty sequences have no elements.
LEMMA PairsEmpty ==
    ASSUME NEW len, \A s \in Supers : len[s] = 0
    PROVE  Cardinality(Pairs(len)) = 0
<1>1. \A s \in Supers : {s} \X (1..len[s]) = {}
  OBVIOUS
<1>2. Pairs(len) = {}
  BY <1>1 DEF Pairs
<1>3. QED
  BY <1>2, FS_EmptySet

\* The edges in the edge files are counted by their lengths.
LEMMA DistributedIs ==
    ASSUME superPartitions \in Nat, part \in [Supers -> Seq(Sources)]
    PROVE  /\ Distributed = Cardinality(Pairs([s \in Supers |-> Len(part[s])]))
           /\ Distributed \in Nat
<1> DEFINE len == [s \in Supers |-> Len(part[s])]
<1>1. \A s \in Supers : DOMAIN part[s] = 1..Len(part[s]) /\ Len(part[s]) \in Nat
  OBVIOUS
<1>2. len \in [Supers -> Nat] /\ \A s \in Supers : DOMAIN part[s] = 1..len[s]
  BY <1>1
<1> HIDE DEF len
<1>3. Distributed = Cardinality(Pairs(len))
  <2>1. {{s} \X DOMAIN part[s] : s \in Supers} = {{s} \X (1..len[s]) : s \in Supers}
    BY <1>2
  <2>2. QED
    BY <2>1 DEF Distributed, Pairs
<1>4. Cardinality(Pairs(len)) \in Nat
  BY <1>2, PairsFinite
<1>5. QED
  BY <1>3, <1>4 DEF len

-----------------------------------------------------------------------------
(* Initialisation and the steps that keep the files or the run *)

\* The invariant of the other section, of the parts that are used here.
LEMMA Typed ==
    ASSUME IInv
    PROVE  /\ superPartitions \in Nat \ {0} /\ superPartitions \in Nat /\ 0 \in Supers
           /\ superPartitions # 1 => superPartitions > 1
           /\ efile \in Seq(Edges) /\ Len(efile) \in Nat /\ DOMAIN efile = 1..Len(efile)
           /\ part \in [Supers -> Seq(Sources)] /\ bf \in [Supers -> Seq(Rows)]
           /\ bufs \in [Supers -> Seq(Sources)]
           /\ \A s \in Supers : Len(bufs[s]) \in Nat /\ Len(bufs[s]) < EdgesPerBuf
           /\ \A s \in Supers : Len(part[s]) \in Nat /\ Len(bf[s]) \in Nat
           /\ epos \in [Supers -> Nat] /\ bpos \in [Supers -> Nat]
           /\ Distributed \in Nat
<1>1. superPartitions \in Nat \ {0} /\ superPartitions \in Nat
  BY DEF IInv, TypeInv
<1>2. 0 \in Supers /\ (superPartitions # 1 => superPartitions > 1)
  BY <1>1
<1>3. /\ efile \in Seq(Edges) /\ part \in [Supers -> Seq(Sources)] /\ bf \in [Supers -> Seq(Rows)]
      /\ bufs \in [Supers -> Seq(Sources)] /\ \A s \in Supers : Len(bufs[s]) < EdgesPerBuf
      /\ epos \in [Supers -> Nat] /\ bpos \in [Supers -> Nat]
  BY DEF IInv, TypeInv
<1>4. Len(efile) \in Nat /\ DOMAIN efile = 1..Len(efile)
  BY <1>3
<1>5. \A s \in Supers : Len(bufs[s]) \in Nat
  BY <1>3
<1>6. \A s \in Supers : Len(part[s]) \in Nat /\ Len(bf[s]) \in Nat
  BY <1>3
<1>7. Distributed \in Nat
  BY <1>1, <1>3, DistributedIs
<1>8. QED
  BY <1>1, <1>2, <1>3, <1>4, <1>5, <1>6, <1>7

\* At first there are no index files.
LEMMA InitExact ==
    Init => ExactUnlessHarmed
<1> SUFFICES ASSUME Init PROVE ExactUnlessHarmed
  OBVIOUS
<1>1. IInv
  BY InitInv
<1>2. BoundsInv
  BY SizesAssumption DEF Init, BoundsInv
<1>3. VerifyAccepts /\ GraphExact /\ GraphRunExact /\ SplitExact /\ SplitRunExact
  BY DEF Init, VerifyAccepts, GraphExact, GraphRunExact, SplitExact, SplitRunExact
<1>4. SplitIndexed
  BY EmptyIndex DEF Init, SplitIndexed
<1>5. QED
  BY <1>1, <1>2, <1>3, <1>4 DEF ExactUnlessHarmed, ExactInv

\* The edges of s are the same when the files and the graph are.
LEMMA OwnEdgesStay ==
    ASSUME UNCHANGED <<superPartitions, efile, part>>, NEW s, NEW n, IsOwnEdges(part[s], s, n)
    PROVE  IsOwnEdges(part[s], s, n)'
<1>1. \A m : Own(s, m)' = Own(s, m)
  BY DEF Own, SuperOf
<1>2. QED
  BY <1>1 DEF IsOwnEdges

\* The invariants of the files are kept when the files and the graph are.
LEMMA FilesStay ==
    ASSUME UNCHANGED <<superPartitions, efile, part, bf, mode, fresh>>
    PROVE  /\ Distributed' = Distributed /\ (Undeleted' <=> Undeleted) /\ (Building' <=> Building)
           /\ GraphExact => GraphExact'
           /\ SplitIndexed => SplitIndexed'
           /\ (SplitExact /\ ~(pc = "distribute" /\ Building)) => SplitExact'
<1>1. Distributed' = Distributed /\ (Undeleted' <=> Undeleted) /\ (Building' <=> Building)
  BY DEF Distributed, Undeleted, Building
<1>2. GraphExact => GraphExact'
  BY <1>1 DEF GraphExact
<1>3. SplitIndexed => SplitIndexed'
  BY DEF SplitIndexed
<1>4. ASSUME SplitExact, ~(pc = "distribute" /\ Building) PROVE SplitExact'
  <2> SUFFICES ASSUME superPartitions # 1, mode # "none", Undeleted
               PROVE  \E n \in 0..Len(efile) :
                         /\ n = Distributed /\ (fresh => n = Len(efile))
                         /\ \A s \in Supers : IsOwnEdges(part[s], s, n)'
    BY <1>1 DEF SplitExact
  <2>1. PICK n \in 0..Len(efile) :
           /\ n = Distributed /\ (fresh => n = Len(efile))
           /\ \A s \in Supers : IsOwnEdges(part[s], s, n)
    BY <1>4 DEF SplitExact
  <2>2. QED
    BY <2>1, OwnEdgesStay
<1>5. QED
  BY <1>1, <1>2, <1>3, <1>4

\* An assertion that does not fail in vain.
LEMMA AcceptsStays ==
    ASSUME fresh' = fresh, Undeleted' <=> Undeleted,
           (fresh /\ Undeleted) => fatal' \notin {"verify", "size"}
    PROVE  VerifyAccepts'
BY DEF VerifyAccepts

\* The process dies: what a build of edge files has written by then must not count.
LEMMA DiesExact ==
    ASSUME EInv, Dies, harm' = "none",
           (fresh /\ Undeleted) => fatal' \notin {"verify", "size"}
    PROVE  ExactInv'
<1>1. /\ pc' = "idle" /\ ~(superPartitions > 1 /\ Building /\ pc = "distribute")
      /\ UNCHANGED <<superPartitions, efile, part, bf, mode, fresh>>
  BY DEF Dies
<1>2. (Undeleted' <=> Undeleted)
  BY <1>1, FilesStay
<1>3. VerifyAccepts'
  BY <1>1, <1>2, AcceptsStays
<1>4. GraphExact' /\ SplitIndexed'
  BY <1>1, FilesStay DEF EInv, ExactInv
<1>5. SplitExact'
  <2>1. CASE superPartitions = 1
    BY <1>1, <2>1 DEF SplitExact
  <2>2. CASE superPartitions # 1
    BY <1>1, <2>2, FilesStay, Typed DEF EInv, ExactInv
  <2>3. QED
    BY <2>1, <2>2
<1>6. GraphRunExact' /\ SplitRunExact'
  BY <1>1 DEF GraphRunExact, SplitRunExact
<1>7. QED
  BY <1>3, <1>4, <1>5, <1>6 DEF ExactInv

\* An assertion fails.
LEMMA AbortExact ==
    ASSUME EInv, NEW assertion, Abort(assertion), harm' = "none",
           (fresh /\ Undeleted) => assertion \notin {"verify", "size"}
    PROVE  ExactInv'
BY DiesExact DEF Abort

\* A run is killed.
LEMMA KillExact ==
    ASSUME EInv, Kill, harm' = "none"
    PROVE  ExactInv'
<1>1. (fresh /\ Undeleted) => fatal' \notin {"verify", "size"}
  BY DEF Kill, EInv, ExactInv, VerifyAccepts
<1>2. QED
  BY <1>1, DiesExact DEF Kill

\* Creating empties the files.
LEMMA CreateExact ==
    ASSUME IInv, Start("create")
    PROVE  ExactInv'
<1>1. /\ mode' = "create" /\ pc' = "check" /\ fatal' = "no" /\ fresh' = FALSE
      /\ part' = [s \in Supers |-> <<>>] /\ bf' = [s \in Supers |-> <<>>]
      /\ UNCHANGED <<superPartitions, efile>>
  BY DEF Start
<1>2. VerifyAccepts' /\ GraphRunExact' /\ SplitRunExact'
  BY <1>1 DEF VerifyAccepts, GraphRunExact, SplitRunExact
<1>3. GraphExact'
  <2> SUFFICES ASSUME superPartitions = 1 PROVE GraphExact'
    BY <1>1 DEF GraphExact
  <2>1. bf'[0] = <<>>
    BY <1>1
  <2>2. 1..Len(bf'[0]) - 1 = {}
    BY <2>1, EmptyBuffers
  <2>3. QED
    BY <1>1, <2>2 DEF GraphExact
<1>4. SplitIndexed'
  BY <1>1, EmptyIndex DEF SplitIndexed
<1>5. SplitExact'
  <2>1. Distributed' = 0
    <3>1. \A s \in Supers : {s} \X DOMAIN part'[s] = {}
      BY <1>1, EmptyBuffers
    <3>2. (UNION {{s} \X DOMAIN part[s] : s \in Supers})' = {}
      BY <1>1, <3>1
    <3>3. QED
      BY <3>2, FS_EmptySet DEF Distributed
  <2>2. ASSUME NEW s \in Supers PROVE IsOwnEdges(part[s], s, 0)'
    <3>1. part'[s] = <<>> /\ Len(part'[s]) = 0
      BY <1>1, EmptyBuffers
    <3>2. Own(s, 0)' = {}
      BY DEF Own
    <3>3. Cardinality(Own(s, 0)') = 0
      BY <3>2, FS_EmptySet
    <3>4. QED
      BY <3>1, <3>2, <3>3 DEF IsOwnEdges
  <2>3. 0 \in 0..Len(efile)
    BY Typed
  <2>4. QED
    BY <1>1, <2>1, <2>2, <2>3 DEF SplitExact
<1>6. QED
  BY <1>2, <1>3, <1>4, <1>5 DEF ExactInv

\* Another run starts.
LEMMA StartExact ==
    ASSUME EInv, NEW m \in {"update", "verify", "use"}, Start(m)
    PROVE  ExactInv'
<1>1. /\ pc = "idle" /\ mode # "none" /\ mode' = m /\ pc' = "check"
      /\ fatal' = "no" /\ (fresh' => fresh)
      /\ UNCHANGED <<superPartitions, efile, part, bf>>
  BY DEF Start
<1>2. VerifyAccepts' /\ GraphRunExact' /\ SplitRunExact'
  BY <1>1 DEF VerifyAccepts, GraphRunExact, SplitRunExact
<1>3. Distributed' = Distributed /\ (Undeleted' <=> Undeleted)
  BY <1>1 DEF Distributed, Undeleted
<1>4. GraphExact'
  BY <1>1, <1>3 DEF EInv, ExactInv, GraphExact
<1>5. SplitIndexed'
  BY <1>1 DEF EInv, ExactInv, SplitIndexed
<1>6. SplitExact'
  <2> SUFFICES ASSUME superPartitions # 1, Undeleted
               PROVE  \E n \in 0..Len(efile) :
                       /\ n = Distributed /\ (fresh => n = Len(efile))
                       /\ \A s \in Supers : IsOwnEdges(part[s], s, n)'
    BY <1>1, <1>3 DEF SplitExact
  <2>1. PICK n \in 0..Len(efile) :
           /\ n = Distributed /\ (fresh => n = Len(efile))
           /\ \A s \in Supers : IsOwnEdges(part[s], s, n)
    BY <1>1 DEF EInv, ExactInv, SplitExact
  <2>2. QED
    BY <1>1, <2>1, OwnEdgesStay
<1>7. QED
  BY <1>2, <1>4, <1>5, <1>6 DEF ExactInv

\* The sizes agree when the index is that of the graph as it is.
LEMMA SizesOfWhole ==
    ASSUME EInv, fresh, Undeleted, pc = "check"
    PROVE  SizesAgree
<1>1. mode # "none" /\ ~Building /\ mode # "update" /\ pc # "distribute"
  BY DEF EInv, IInv, ModeInv, Building
<1>2. CASE superPartitions = 1
  <2>1. bf[0] = Index(efile) /\ efile \in Seq(Edges)
    BY <1>1, <1>2, Typed DEF EInv, ExactInv, GraphExact
  <2>2. Len(bf[0]) = Groups(efile)
    BY <2>1, IndexOf
  <2>3. QED
    BY <1>1, <1>2, <2>2 DEF SizesAgree
<1>3. CASE superPartitions # 1
  <2>1. Distributed = Len(efile)
    BY <1>1, <1>3 DEF EInv, ExactInv, SplitExact
  <2>2. ASSUME NEW s \in Supers PROVE Len(bf[s]) = Groups(part[s])
    <3>1. bf[s] = Index(part[s]) /\ part[s] \in Seq(Sources)
      BY <1>3, Typed DEF EInv, ExactInv, SplitIndexed
    <3>2. QED
      BY <3>1, IndexOf
  <2>3. QED
    BY <1>1, <1>3, <2>1, <2>2 DEF SizesAgree
<1>4. QED
  BY <1>2, <1>3

\* The first edge of a run is one of the graph or the end of it.
LEMMA StartEdgeIsNat ==
    ASSUME IInv
    PROVE  StartEdge \in Nat
<1>1. CASE mode # "update"
  BY <1>1 DEF StartEdge
<1>2. CASE mode = "update" /\ superPartitions = 1
  <2>1. Len(bf[0]) \in Nat /\ EdgesPerBuf \in Nat \ {0}
    BY <1>2, Typed, Sizes
  <2>2. CASE Len(bf[0]) = 0
    <3>1. (Len(bf[0]) - 1) * EdgesPerBuf = -EdgesPerBuf
      BY <2>1, <2>2
    <3>2. -EdgesPerBuf + Wrap \in Nat
      BY <2>1, SizesAssumption, WrapAssumption
    <3>3. QED
      BY <1>2, <2>1, <3>1, <3>2 DEF StartEdge, Unsigned
  <2>3. CASE Len(bf[0]) # 0
    <3>1. (Len(bf[0]) - 1) * EdgesPerBuf \in Nat
      BY <2>1, <2>3
    <3>2. QED
      BY <1>2, <3>1 DEF StartEdge, Unsigned
  <2>4. QED
    BY <2>2, <2>3
<1>3. CASE mode = "update" /\ superPartitions # 1
  BY <1>3, Typed DEF StartEdge
<1>4. QED
  BY <1>1, <1>2, <1>3

\* The sizes are compared and the first edge is chosen.
LEMMA SanityCheckExact ==
    ASSUME EInv, SanityCheck, harm' = "none"
    PROVE  ExactInv'
<1>1. CASE ~SizesAgree
  <2>1. Abort("size") /\ pc = "check"
    BY <1>1 DEF SanityCheck
  <2>2. ~(fresh /\ Undeleted)
    BY <1>1, <2>1, SizesOfWhole
  <2>3. QED
    BY <2>1, <2>2, AbortExact
<1>2. CASE SizesAgree
  <2>1. /\ pc = "check" /\ pos' = StartEdge /\ pc' \in {"query", "seek"}
        /\ UNCHANGED <<superPartitions, efile, part, bf, mode, fatal, fresh, deleted>>
    BY <1>2 DEF SanityCheck, files
  <2>3. /\ (Undeleted' <=> Undeleted)
        /\ GraphExact' /\ SplitIndexed' /\ SplitExact'
    BY <2>1, FilesStay DEF EInv, ExactInv
  <2>4. VerifyAccepts'
    <3>1. fatal' = "no"
      BY <2>1 DEF EInv, IInv, ModeInv
    <3>2. QED
      BY <3>1 DEF VerifyAccepts
  <2>5. GraphRunExact' /\ SplitRunExact'
    BY <2>1 DEF GraphRunExact, SplitRunExact
  <2>6. QED
    BY <2>3, <2>4, <2>5 DEF ExactInv
<1>3. QED
  BY <1>1, <1>2

\* The run is over.
LEMMA EndExact ==
    ASSUME EInv, End
    PROVE  ExactInv'
<1>1. /\ pc = "query" /\ pc' = "idle"
      /\ UNCHANGED <<superPartitions, efile, part, bf, mode, pos, fatal, fresh, deleted>>
  BY DEF End, files
<1>3. (Undeleted' <=> Undeleted) /\ GraphExact' /\ SplitIndexed' /\ SplitExact'
  BY <1>1, FilesStay DEF EInv, ExactInv
<1>4. VerifyAccepts'
  BY <1>1, <1>3 DEF EInv, ExactInv, VerifyAccepts
<1>5. GraphRunExact' /\ SplitRunExact'
  BY <1>1 DEF GraphRunExact, SplitRunExact
<1>6. QED
  BY <1>3, <1>4, <1>5 DEF ExactInv

\* An edge comes behind those that are in the files.
LEMMA AddEdgeExact ==
    ASSUME EInv, AddEdge
    PROVE  ExactInv'
<1>1. PICK v \in Sources : efile' = Append(efile, v)
  BY DEF AddEdge
<1>2. /\ pc = "idle" /\ fresh' = FALSE
      /\ UNCHANGED <<superPartitions, part, bf, pc, mode, pos, fatal, deleted>>
  BY DEF AddEdge
<1>3. /\ efile \in Seq(Edges) /\ Len(efile) \in Nat /\ efile' \in Seq(Edges) /\ DOMAIN efile = 1..Len(efile)
      /\ DOMAIN efile' = 1..Len(efile') /\ Len(efile') = Len(efile) + 1
      /\ \A k \in 1..Len(efile) : efile'[k] = efile[k]
  <2>1. v \in Edges /\ efile \in Seq(Edges)
    BY Typed DEF EInv, Edges
  <2>2. QED
    BY <1>1, <2>1, AppendProperties
<1>4. Undeleted' => Undeleted
  <2>1. \A k \in 1..Len(efile) : k \in 1..Len(efile')
    BY <1>3
  <2>2. QED
    BY <1>3, <2>1 DEF Undeleted
<1>6. VerifyAccepts' /\ GraphRunExact' /\ SplitRunExact'
  BY <1>2 DEF VerifyAccepts, GraphRunExact, SplitRunExact
<1>7. SplitIndexed'
  BY <1>2 DEF EInv, ExactInv, SplitIndexed
<1>8. GraphExact'
  <2> SUFFICES ASSUME superPartitions = 1, mode # "none", Undeleted, NEW g \in 1..Len(bf[0]) - 1
               PROVE  bf[0][g] = Index(efile')[g]
    BY <1>2, <1>4 DEF GraphExact
  <2>1. bf[0][g] = Index(efile)[g]
    BY DEF EInv, ExactInv, GraphExact
  <2> DEFINE at == (g - 1) * EdgesPerBuf
  <2>2. Len(bf[0]) \in Nat /\ EdgesPerBuf \in Nat \ {0} /\ g \in Nat /\ g >= 1 /\ g <= Len(bf[0]) - 1
    BY Sizes, Typed DEF EInv
  <2>3. bf[0] # <<>>
    BY <2>2, EmptyBuffers
  <2>4. (Len(bf[0]) - 1) * EdgesPerBuf < Len(efile)
    BY <2>3 DEF EInv, IInv, GraphInv
  <2>5. at \in Nat /\ at + EdgesPerBuf <= Len(efile)
    <3>1. PICK d \in Nat : Len(bf[0]) - 1 = g + d
      <4>1. Len(bf[0]) - 1 - g \in Nat /\ Len(bf[0]) - 1 = g + (Len(bf[0]) - 1 - g)
        BY <2>2
      <4>2. QED
        BY <4>1
    <3>2. (g + d) * EdgesPerBuf = at + EdgesPerBuf + d * EdgesPerBuf
      BY <2>2, <3>1
    <3>3. at \in Nat /\ d * EdgesPerBuf \in Nat
      BY <2>2, <3>1
    <3>4. QED
      BY <1>3, <2>2, <2>4, <3>1, <3>2, <3>3
  <2>6. at = (g - 1) * EdgesPerBuf /\ g - 1 \in Nat /\ (g - 1) + 1 = g
    BY <2>2
  <2> HIDE DEF at
  <2>7. at + EdgesPerBuf <= Len(efile')
    BY <1>3, <2>2, <2>5
  <2>8. \A i \in 1..at + EdgesPerBuf : efile[i] = efile'[i]
    BY <1>3, <2>2, <2>5
  <2>9. Index(efile)[(g - 1) + 1] = Index(efile')[(g - 1) + 1]
    BY <1>3, <2>5, <2>6, <2>7, <2>8, SameRow
  <2>10. QED
    BY <2>1, <2>6, <2>9
<1>9. SplitExact'
  <2> SUFFICES ASSUME superPartitions # 1, mode # "none", Undeleted
               PROVE  \E n \in 0..Len(efile') :
                         /\ n = Distributed' /\ \A s \in Supers : IsOwnEdges(part[s], s, n)'
    BY <1>2, <1>4 DEF SplitExact
  <2>1. PICK n \in 0..Len(efile) : n = Distributed /\ \A s \in Supers : IsOwnEdges(part[s], s, n)
    BY <1>2 DEF EInv, ExactInv, SplitExact
  <2>2. Distributed' = Distributed /\ n \in 0..Len(efile') /\ n \in Nat
    BY <1>2, <1>3 DEF Distributed
  <2>3. ASSUME NEW s \in Supers PROVE IsOwnEdges(part[s], s, n)'
    <3>1. ASSUME NEW m \in Nat, m <= n PROVE Own(s, m)' = Own(s, m)
      <4>1. \A k \in 1..m : efile'[k] = efile[k]
        BY <1>3, <2>2, <3>1
      <4>2. QED
        BY <1>2, <4>1, OwnStays
    <3>2. Own(s, n)' = Own(s, n)
      BY <2>2, <3>1
    <3>3. IsOwnEdges(part[s], s, n)
      BY <2>1
    <3>4. ASSUME NEW k \in Own(s, n) PROVE part[s][Cardinality(Own(s, k)')] = efile'[k]
      <4>1. k \in 1..n /\ k \in Nat /\ k <= n /\ k \in 1..Len(efile)
        BY <2>2, RankOfOwn
      <4>2. Own(s, k)' = Own(s, k) /\ efile'[k] = efile[k]
        BY <1>3, <3>1, <4>1
      <4>3. QED
        BY <3>3, <4>2 DEF IsOwnEdges
    <3>5. QED
      BY <1>2, <3>2, <3>3, <3>4 DEF IsOwnEdges
  <2>4. QED
    BY <2>1, <2>2, <2>3
<1>10. QED
  BY <1>6, <1>7, <1>8, <1>9 DEF ExactInv

\* Nothing is said of a graph with deleted edges.
LEMMA DeleteExact ==
    ASSUME EInv, Delete
    PROVE  ExactInv'
<1>1. PICK j \in DOMAIN efile : efile' = [efile EXCEPT ![j] = TOMBSTONE]
  BY DEF Delete
<1>2. /\ pc = "idle"
      /\ UNCHANGED <<superPartitions, part, bf, pc, mode, pos, fatal, fresh>>
  BY DEF Delete
<1>3. ~Undeleted'
  <2>1. efile \in Seq(Edges) /\ TOMBSTONE \in Edges
    BY Typed DEF EInv, Edges
  <2>2. efile' \in Seq(Edges) /\ Len(efile') = Len(efile) /\ efile'[j] = TOMBSTONE
    BY <1>1, <2>1, ExceptSeq
  <2>3. j \in DOMAIN efile'
    BY <1>1, <2>1, <2>2
  <2>4. QED
    BY <2>2, <2>3 DEF Undeleted
<1>5. VerifyAccepts' /\ GraphExact' /\ GraphRunExact' /\ SplitExact' /\ SplitRunExact'
  BY <1>3 DEF VerifyAccepts, GraphExact, GraphRunExact, SplitExact, SplitRunExact
<1>6. SplitIndexed'
  BY <1>2 DEF EInv, ExactInv, SplitIndexed
<1>7. QED
  BY <1>5, <1>6 DEF ExactInv

\* Nothing is said of the files until they are created again.
LEMMA PurgeExact ==
    ASSUME EInv, Purge
    PROVE  ExactInv'
<1>1. /\ pc = "idle" /\ mode' = "none" /\ fresh' = FALSE
      /\ UNCHANGED <<superPartitions, part, bf, pc>>
  BY DEF Purge
<1>2. VerifyAccepts' /\ GraphExact' /\ GraphRunExact' /\ SplitExact' /\ SplitRunExact'
  BY <1>1 DEF VerifyAccepts, GraphExact, GraphRunExact, SplitExact, SplitRunExact
<1>3. SplitIndexed'
  BY <1>1 DEF EInv, ExactInv, SplitIndexed
<1>4. QED
  BY <1>2, <1>3 DEF ExactInv

-----------------------------------------------------------------------------
(* The steps of edge_distribution *)

\* What is held does not depend on the run.
LEMMA HeldStays ==
    ASSUME UNCHANGED <<superPartitions, efile, mode>>,
           NEW edges, NEW at, NEW buf, NEW s, NEW n, Held(edges, at, buf, s, n)
    PROVE  Held(edges, at, buf, s, n)'
<1>1. \A m : Own(s, m)' = Own(s, m)
  BY DEF Own, SuperOf
<1>2. Building' <=> Building
  BY DEF Building
<1>3. QED
  BY <1>1, <1>2 DEF Held

\* A run that distributes edges starts.
LEMMA SeekExact ==
    ASSUME EInv, Seek, harm' = "none"
    PROVE  ExactInv'
<1>1. CASE ReadBackFails
  BY <1>1, AbortExact DEF Seek
<1>2. CASE ~ReadBackFails
  <2>1. /\ pc = "seek" /\ pc' = "distribute"
        /\ bufs' = [s \in Supers |-> SubSeq(part[s], Had(s) - Rest(s) + 1, Had(s))]
        /\ epos' = [s \in Supers |-> Had(s) - Rest(s)]
        /\ bpos' = [s \in Supers |-> FirstGroup(s)]
        /\ UNCHANGED <<superPartitions, efile, part, bf, mode, pos, fatal, fresh, deleted>>
    BY <1>2 DEF Seek, files
  <2>2. /\ mode # "none" /\ fatal = "no" /\ (fresh => ~Building) /\ pos = StartEdge
        /\ IInv /\ IInv' /\ harm = "none" /\ EdgesPerBuf \in Nat \ {0}
    BY <2>1, SeekInv, Sizes DEF EInv, IInv, ModeInv
  <2>4. VerifyAccepts'
    BY <2>1, <2>2 DEF VerifyAccepts
  <2>5. (Undeleted' <=> Undeleted) /\ (Building' <=> Building) /\ GraphExact' /\ SplitIndexed'
    BY <2>1, FilesStay DEF EInv, ExactInv
  <2>6. SplitExact'
    BY <2>1, FilesStay DEF EInv, ExactInv
  <2>7. ASSUME NEW s \in Supers
        PROVE  /\ Had(s) \in Nat /\ Had(s) <= Len(part[s]) /\ Rest(s) \in 0..EdgesPerBuf - 1
               /\ Rest(s) <= Had(s) /\ Len(bufs'[s]) = Rest(s)
               /\ \A i \in 1..Rest(s) : bufs'[s][i] = part[s][Had(s) - Rest(s) + i]
    <3>1. part[s] \in Seq(Sources) /\ Len(part[s]) \in Nat
      BY <2>2, Typed
    <3>2. Had(s) \in Nat /\ Had(s) <= Len(part[s])
      BY <3>1 DEF Had
    <3> DEFINE q == Had(s) \div EdgesPerBuf
    <3>3. q \in Nat /\ Rest(s) \in 0..EdgesPerBuf - 1 /\ Had(s) = EdgesPerBuf * q + Rest(s)
      BY <2>2, <3>2, Division DEF Rest
    <3> HIDE DEF q
    <3>4. EdgesPerBuf * q \in Nat
      BY <2>2, <3>3
    <3>5. Rest(s) <= Had(s) /\ Rest(s) \in Nat
      BY <2>2, <3>2, <3>3, <3>4
    <3> DEFINE low == Had(s) - Rest(s) + 1
               high == Had(s)
    <3>6. /\ low \in Int /\ high \in Int /\ low >= 1 /\ high <= Len(part[s])
          /\ high - low + 1 = Rest(s) /\ (low <= high <=> Rest(s) # 0)
          /\ \A i \in 1..Rest(s) : low + i - 1 = Had(s) - Rest(s) + i
      BY <3>2, <3>5
    <3>7. bufs'[s] = SubSeq(part[s], low, high)
      BY <2>1
    <3> HIDE DEF low, high
    <3>8. \A i \in low..high : part[s][i] \in Sources
      <4>1. \A i \in low..high : i \in 1..Len(part[s])
        BY <3>1, <3>6
      <4>2. QED
        BY <3>1, <4>1, ElementOfSeq
    <3> DEFINE rest == SubSeq(part[s], low, high)
    <3>9. /\ Len(rest) = IF low <= high THEN high - low + 1 ELSE 0
          /\ \A i \in 1..high - low + 1 : rest[i] = part[s][low + i - 1]
      BY <3>6, <3>8, SubSeqProperties
    <3> HIDE DEF rest
    <3>10. Len(rest) = Rest(s) /\ \A i \in 1..Rest(s) : rest[i] = part[s][Had(s) - Rest(s) + i]
      BY <3>6, <3>9
    <3>11. bufs'[s] = rest
      BY <3>7 DEF rest
    <3>12. QED
      BY <3>2, <3>3, <3>5, <3>10, <3>11
  <2>8. GraphRunExact'
    <3> SUFFICES ASSUME superPartitions = 1, Undeleted PROVE GraphRunExact'
      BY <2>1, <2>5 DEF GraphRunExact
    <3>1. CASE Building
      <4> DEFINE g == bpos'[0]
                 base == g * EdgesPerBuf
      <4>1. GraphRunInv' /\ mode \in {"create", "update"}
        BY <2>2, <3>1 DEF IInv, Building
      <4>2. /\ Len(bf[0]) \in {g, g + 1} /\ pos \in 0..Len(efile)
            /\ \/ /\ pos = base + Len(bufs'[0])
                  /\ \A i \in 1..Len(bufs'[0]) : bufs'[0][i] = efile[base + i]
               \/ pos = Len(efile) /\ bufs'[0] = <<>> /\ Len(efile) <= base
        BY <2>1, <2>5, <3>1, <4>1 DEF GraphRunInv
      <4>3. g \in Nat /\ Len(bf[0]) \in Nat /\ 0 \in Supers /\ Len(efile) \in Nat
        <5>1. bpos'[0] \in Nat
          BY <2>1, <2>2, Typed DEF IInv, TypeInv
        <5>2. QED
          BY <2>2, <5>1, Typed
      <4>4. g <= Len(bf[0]) - 1 \/ g = 0
        <5>1. CASE mode = "create"
          <6>1. bf[0] = <<>>
            BY <2>1, <4>3, <5>1, <2>2 DEF IInv, ModeInv
          <6>2. Len(bf[0]) = 0
            BY <6>1, EmptyBuffers
          <6>3. QED
            BY <4>2, <4>3, <6>2
        <5>2. CASE mode = "update"
          <6>1. /\ bf[0] # <<>> /\ Len(bf[0]) - 1 \in Nat /\ pos = (Len(bf[0]) - 1) * EdgesPerBuf
            BY <2>1, <2>2, <5>2, StartOfGroup
          <6>2. pos < Len(efile)
            BY <2>2, <6>1 DEF IInv, GraphInv
          <6>3. Len(bf[0]) - 1 = pos \div EdgesPerBuf
            <7>1. 0 \in 0..EdgesPerBuf - 1 /\ pos = (Len(bf[0]) - 1) * EdgesPerBuf + 0 /\ pos \in Nat
              BY <2>2, <6>1, <4>2
            <7>2. QED
              BY <2>2, <6>1, <7>1, DivisionUnique
          <6>4. g = pos \div EdgesPerBuf
            BY <2>1, <4>3, <6>2 DEF FirstGroup
          <6>5. QED
            BY <4>3, <6>1, <6>3, <6>4
        <5>3. QED
          BY <4>1, <5>1, <5>2
      <4>5. \A h \in 1..g : bf[0][h] = Index(efile)[h]
        <5>1. \A h \in 1..g : h \in 1..Len(bf[0]) - 1
          BY <4>3, <4>4
        <5>2. QED
          BY <2>2, <5>1 DEF EInv, ExactInv, GraphExact
      <4>6. pos <= Len(efile)
        BY <4>2
      <4> HIDE DEF g
      <4>7. QED
        BY <2>1, <4>2, <4>5, <4>6 DEF GraphRunExact, g
    <3>2. CASE ~Building
      <4>1. pos = 0 /\ mode # "update" /\ 0 \in Supers
        BY <2>1, <2>2, <3>2, StartOfGroup, Typed DEF Building
      <4>2. 0 \div EdgesPerBuf = 0
        <5>1. 0 \in 0..EdgesPerBuf - 1 /\ 0 = 0 * EdgesPerBuf + 0
          BY <2>2
        <5>2. QED
          BY <2>2, <5>1, DivisionUnique
      <4>3. bpos'[0] = 0
        BY <2>1, <4>1, <4>2 DEF FirstGroup
      <4>4. Len(bufs'[0]) = 0
        <5>1. Rest(0) = 0
          BY <2>2 DEF Had, Rest
        <5>2. QED
          BY <2>7, <4>1, <5>1
      <4>5. 0 <= Len(efile) /\ 0 = 0 * EdgesPerBuf + 0 /\ 1..0 = {}
        BY <2>2, Typed
      <4>6. QED
        BY <2>1, <2>5, <3>2, <4>1, <4>3, <4>4, <4>5 DEF GraphRunExact
    <3>3. QED
      BY <3>1, <3>2
  <2>9. SplitRunExact'
    <3> SUFFICES ASSUME superPartitions # 1, Undeleted, Building \/ fresh
                 PROVE  SplitRunExact'
      BY <2>1, <2>5 DEF SplitRunExact
    <3>1. superPartitions > 1 /\ superPartitions \in Nat /\ part \in [Supers -> Seq(Sources)]
      BY <2>2, Typed
    <3>2. PICK m \in 0..Len(efile) :
             /\ m = Distributed /\ (fresh => m = Len(efile))
             /\ \A s \in Supers : IsOwnEdges(part[s], s, m)
      BY <2>1, <2>2 DEF EInv, ExactInv, SplitExact
    <3>0. PICK n : n = IF mode = "update" THEN m ELSE 0
      OBVIOUS
    <3>3. n = pos /\ n \in 0..Len(efile) /\ n \in Nat /\ m \in Nat
      <4>1. StartEdge = IF mode = "update" THEN Distributed ELSE 0
        BY <3>1 DEF StartEdge
      <4>2. Len(efile) \in Nat
        BY <2>2, Typed
      <4>3. QED
        BY <2>2, <3>0, <3>2, <4>1, <4>2
    <3>4. \A s \in Supers : (Passed(s))' = Had(s) /\ epos'[s] = Had(s) - Rest(s)
      <4>1. ASSUME NEW s \in Supers PROVE epos'[s] + Len(bufs'[s]) = Had(s) /\ epos'[s] = Had(s) - Rest(s)
        <5>1. epos'[s] = Had(s) - Rest(s)
          BY <2>1
        <5>2. QED
          BY <2>2, <2>7, <5>1
      <4>2. QED
        BY <4>1 DEF Passed
    <3>5. ASSUME NEW s \in Supers PROVE Had(s) = Cardinality(Own(s, n))
      <4>1. CASE mode = "update"
        BY <3>0, <3>1, <3>2, <4>1 DEF Had, IsOwnEdges
      <4>2. CASE mode # "update"
        BY <3>0, <4>2, OwnNone DEF Had
      <4>3. QED
        BY <4>1, <4>2
    <3>6. n = Cardinality(Pairs([s \in Supers |-> Had(s)]))
      <4>1. CASE mode = "update"
        <5>1. \A s \in Supers : Had(s) = Len(part[s])
          BY <3>1, <4>1 DEF Had
        <5>2. [s \in Supers |-> Had(s)] = [s \in Supers |-> Len(part[s])]
          BY <5>1
        <5>3. QED
          BY <3>0, <3>1, <3>2, <4>1, <5>2, DistributedIs
      <4>2. CASE mode # "update"
        <5>1. \A s \in Supers : [r \in Supers |-> Had(r)][s] = 0
          BY <4>2 DEF Had
        <5>2. QED
          BY <3>0, <4>2, <5>1, PairsEmpty
      <4>3. QED
        BY <4>1, <4>2
    <3>7. n = Cardinality(Pairs([s \in Supers |-> Passed(s)]))'
      <4>1. [s \in Supers |-> Had(s)] = [s \in Supers |-> Passed(s)]'
        BY <2>1, <3>4
      <4>2. Pairs([s \in Supers |-> Passed(s)])' = Pairs([s \in Supers |-> Had(s)])
        BY <2>1, <4>1 DEF Pairs
      <4>3. QED
        BY <3>6, <4>2
    <3>9. ASSUME NEW s \in Supers, Building, NEW k \in Own(s, n)
          PROVE  LET r == Cardinality(Own(s, k))
                 IN efile[k] = IF r <= epos'[s] THEN part[s][r] ELSE bufs'[s][r - epos'[s]]
      <4> DEFINE r == Cardinality(Own(s, k))
      <4>1. r \in 1..Had(s)
        BY <3>3, <3>5, RankOfOwn
      <4>2. mode = "update"
        BY <4>1 DEF Had
      <4>3. k \in Own(s, m)
        BY <3>0, <3>9, <4>2
      <4>4. part[s][r] = efile[k]
        BY <3>2, <4>3 DEF IsOwnEdges
      <4> HIDE DEF r
      <4>5. CASE r <= epos'[s]
        BY <4>4, <4>5 DEF r
      <4>6. CASE ~(r <= epos'[s])
        <5>1. r - epos'[s] \in 1..Rest(s) /\ Had(s) - Rest(s) + (r - epos'[s]) = r
          BY <2>2, <2>7, <3>4, <4>1, <4>6
        <5>2. bufs'[s][r - epos'[s]] = part[s][r]
          BY <2>7, <5>1
        <5>3. QED
          BY <4>4, <4>6, <5>2 DEF r
      <4>7. QED
        BY <4>5, <4>6
    <3>10. ASSUME NEW s \in Supers, ~Building
           PROVE  /\ epos'[s] = bpos'[s] * EdgesPerBuf
                  /\ 1..Len(bufs'[s]) = {}
      <4>1. Had(s) = 0 /\ mode # "update"
        BY <3>10 DEF Had, Building
      <4>2. Rest(s) = 0 /\ Len(bufs'[s]) = 0 /\ epos'[s] = 0
        BY <2>2, <2>7, <3>4, <4>1
      <4>3. 0 \div EdgesPerBuf = 0
        <5>1. 0 \in 0..EdgesPerBuf - 1 /\ 0 = 0 * EdgesPerBuf + 0
          BY <2>2
        <5>2. QED
          BY <2>2, <5>1, DivisionUnique
      <4>4. bpos'[s] = 0
        BY <2>1, <3>1, <4>1, <4>3 DEF FirstGroup
      <4>5. QED
        BY <2>2, <4>2, <4>4
    <3>11. ASSUME NEW s \in Supers
           PROVE  /\ Held(part[s], epos'[s], bufs'[s], s, n)
                  /\ (~Building /\ (MoreEdges' \/ bufs'[s] # <<>>)) => epos'[s] = bpos'[s] * EdgesPerBuf
      <4>1. epos'[s] + Len(bufs'[s]) = Cardinality(Own(s, n))
        BY <2>2, <2>7, <3>4, <3>5
      <4>2. QED
        BY <3>9, <3>10, <4>1 DEF Held
    <3>12. n \in 0..Len(efile') /\ n = pos'
      BY <2>1, <3>3
    <3>13. \A s \in Supers' : s \in Supers
      BY <2>1
    <3>14. QED
      BY <2>1, <2>5, <3>7, <3>11, <3>12, <3>13, HeldStays DEF SplitRunExact
  <2>10. QED
    BY <2>4, <2>5, <2>6, <2>8, <2>9 DEF ExactInv
<1>3. QED
  BY <1>1, <1>2

\* The next edge comes to the buffer of its super partition.
LEMMA HeldNext ==
    ASSUME NEW s, NEW n \in Nat, n + 1 \in 1..Len(efile), Len(efile) \in Nat,
           SuperOf(efile[n + 1]) = s,
           NEW edges, NEW at \in Nat, NEW buf \in Seq(Sources), NEW new,
           Len(new) = Len(buf) + 1, new[Len(buf) + 1] = efile[n + 1],
           \A i \in 1..Len(buf) : new[i] = buf[i],
           Held(edges, at, buf, s, n),
           ~Building => IsOwnEdges(edges, s, Len(efile))
    PROVE  Held(edges, at, new, s, n + 1)
<1> DEFINE m == Len(buf)
           c == Cardinality(Own(s, n))
<1>1. m \in Nat /\ c \in Nat /\ at + m = c
  BY OwnFinite DEF Held
<1>2. Own(s, n + 1) = Own(s, n) \cup {n + 1} /\ Cardinality(Own(s, n + 1)) = c + 1
  BY OwnNext
<1>3. Len(new) = m + 1 /\ new[m + 1] = efile[n + 1] /\ \A i \in 1..m : new[i] = buf[i]
  OBVIOUS
<1> HIDE DEF m, c
<1>4. at + Len(new) = Cardinality(Own(s, n + 1))
  BY <1>1, <1>2, <1>3
<1>5. ASSUME Building, NEW k \in Own(s, n + 1)
      PROVE  LET r == Cardinality(Own(s, k))
             IN efile[k] = IF r <= at THEN edges[r] ELSE new[r - at]
  <2>1. CASE k \in Own(s, n)
    <3> DEFINE r == Cardinality(Own(s, k))
    <3>1. r \in 1..c
      BY <2>1, RankOfOwn DEF c
    <3>2. efile[k] = IF r <= at THEN edges[r] ELSE buf[r - at]
      BY <1>5, <2>1 DEF Held
    <3> HIDE DEF r
    <3>3. CASE r <= at
      BY <3>2, <3>3 DEF r
    <3>4. CASE ~(r <= at)
      <4>1. r - at \in 1..m
        BY <1>1, <3>1, <3>4
      <4>2. QED
        BY <1>3, <3>2, <3>4, <4>1 DEF r
    <3>5. QED
      BY <3>3, <3>4
  <2>2. CASE k = n + 1
    <3> DEFINE r == Cardinality(Own(s, k))
    <3>1. r = c + 1
      BY <1>2, <2>2
    <3> HIDE DEF r
    <3>2. ~(r <= at) /\ r - at = m + 1
      BY <1>1, <3>1
    <3>3. QED
      BY <1>3, <2>2, <3>2 DEF r
  <2>3. QED
    BY <1>2, <1>5, <2>1, <2>2
<1>6. ASSUME ~Building, NEW i \in 1..Len(new)
      PROVE  new[i] = edges[at + i]
  <2>1. CASE i \in 1..m
    BY <1>3, <1>6, <2>1 DEF Held, m
  <2>2. CASE i = m + 1
    <3>1. n + 1 \in Own(s, Len(efile))
      BY DEF Own
    <3>2. edges[c + 1] = efile[n + 1]
      BY <1>2, <1>6, <3>1 DEF IsOwnEdges
    <3>3. at + i = c + 1
      BY <1>1, <2>2
    <3>4. QED
      BY <1>3, <2>2, <3>2, <3>3
  <2>3. QED
    BY <1>1, <1>3, <2>1, <2>2
<1>7. QED
  BY <1>4, <1>5, <1>6 DEF Held

\* Nothing comes to the other super partitions.
LEMMA HeldOther ==
    ASSUME NEW s, NEW n \in Nat, SuperOf(efile[n + 1]) # s,
           NEW edges, NEW at, NEW buf, Held(edges, at, buf, s, n)
    PROVE  Held(edges, at, buf, s, n + 1)
<1>1. Own(s, n + 1) = Own(s, n)
  BY OwnNext
<1>2. QED
  BY <1>1 DEF Held

\* The buffer is written to the file.
LEMMA HeldWritten ==
    ASSUME Building, NEW s, NEW n \in Nat, NEW old \in Seq(Sources), NEW at \in 0..Len(old),
           NEW new \in Seq(Sources), Len(old) <= at + Len(new), Held(old, at, new, s, n)
    PROVE  Held(Written(old, at, new), at + Len(new), <<>>, s, n)
<1> DEFINE whole == Written(old, at, new)
           end == at + Len(new)
<1>1. Len(new) \in Nat /\ Len(old) \in Nat /\ at \in Nat /\ Len(<<>>) = 0 /\ end \in Nat
  BY EmptyBuffers
<1>2. \A i \in 1..end : whole[i] = IF i <= at THEN old[i] ELSE new[i - at]
  <2>1. /\ Len(whole) = IF end <= Len(old) THEN Len(old) ELSE end
        /\ \A i \in 1..Len(whole) :
              whole[i] = IF i <= at THEN old[i] ELSE IF i <= end THEN new[i - at] ELSE old[i]
    BY WrittenAt
  <2> HIDE DEF whole, end
  <2>2. \A i \in 1..end : i \in 1..Len(whole) /\ i <= end
    BY <1>1, <2>1
  <2>3. QED
    BY <2>1, <2>2
<1>3. end = Cardinality(Own(s, n))
  BY DEF Held
<1> HIDE DEF whole, end
<1>4. ASSUME NEW k \in Own(s, n)
      PROVE  LET r == Cardinality(Own(s, k))
             IN r <= end /\ efile[k] = whole[r]
  <2> DEFINE r == Cardinality(Own(s, k))
  <2>1. r \in 1..end
    BY <1>3, RankOfOwn
  <2>2. efile[k] = IF r <= at THEN old[r] ELSE new[r - at]
    BY DEF Held
  <2> HIDE DEF r
  <2>3. whole[r] = IF r <= at THEN old[r] ELSE new[r - at]
    BY <1>2, <2>1
  <2>4. QED
    BY <1>1, <2>1, <2>2, <2>3 DEF r
<1>5. end + Len(<<>>) = end
  BY <1>1
<1>6. QED
  BY <1>3, <1>4, <1>5 DEF Held, whole, end

\* Verify goes on behind the buffer.
LEMMA HeldPassed ==
    ASSUME ~Building, NEW s, NEW n, NEW edges, NEW at \in Nat, NEW new \in Seq(Sources),
           Held(edges, at, new, s, n)
    PROVE  Held(edges, at + Len(new), <<>>, s, n)
<1>1. Len(<<>>) = 0 /\ Len(new) \in Nat
  BY EmptyBuffers
<1>2. at + Len(new) + Len(<<>>) = at + Len(new) /\ 1..Len(<<>>) = {}
  BY <1>1
<1>3. QED
  BY <1>2 DEF Held

\* A group of the graph as it is read
GraphHeld(new, n) ==
    /\ n \in 0..Len(efile) /\ n = bpos[0] * EdgesPerBuf + Len(new)
    /\ \A i \in 1..Len(new) : new[i] = efile[bpos[0] * EdgesPerBuf + i]

\* A group of a super partition as it is read, the others being as they are
SplitHeld(s, new, n) ==
    /\ n \in 0..Len(efile)
    /\ n = Cardinality(Pairs([r \in Supers |-> IF r = s THEN epos[s] + Len(new) ELSE Passed(r)]))
    /\ Held(part[s], epos[s], new, s, n)
    /\ \A r \in Supers \ {s} : Held(part[r], epos[r], bufs[r], r, n)

\* Verify finds what create and update wrote.
LEMMA MatchesExact ==
    ASSUME EInv, pc = "distribute", fresh, Undeleted, NEW s \in Supers,
           NEW new \in Seq(Sources), Len(new) \in 1..EdgesPerBuf, NEW n,
           MoreEdges \/ bufs[s] # <<>>,
           superPartitions = 1 => GraphHeld(new, n),
           superPartitions # 1 => SplitHeld(s, new, n),
           Len(new) = EdgesPerBuf \/ n = Len(efile)
    PROVE  Matches(s, new)
<1>1. mode # "none" /\ ~Building /\ EdgesPerBuf \in Nat \ {0}
  BY Sizes DEF EInv, IInv, ModeInv
<1>2. /\ efile \in Seq(Edges) /\ Len(efile) \in Nat /\ part[s] \in Seq(Sources) /\ Len(part[s]) \in Nat
      /\ bf[s] \in Seq(Rows) /\ bpos[s] \in Nat /\ epos[s] \in Nat /\ Len(new) \in Nat
  BY Typed DEF EInv
<1> DEFINE g == bpos[s]
           at == g * EdgesPerBuf
<1>3. at \in Nat
  BY <1>1, <1>2
<1>4. Group(new) \in Rows
  BY GroupIsRow
<1>5. CASE superPartitions = 1
  <2>1. s = 0 /\ bf[s] = Index(efile)
    BY <1>1, <1>5 DEF EInv, ExactInv, GraphExact
  <2>2. /\ n = at + Len(new) /\ n <= Len(efile)
        /\ \A i \in 1..Len(new) : new[i] = efile[at + i]
    BY <1>2, <1>5, <2>1 DEF GraphHeld
  <2>3. new \in Seq(Edges)
    <3>1. \A i \in 1..Len(new) : new[i] \in Edges
      BY ElementOfSeq DEF Edges
    <3>2. QED
      BY <3>1
  <2> HIDE DEF at, g
  <2>4. Len(new) = EdgesPerBuf \/ at + Len(new) = Len(efile)
    BY <2>2
  <2>5. g + 1 \in 1..Groups(efile) /\ Index(efile)[g + 1] = Group(new)
    BY <1>2, <1>3, <2>2, <2>3, <2>4, RowOfGroup DEF at, g
  <2>6. g + 1 \in 1..Len(bf[s])
    BY <1>2, <2>1, <2>5, IndexOf
  <2>7. Same(bf[s], g, <<Group(new)>>)
    BY <1>2, <1>4, <2>1, <2>5, <2>6, SameGroup DEF g
  <2>8. QED
    BY <1>5, <2>7 DEF Matches, g
<1>6. CASE superPartitions # 1
  <2>1. bf[s] = Index(part[s]) /\ IsOwnEdges(part[s], s, Len(efile))
    BY <1>1, <1>6 DEF EInv, ExactInv, SplitIndexed, SplitExact
  <2>2. epos[s] = at
    BY <1>1, <1>6 DEF EInv, ExactInv, SplitRunExact
  <2>3. n \in 0..Len(efile) /\ Held(part[s], epos[s], new, s, n)
    BY <1>6 DEF SplitHeld
  <2> HIDE DEF at, g
  <2>4. /\ at + Len(new) = Cardinality(Own(s, n)) /\ Len(part[s]) = Cardinality(Own(s, Len(efile)))
        /\ \A i \in 1..Len(new) : new[i] = part[s][at + i]
    BY <1>1, <2>1, <2>2, <2>3 DEF Held, IsOwnEdges
  <2>5. Cardinality(Own(s, n)) <= Cardinality(Own(s, Len(efile)))
    <3>1. Own(s, n) \subseteq Own(s, Len(efile))
      BY <1>2, <2>3 DEF Own
    <3>2. QED
      BY <1>2, <3>1, OwnFinite, FS_Subset
  <2>6. at + Len(new) <= Len(part[s]) /\ (Len(new) = EdgesPerBuf \/ at + Len(new) = Len(part[s]))
    BY <2>4, <2>5
  <2>7. g + 1 \in 1..Groups(part[s]) /\ Index(part[s])[g + 1] = Group(new)
    <3> DEFINE file == part[s]
    <3>1. /\ file \in Seq(Sources) /\ g \in Nat /\ at = g * EdgesPerBuf /\ at + Len(new) <= Len(file)
          /\ \A i \in 1..Len(new) : new[i] = file[at + i]
          /\ Len(new) = EdgesPerBuf \/ at + Len(new) = Len(file)
      BY <1>2, <2>4, <2>6 DEF at, g
    <3> HIDE DEF file
    <3>2. g + 1 \in 1..Groups(file) /\ Index(file)[g + 1] = Group(new)
      BY <3>1, RowOfGroup
    <3>3. QED
      BY <3>2 DEF file
  <2>8. g + 1 \in 1..Len(bf[s])
    BY <1>2, <2>1, <2>7, IndexOf
  <2>9. Same(bf[s], g, <<Group(new)>>)
    BY <1>2, <1>4, <2>1, <2>7, <2>8, SameGroup DEF g
  <2>10. Same(part[s], epos[s], new)
    BY <1>2, <1>3, <2>2, <2>4, <2>6, SameAt
  <2>11. QED
    BY <2>9, <2>10 DEF Matches, g
<1>7. QED
  BY <1>5, <1>6

\* A sequence of sources is one of edges.
LEMMA SourcesAreEdges ==
    ASSUME NEW new \in Seq(Sources)
    PROVE  new \in Seq(Edges)
<1>1. \A i \in 1..Len(new) : new[i] \in Edges
  BY ElementOfSeq DEF Edges
<1>2. QED
  BY <1>1

\* A group of the graph is written to its index file.
LEMMA GraphWritten ==
    ASSUME NEW index \in Seq(Rows), NEW g \in Nat, Len(index) \in {g, g + 1},
           NEW new \in Seq(Sources), Len(new) \in 1..EdgesPerBuf,
           efile \in Seq(Edges), g * EdgesPerBuf + Len(new) <= Len(efile),
           \A i \in 1..Len(new) : new[i] = efile[g * EdgesPerBuf + i],
           Len(new) = EdgesPerBuf \/ g * EdgesPerBuf + Len(new) = Len(efile),
           \A h \in 1..g : index[h] = Index(efile)[h]
    PROVE  LET index2 == Written(index, g, <<Group(new)>>)
           IN Len(index2) = g + 1 /\ \A h \in 1..g + 1 : index2[h] = Index(efile)[h]
<1> DEFINE index2 == Written(index, g, <<Group(new)>>)
<1>1. Group(new) \in Rows /\ Len(index) \in Nat /\ g \in 0..Len(index)
  BY GroupIsRow
<1>2. /\ Len(index2) = g + 1 /\ index2[g + 1] = Group(new)
      /\ \A h \in 1..Len(index) : h # g + 1 => index2[h] = index[h]
  BY <1>1, IndexWritten
<1> HIDE DEF index2
<1>3. new \in Seq(Edges)
  BY SourcesAreEdges
<1>4. Index(efile)[g + 1] = Group(new)
  <2> DEFINE at == g * EdgesPerBuf
  <2>1. /\ at = g * EdgesPerBuf /\ at + Len(new) <= Len(efile)
        /\ \A i \in 1..Len(new) : new[i] = efile[at + i]
        /\ Len(new) = EdgesPerBuf \/ at + Len(new) = Len(efile)
    OBVIOUS
  <2> HIDE DEF at
  <2>2. QED
    BY <1>3, <2>1, RowOfGroup
<1>5. ASSUME NEW h \in 1..g + 1 PROVE index2[h] = Index(efile)[h]
  <2>1. CASE h = g + 1
    BY <1>2, <1>4, <2>1
  <2>2. CASE h # g + 1
    <3>1. h \in 1..g /\ h \in 1..Len(index)
      BY <1>1, <1>5, <2>2
    <3>2. QED
      BY <1>2, <2>2, <3>1
  <2>3. QED
    BY <2>1, <2>2
<1>6. QED
  BY <1>2, <1>5 DEF index2

\* One index file: a group is written or compared.
LEMMA FlushGraph ==
    ASSUME EInv, pc = "distribute", superPartitions = 1, Undeleted,
           NEW new \in Seq(Sources), Len(new) \in 1..EdgesPerBuf,
           NEW n, GraphHeld(new, n), Len(new) = EdgesPerBuf \/ n = Len(efile),
           bpos' = [bpos EXCEPT ![0] = @ + 1], bufs' = [bufs EXCEPT ![0] = <<>>], pos' = n,
           UNCHANGED <<superPartitions, efile, pc, mode, fresh>>,
           Building => bf' = [bf EXCEPT ![0] = Written(bf[0], bpos[0], <<Group(new)>>)],
           ~Building => bf' = bf
    PROVE  GraphExact' /\ GraphRunExact'
<1> DEFINE g == bpos[0]
           at == g * EdgesPerBuf
           m == Len(new)
<1>1. /\ 0 \in Supers /\ efile \in Seq(Edges) /\ Len(efile) \in Nat /\ bf \in [Supers -> Seq(Rows)]
      /\ bf[0] \in Seq(Rows) /\ g \in Nat /\ bpos \in [Supers -> Nat] /\ bufs \in [Supers -> Seq(Sources)]
      /\ EdgesPerBuf \in Nat \ {0} /\ m \in Nat
  BY Typed, Sizes DEF EInv
<1>2. at \in Nat /\ (g + 1) * EdgesPerBuf = at + EdgesPerBuf
  <2> HIDE DEF g
  <2>1. QED
    BY <1>1
<1>3. /\ n \in 0..Len(efile) /\ n = at + m
      /\ \A i \in 1..m : new[i] = efile[at + i]
  BY DEF GraphHeld
<1>4. bpos'[0] = g + 1 /\ bufs'[0] = <<>> /\ Len(bufs'[0]) = 0
  BY <1>1, EmptyBuffers
<1>5. (Undeleted' <=> Undeleted) /\ (Building' <=> Building)
  BY DEF Undeleted, Building
<1>6. ASSUME Building
      PROVE  Len(bf'[0]) = g + 1 /\ \A h \in 1..g + 1 : bf'[0][h] = Index(efile)[h]
  <2> DEFINE index == bf[0]
             index2 == bf'[0]
  <2>1. index2 = Written(index, g, <<Group(new)>>)
    BY <1>1, <1>6
  <2>2. index \in Seq(Rows) /\ Len(index) \in {g, g + 1}
    BY <1>1, <1>6 DEF EInv, IInv, GraphRunInv
  <2>3. \A h \in 1..g : index[h] = Index(efile)[h]
    BY <1>6 DEF EInv, ExactInv, GraphRunExact
  <2>4. at + m <= Len(efile) /\ (m = EdgesPerBuf \/ at + m = Len(efile))
    BY <1>3
  <2> HIDE DEF index, index2
  <2>5. /\ g \in Nat /\ g * EdgesPerBuf + Len(new) <= Len(efile)
        /\ \A i \in 1..Len(new) : new[i] = efile[g * EdgesPerBuf + i]
        /\ Len(new) = EdgesPerBuf \/ g * EdgesPerBuf + Len(new) = Len(efile)
    BY <1>1, <1>3, <2>4
  <2> HIDE DEF g
  <2>6. Len(index2) = g + 1 /\ \A h \in 1..g + 1 : index2[h] = Index(efile)[h]
    <3>1. index \in Seq(Rows) /\ g \in Nat /\ efile \in Seq(Edges) /\ new \in Seq(Sources)
          /\ Len(index) \in {g, g + 1} /\ Len(new) \in 1..EdgesPerBuf
      BY <1>1, <2>2
    <3> DEFINE written == Written(index, g, <<Group(new)>>)
    <3>2. Len(written) = g + 1 /\ \A h \in 1..g + 1 : written[h] = Index(efile)[h]
      BY <2>3, <2>5, <3>1, GraphWritten, Zenon
    <3>3. QED
      BY <2>1, <3>2, Zenon
  <2>7. QED
    BY <2>6 DEF index2
<1> HIDE DEF g, at, m
<1>7. GraphExact'
  <2>1. CASE Building
    <3>1. ~fresh' /\ Len(bf'[0]) - 1 = g
      BY <1>1, <1>6, <2>1 DEF EInv, IInv, ModeInv
    <3>2. \A h \in 1..g : h \in 1..g + 1
      BY <1>1
    <3>3. \A h \in 1..Len(bf'[0]) - 1 : bf'[0][h] = Index(efile)[h]
      BY <1>6, <2>1, <3>1, <3>2
    <3>4. QED
      BY <3>1, <3>3 DEF GraphExact
  <2>2. CASE ~Building
    BY <1>5, <2>2 DEF EInv, ExactInv, GraphExact
  <2>3. QED
    BY <2>1, <2>2
<1>8. GraphRunExact'
  <2>1. Building => \A h \in 1..bpos'[0] : bf'[0][h] = Index(efile)[h]
    BY <1>4, <1>6
  <2>2. bpos'[0] * EdgesPerBuf = at + EdgesPerBuf
    BY <1>2, <1>4
  <2>3. CASE m = EdgesPerBuf
    <3>1. pos' = bpos'[0] * EdgesPerBuf + Len(bufs'[0]) /\ pos' <= Len(efile) /\ 1..Len(bufs'[0]) = {}
      BY <1>1, <1>2, <1>3, <1>4, <2>2, <2>3
    <3>2. QED
      BY <1>5, <2>1, <3>1 DEF GraphRunExact
  <2>4. CASE n = Len(efile)
    <3>1. pos' = Len(efile) /\ Len(efile) <= bpos'[0] * EdgesPerBuf
      BY <1>1, <1>2, <1>3, <2>2, <2>4 DEF m
    <3>2. QED
      BY <1>4, <1>5, <2>1, <3>1 DEF GraphRunExact
  <2>5. QED
    BY <2>3, <2>4 DEF m
<1>9. QED
  BY <1>7, <1>8

\* Several: a group is written to an edge file and to its index.
LEMMA IndexedWritten ==
    ASSUME EInv, pc = "distribute", superPartitions # 1, Building, NEW s \in Supers,
           NEW new \in Seq(Sources), Len(new) \in 1..EdgesPerBuf, Len(bufs[s]) <= Len(new),
           MoreEdges \/ bufs[s] # <<>>, WriteGroup(s, new), superPartitions' = superPartitions
    PROVE  SplitIndexed'
<1>1. /\ part \in [Supers -> Seq(Sources)] /\ part[s] \in Seq(Sources) /\ bf \in [Supers -> Seq(Rows)]
      /\ epos[s] \in Nat /\ bpos[s] \in Nat /\ Len(bufs[s]) \in Nat /\ Len(part[s]) \in Nat
      /\ Len(new) \in Nat /\ superPartitions > 1
  <2>1. IInv
    BY DEF EInv
  <2>2. /\ superPartitions > 1 /\ part \in [Supers -> Seq(Sources)] /\ bf \in [Supers -> Seq(Rows)]
        /\ Len(bufs[s]) \in Nat /\ Len(part[s]) \in Nat
        /\ epos[s] \in Nat /\ bpos[s] \in Nat
    BY <2>1, Typed
  <2>3. part[s] \in Seq(Sources) /\ Len(new) \in Nat
    BY <2>2
  <2>4. QED
    BY <2>2, <2>3
<1> DEFINE g == bpos[s]
           at == epos[s]
           old == part[s]
<1>2. at = g * EdgesPerBuf /\ at <= Len(old) /\ Len(old) <= at + Len(bufs[s])
  BY DEF EInv, IInv, SplitRunInv
<1>3. Len(old) <= at + Len(new)
  BY <1>1, <1>2
<1>5. bf[s] = Index(old)
  BY DEF EInv, ExactInv, SplitIndexed
<1>6. old \in Seq(Sources) /\ g \in Nat
  BY <1>1
<1>10. g <= Len(bf[s])
  <2> DEFINE n == Groups(old)
  <2>1. n \in Nat /\ \A h \in Nat : h < n <=> h * EdgesPerBuf < Len(old)
    BY <1>1, GroupsOf
  <2>2. Len(bf[s]) = n
    BY <1>1, <1>5, IndexOf
  <2> HIDE DEF n, g, at, old
  <2>3. CASE g # 0
    <3>1. g - 1 \in Nat /\ (g - 1) * EdgesPerBuf = at - EdgesPerBuf /\ EdgesPerBuf \in Nat \ {0}
      BY <1>2, <1>6, <2>3, Sizes
    <3>2. (g - 1) * EdgesPerBuf < Len(old)
      BY <1>1, <1>2, <3>1 DEF at, old
    <3>3. QED
      <4>1. g - 1 < n
        BY <2>1, <3>1, <3>2
      <4>2. QED
        BY <1>6, <2>1, <2>2, <3>1, <4>1
  <2>4. QED
    BY <1>6, <2>1, <2>2, <2>3
<1>4. /\ bf' = [bf EXCEPT ![s] = Written(bf[s], g, <<Group(new)>>)]
      /\ part' = [part EXCEPT ![s] = Written(old, at, new)]
  <2>1. Padded(bf[s], g) = bf[s]
    BY <1>10 DEF Padded
  <2>2. QED
    BY <1>1, <2>1 DEF WriteGroup
<1> HIDE DEF g, at, old
<1>7. Written(Index(old), g, <<Group(new)>>) = Index(Written(old, at, new))
  BY <1>2, <1>3, <1>6, IndexKept
<1>8. ASSUME NEW r \in Supers PROVE bf'[r] = Index(part'[r])
  <2>1. CASE r = s
    <3>1. bf'[r] = Written(bf[s], g, <<Group(new)>>) /\ part'[r] = Written(old, at, new)
      BY <1>1, <1>4, <2>1
    <3>2. QED
      BY <1>5, <1>7, <3>1
  <2>2. CASE r # s
    <3>1. bf'[r] = bf[r] /\ part'[r] = part[r]
      BY <1>1, <1>4, <2>2
    <3>2. QED
      BY <3>1 DEF EInv, ExactInv, SplitIndexed
  <2>3. QED
    BY <2>1, <2>2
<1>9. QED
  BY <1>8 DEF SplitIndexed, Index, Groups, CeilDiv, Group, Filter, Page, BuildBits, SignExtended

\* Several: what the run holds after a group is written or compared.
LEMMA FlushSplit ==
    ASSUME EInv, pc = "distribute", superPartitions # 1, Undeleted, Building \/ fresh, NEW s \in Supers,
           NEW new \in Seq(Sources), Len(new) \in 1..EdgesPerBuf, Len(bufs[s]) <= Len(new),
           MoreEdges \/ bufs[s] # <<>>,
           NEW n, SplitHeld(s, new, n), Len(new) = EdgesPerBuf \/ n = Len(efile),
           bpos' = [bpos EXCEPT ![s] = @ + 1], epos' = [epos EXCEPT ![s] = @ + Len(new)],
           bufs' = [bufs EXCEPT ![s] = <<>>], pos' = n, MoreEdges' => MoreEdges,
           UNCHANGED <<superPartitions, efile, pc, mode, fresh>>,
           Building => WriteGroup(s, new), ~Building => part' = part
    PROVE  SplitRunExact'
<1>1. /\ part \in [Supers -> Seq(Sources)] /\ part[s] \in Seq(Sources)
      /\ bufs \in [Supers -> Seq(Sources)] /\ epos \in [Supers -> Nat] /\ bpos \in [Supers -> Nat]
      /\ epos[s] \in Nat /\ bpos[s] \in Nat /\ Len(bufs[s]) \in Nat /\ Len(part[s]) \in Nat
      /\ Len(new) \in Nat /\ superPartitions > 1 /\ EdgesPerBuf \in Nat \ {0} /\ efile \in Seq(Edges)
      /\ Len(efile) \in Nat
  <2>1. /\ part \in [Supers -> Seq(Sources)] /\ part[s] \in Seq(Sources)
        /\ bufs \in [Supers -> Seq(Sources)] /\ epos \in [Supers -> Nat] /\ bpos \in [Supers -> Nat]
        /\ epos[s] \in Nat /\ bpos[s] \in Nat
    BY Typed DEF EInv
  <2>2. /\ Len(bufs[s]) \in Nat /\ Len(part[s]) \in Nat /\ superPartitions > 1
        /\ efile \in Seq(Edges) /\ Len(efile) \in Nat
    BY Typed DEF EInv
  <2>3. QED
    BY <2>1, <2>2, Sizes
<1>2. /\ epos'[s] = epos[s] + Len(new) /\ bpos'[s] = bpos[s] + 1 /\ bufs'[s] = <<>>
      /\ \A r \in Supers \ {s} : epos'[r] = epos[r] /\ bpos'[r] = bpos[r] /\ bufs'[r] = bufs[r]
  BY <1>1
<1>3. /\ n \in 0..Len(efile) /\ Held(part[s], epos[s], new, s, n)
      /\ n = Cardinality(Pairs([r \in Supers |-> IF r = s THEN epos[s] + Len(new) ELSE Passed(r)]))
      /\ \A r \in Supers \ {s} : Held(part[r], epos[r], bufs[r], r, n)
  BY DEF SplitHeld
<1>4. ASSUME NEW r \in Supers PROVE Held(part'[r], epos'[r], bufs'[r], r, n)
  <2>1. CASE r = s /\ Building
    <3>1. part'[s] = Written(part[s], epos[s], new)
      BY <1>1, <2>1 DEF WriteGroup
    <3>2. epos[s] \in 0..Len(part[s]) /\ Len(part[s]) <= epos[s] + Len(new)
      <4>1. epos[s] <= Len(part[s]) /\ Len(part[s]) <= epos[s] + Len(bufs[s])
        BY <2>1 DEF EInv, IInv, SplitRunInv
      <4>2. QED
        BY <1>1, <4>1
    <3>3. Held(Written(part[s], epos[s], new), epos[s] + Len(new), <<>>, s, n)
      <4> DEFINE old == part[s]
                 at == epos[s]
      <4>1. old \in Seq(Sources) /\ at \in 0..Len(old) /\ Len(old) <= at + Len(new) /\ n \in Nat
        BY <1>1, <1>3, <3>2
      <4>2. Held(old, at, new, s, n)
        BY <1>3
      <4> HIDE DEF old, at
      <4>3. Held(Written(old, at, new), at + Len(new), <<>>, s, n)
        BY <2>1, <4>1, <4>2, HeldWritten
      <4>4. QED
        BY <4>3 DEF old, at
    <3>4. QED
      BY <1>2, <2>1, <3>1, <3>3
  <2>2. CASE r = s /\ ~Building
    <3>1. Held(part[s], epos[s] + Len(new), <<>>, s, n)
      BY <1>1, <1>3, <2>2, HeldPassed
    <3>2. QED
      BY <1>2, <2>2, <3>1
  <2>3. CASE r # s
    <3>1. part'[r] = part[r]
      BY <1>1, <2>3 DEF WriteGroup
    <3>2. QED
      BY <1>2, <1>3, <2>3, <3>1
  <2>4. QED
    BY <2>1, <2>2, <2>3
<1>5. ASSUME NEW r \in Supers, ~Building, MoreEdges' \/ bufs'[r] # <<>>
      PROVE  epos'[r] = bpos'[r] * EdgesPerBuf
  <2>1. CASE r = s
    <3>1. MoreEdges' /\ MoreEdges
      BY <1>2, <1>5, <2>1
    <3>2. n < Len(efile)
      BY <1>1, <1>3, <3>1 DEF MoreEdges
    <3>3. Len(new) = EdgesPerBuf
      BY <1>1, <3>2
    <3>4. epos[s] = bpos[s] * EdgesPerBuf
      BY <1>5, <3>1 DEF EInv, ExactInv, SplitRunExact
    <3>5. (bpos[s] + 1) * EdgesPerBuf = bpos[s] * EdgesPerBuf + EdgesPerBuf
      <4> DEFINE g == bpos[s]
      <4>1. g \in Nat
        BY <1>1
      <4> HIDE DEF g
      <4>2. (g + 1) * EdgesPerBuf = g * EdgesPerBuf + EdgesPerBuf
        BY <1>1, <4>1
      <4>3. QED
        BY <4>2 DEF g
    <3>6. QED
      BY <1>2, <2>1, <3>3, <3>4, <3>5
  <2>2. CASE r # s
    <3>1. epos[r] = bpos[r] * EdgesPerBuf
      BY <1>2, <1>5, <2>2 DEF EInv, ExactInv, SplitRunExact
    <3>2. QED
      BY <1>2, <2>2, <3>1
  <2>3. QED
    BY <2>1, <2>2
<1>6. n = Cardinality(Pairs([r \in Supers |-> Passed(r)]))'
  <2>1. \A r \in Supers : epos'[r] + Len(bufs'[r]) = IF r = s THEN epos[s] + Len(new) ELSE Passed(r)
    <3>1. epos[s] + Len(new) + Len(<<>>) = epos[s] + Len(new)
      BY <1>1, EmptyBuffers
    <3>2. QED
      BY <1>2, <3>1 DEF Passed
  <2>2. [r \in Supers |-> IF r = s THEN epos[s] + Len(new) ELSE Passed(r)] = [r \in Supers |-> Passed(r)]'
    BY <2>1 DEF Passed
  <2>3. Pairs([r \in Supers |-> Passed(r)])'
        = Pairs([r \in Supers |-> IF r = s THEN epos[s] + Len(new) ELSE Passed(r)])
    BY <2>2 DEF Pairs
  <2>4. QED
    BY <1>3, <2>3
<1>7. (Undeleted' <=> Undeleted) /\ (Building' <=> Building)
  BY DEF Undeleted, Building
<1>8. ASSUME NEW r \in Supers PROVE Held(part[r], epos[r], bufs[r], r, n)'
  <2>1. PICK edges, at, buf : edges = part'[r] /\ at = epos'[r] /\ buf = bufs'[r]
    OBVIOUS
  <2>2. Held(edges, at, buf, r, n)'
    BY <1>4, <2>1, HeldStays
  <2>3. QED
    BY <2>1, <2>2 DEF Held, Own, SuperOf
<1>9. QED
  BY <1>3, <1>5, <1>6, <1>7, <1>8 DEF SplitRunExact

\* A group is written, or compared, and the run goes on.
LEMMA FlushExact ==
    ASSUME EInv, harm' = "none", pc = "distribute", NEW s \in Supers,
           NEW new \in Seq(Sources), Len(new) \in 1..EdgesPerBuf, Len(bufs[s]) <= Len(new),
           Flush(s, new), MoreEdges \/ bufs[s] # <<>>, NEW n \in Nat,
           fatal' = "no" => pos' = n /\ (MoreEdges' => MoreEdges),
           (Undeleted /\ superPartitions = 1) => GraphHeld(new, n),
           (Undeleted /\ superPartitions # 1 /\ (Building \/ fresh)) => SplitHeld(s, new, n),
           (Undeleted /\ (superPartitions = 1 \/ Building \/ fresh)) =>
               Len(new) = EdgesPerBuf \/ n = Len(efile)
    PROVE  ExactInv'
<1>1. CASE mode = "verify" /\ ~Matches(s, new)
  <2>1. Abort("verify") /\ ~Building
    BY <1>1 DEF Flush, Building
  <2>2. ~(fresh /\ Undeleted)
    BY <1>1, MatchesExact
  <2>3. QED
    BY <2>1, <2>2, AbortExact
<1>2. CASE ~(mode = "verify" /\ ~Matches(s, new))
  <2>1. /\ bpos' = [bpos EXCEPT ![s] = @ + 1]
        /\ epos' = [epos EXCEPT ![s] = @ + Len(new)]
        /\ bufs' = [bufs EXCEPT ![s] = <<>>]
        /\ UNCHANGED <<superPartitions, efile, pc, mode, fatal, fresh, deleted>>
        /\ Building => WriteGroup(s, new)
        /\ ~Building => UNCHANGED <<bf, part>>
    BY <1>2 DEF Flush
  <2>2. fatal = "no" /\ (fresh => ~Building) /\ fatal' = "no" /\ pos' = n /\ (MoreEdges' => MoreEdges)
    BY <2>1 DEF EInv, IInv, ModeInv
  <2>4. VerifyAccepts'
    BY <2>2 DEF VerifyAccepts
  <2>5. (Undeleted' <=> Undeleted) /\ (Building' <=> Building)
    BY <2>1 DEF Undeleted, Building
  <2>6. SplitExact'
    <3>1. CASE Building
      BY <2>1, <2>5, <3>1 DEF SplitExact
    <3>2. CASE ~Building
      BY <2>1, <3>2, FilesStay DEF EInv, ExactInv
    <3>3. QED
      BY <3>1, <3>2
  <2>7. CASE superPartitions = 1
    <3>1. SplitIndexed' /\ SplitRunExact'
      BY <2>1, <2>7 DEF SplitIndexed, SplitRunExact
    <3>2. GraphExact' /\ GraphRunExact'
      <4> SUFFICES ASSUME Undeleted PROVE GraphExact' /\ GraphRunExact'
        BY <2>5 DEF GraphExact, GraphRunExact
      <4>1. s = 0
        BY <2>7
      <4>2. Building => bf' = [bf EXCEPT ![0] = Written(bf[0], bpos[0], <<Group(new)>>)]
        <5> SUFFICES ASSUME Building
                     PROVE  bf' = [bf EXCEPT ![0] = Written(bf[0], bpos[0], <<Group(new)>>)]
          OBVIOUS
        <5>1. Len(bf[0]) \in {bpos[0], bpos[0] + 1} /\ bpos[0] \in Nat
          BY <2>7, Typed DEF EInv, IInv, GraphRunInv
        <5>2. Padded(bf[0], bpos[0]) = bf[0]
          BY <5>1 DEF Padded
        <5>3. QED
          BY <2>1, <4>1, <5>2 DEF WriteGroup
      <4>3. QED
        BY <2>1, <2>2, <2>7, <4>1, <4>2, FlushGraph
    <3>3. QED
      BY <2>4, <2>6, <3>1, <3>2 DEF ExactInv
  <2>8. CASE superPartitions # 1
    <3>1. GraphExact' /\ GraphRunExact'
      BY <2>1, <2>8 DEF GraphExact, GraphRunExact
    <3>2. SplitIndexed'
      <4>1. CASE Building
        BY <2>1, <2>8, <4>1, IndexedWritten
      <4>2. CASE ~Building
        BY <2>1, <4>2, FilesStay DEF EInv, ExactInv
      <4>3. QED
        BY <4>1, <4>2
    <3>3. SplitRunExact'
      <4> SUFFICES ASSUME Undeleted, Building \/ fresh PROVE SplitRunExact'
        BY <2>1, <2>5 DEF SplitRunExact
      <4>1. QED
        BY <2>1, <2>2, <2>8, FlushSplit
    <3>4. QED
      BY <2>4, <2>6, <3>1, <3>2, <3>3 DEF ExactInv
  <2>9. QED
    BY <2>7, <2>8
<1>3. QED
  BY <1>1, <1>2

\* The rest of a buffer ends its file.
LEMMA FlushRestExact ==
    ASSUME EInv, FlushRest, harm' = "none"
    PROVE  ExactInv'
<1>1. PICK s \in Supers : /\ bufs[s] # <<>> /\ Flush(s, bufs[s])
                          /\ fatal' = "no" => UNCHANGED pos
  BY DEF FlushRest
<1>2. /\ pc = "distribute" /\ ~MoreEdges /\ efile \in Seq(Edges) /\ Len(efile) \in Nat
      /\ DOMAIN efile = 1..Len(efile) /\ bufs[s] \in Seq(Sources) /\ Len(bufs[s]) < EdgesPerBuf
      /\ EdgesPerBuf \in Nat \ {0} /\ pos \in Nat
  BY Sizes, Typed DEF FlushRest, EInv, BoundsInv
<1>3. Len(bufs[s]) \in 1..EdgesPerBuf /\ Len(bufs[s]) <= Len(bufs[s])
  BY <1>1, <1>2, EmptySeq
<1>4. fatal' = "no" => pos' = pos /\ ~MoreEdges'
  <2>1. efile' = efile
    BY <1>1 DEF Flush, Abort, Dies, files
  <2>2. QED
    BY <1>1, <1>2, <2>1 DEF MoreEdges
<1>5. pos <= Len(efile) => pos = Len(efile)
  <2>1. ~(pos + 1 \in 1..Len(efile))
    BY <1>2 DEF MoreEdges
  <2>2. \A m, p \in Nat : (~(p + 1 \in 1..m) /\ p <= m) => p = m
    OBVIOUS
  <2>3. QED
    BY <1>2, <2>1, <2>2
<1>6. ASSUME Undeleted, superPartitions = 1
      PROVE  GraphHeld(bufs[s], pos) /\ pos = Len(efile)
  <2>1. s = 0
    BY <1>6
  <2>2. /\ pos = bpos[0] * EdgesPerBuf + Len(bufs[0]) /\ pos <= Len(efile)
        /\ \A i \in 1..Len(bufs[0]) : bufs[0][i] = efile[bpos[0] * EdgesPerBuf + i]
    BY <1>1, <1>2, <1>6, <2>1 DEF EInv, ExactInv, GraphRunExact
  <2>3. pos \in 0..Len(efile)
    BY <1>2, <2>2
  <2>4. QED
    BY <1>5, <2>1, <2>2, <2>3 DEF GraphHeld
<1>7. ASSUME Undeleted, superPartitions # 1, Building \/ fresh
      PROVE  SplitHeld(s, bufs[s], pos) /\ pos = Len(efile)
  <2>1. /\ pos \in 0..Len(efile) /\ pos = Cardinality(Pairs([r \in Supers |-> Passed(r)]))
        /\ \A r \in Supers : Held(part[r], epos[r], bufs[r], r, pos)
    BY <1>2, <1>7 DEF EInv, ExactInv, SplitRunExact
  <2>2. [r \in Supers |-> IF r = s THEN epos[s] + Len(bufs[s]) ELSE Passed(r)] = [r \in Supers |-> Passed(r)]
    BY DEF Passed
  <2>3. pos = Cardinality(Pairs([r \in Supers |-> IF r = s THEN epos[s] + Len(bufs[s]) ELSE Passed(r)]))
    BY <2>1, <2>2, Zenon
  <2>4. pos <= Len(efile)
    BY <1>2, <2>1
  <2>5. SplitHeld(s, bufs[s], pos)
    BY <2>1, <2>3 DEF SplitHeld
  <2>6. QED
    BY <1>5, <2>4, <2>5
<1>8. CASE ~Undeleted \/ superPartitions = 1 \/ Building \/ fresh
  <2>1. Undeleted => pos = Len(efile)
    BY <1>6, <1>7, <1>8
  <2>2. QED
    BY <1>1, <1>2, <1>3, <1>4, <1>6, <1>7, <2>1, FlushExact
<1>9. CASE ~(~Undeleted \/ superPartitions = 1 \/ Building \/ fresh)
  BY <1>1, <1>2, <1>3, <1>4, <1>9, FlushExact
<1>10. QED
  BY <1>8, <1>9

\* What the buffers hold with the next edge.
LEMMA NextHeld ==
    ASSUME EInv, pc = "distribute", MoreEdges, Undeleted, NEW s \in Supers, s = SuperOf(efile[pos + 1]),
           NEW new, new = Append(bufs[s], efile[pos + 1]), efile[pos + 1] \in Sources
    PROVE  /\ superPartitions = 1 => GraphHeld(new, pos + 1)
           /\ (superPartitions # 1 /\ (Building \/ fresh)) => SplitHeld(s, new, pos + 1)
<1>1. /\ efile \in Seq(Edges) /\ Len(efile) \in Nat /\ pos \in Nat /\ bufs \in [Supers -> Seq(Sources)]
      /\ bufs[s] \in Seq(Sources) /\ Len(bufs[s]) \in Nat /\ epos \in [Supers -> Nat] /\ epos[s] \in Nat
      /\ superPartitions \in Nat
  BY Typed DEF EInv, BoundsInv
<1>2. pos + 1 \in 1..Len(efile) /\ pos + 1 \in 0..Len(efile)
  BY <1>1 DEF MoreEdges
<1> DEFINE e == efile[pos + 1]
           buf == bufs[s]
<1>3. /\ Len(new) = Len(buf) + 1 /\ new[Len(buf) + 1] = e
      /\ \A i \in 1..Len(buf) : new[i] = buf[i]
  <2>1. buf \in Seq(Sources) /\ e \in Sources /\ new = Append(buf, e)
    BY <1>1
  <2> HIDE DEF buf, e
  <2>2. QED
    BY <2>1, AppendProperties
<1>4. ASSUME superPartitions = 1 PROVE GraphHeld(new, pos + 1)
  <2>1. s = 0
    BY <1>4
  <2> DEFINE base == bpos[0] * EdgesPerBuf
             m == Len(buf)
  <2>2. bpos[0] \in Nat /\ EdgesPerBuf \in Nat \ {0}
    BY Typed, Sizes DEF EInv
  <2>3. base \in Nat /\ m \in Nat
    BY <1>1, <2>2
  <2>4. pos = base + m /\ \A i \in 1..m : buf[i] = efile[base + i]
    <3>1. pos # Len(efile)
      BY <1>1, <1>2
    <3>2. QED
      BY <1>4, <2>1, <3>1 DEF EInv, ExactInv, GraphRunExact
  <2>5. Len(new) = m + 1 /\ new[m + 1] = efile[pos + 1] /\ \A i \in 1..m : new[i] = buf[i]
    BY <1>3
  <2> HIDE DEF base, m, buf, e
  <2>6. ASSUME NEW i \in 1..Len(new) PROVE new[i] = efile[base + i]
    <3>1. CASE i \in 1..m
      BY <2>4, <2>5, <3>1
    <3>2. CASE i = m + 1
      <4>1. base + i = pos + 1
        BY <2>3, <2>4, <3>2
      <4>2. QED
        BY <2>5, <3>2, <4>1
    <3>3. QED
      BY <2>3, <2>5, <3>1, <3>2
  <2>7. pos + 1 = base + Len(new)
    <3>1. \A x, y, z \in Nat : z = y + 1 => x + y + 1 = x + z
      OBVIOUS
    <3>2. Len(new) \in Nat /\ Len(new) = m + 1 /\ pos + 1 = base + m + 1
      BY <2>3, <2>4, <2>5
    <3>3. QED
      BY <2>3, <3>1, <3>2
  <2>8. QED
    BY <1>2, <2>6, <2>7 DEF GraphHeld, base
<1>5. ASSUME superPartitions # 1, Building \/ fresh PROVE SplitHeld(s, new, pos + 1)
  <2>1. /\ pos = Cardinality(Pairs([r \in Supers |-> Passed(r)]))
        /\ \A r \in Supers : Held(part[r], epos[r], bufs[r], r, pos)
    BY <1>5 DEF EInv, ExactInv, SplitRunExact
  <2>2. ~Building => IsOwnEdges(part[s], s, Len(efile))
    BY <1>5 DEF EInv, IInv, ModeInv, ExactInv, SplitExact
  <2>3. Held(part[s], epos[s], new, s, pos + 1)
    <3> DEFINE edges == part[s]
               at == epos[s]
    <3>1. Held(edges, at, buf, s, pos) /\ (~Building => IsOwnEdges(edges, s, Len(efile)))
      BY <2>1, <2>2
    <3>2. at \in Nat /\ buf \in Seq(Sources) /\ SuperOf(efile[pos + 1]) = s
      BY <1>1
    <3>3. /\ Len(new) = Len(buf) + 1 /\ new[Len(buf) + 1] = efile[pos + 1]
          /\ \A i \in 1..Len(buf) : new[i] = buf[i]
      BY <1>3
    <3> HIDE DEF edges, at, buf, e
    <3>4. Held(edges, at, new, s, pos + 1)
      BY <1>1, <1>2, <3>1, <3>2, <3>3, HeldNext
    <3>5. QED
      BY <3>4 DEF edges, at
  <2>4. ASSUME NEW r \in Supers \ {s} PROVE Held(part[r], epos[r], bufs[r], r, pos + 1)
    BY <1>1, <2>1, HeldOther
  <2>5. pos + 1 = Cardinality(Pairs([r \in Supers |-> IF r = s THEN epos[s] + Len(new) ELSE Passed(r)]))
    <3> DEFINE len == [r \in Supers |-> Passed(r)]
               len2 == [r \in Supers |-> IF r = s THEN epos[s] + Len(new) ELSE Passed(r)]
    <3>1. \A r \in Supers : Passed(r) \in Nat
      <4>1. \A r \in Supers : Len(bufs[r]) \in Nat /\ epos[r] \in Nat
        BY Typed DEF EInv
      <4>2. QED
        BY <4>1 DEF Passed
    <3>2. epos[s] + Len(new) = Passed(s) + 1 /\ epos[s] + Len(new) \in Nat
      <4>1. Passed(s) = epos[s] + Len(buf) /\ Len(new) = Len(buf) + 1 /\ Len(buf) \in Nat
        BY <1>1, <1>3 DEF Passed
      <4> HIDE DEF buf
      <4>2. \A x, y \in Nat : x + (y + 1) = x + y + 1 /\ x + (y + 1) \in Nat
        OBVIOUS
      <4>3. epos[s] \in Nat
        BY <1>1
      <4>4. QED
        BY <4>1, <4>2, <4>3
    <3>3. /\ len \in [Supers -> Nat] /\ len2 \in [Supers -> Nat] /\ len2[s] = len[s] + 1
          /\ \A r \in Supers : r # s => len2[r] = len[r]
      BY <3>1, <3>2
    <3>4. pos = Cardinality(Pairs(len))
      BY <2>1
    <3> HIDE DEF len, len2
    <3>5. Cardinality(Pairs(len2)) = Cardinality(Pairs(len)) + 1
      BY <1>1, <3>3, PairsGrow
    <3>6. QED
      BY <3>4, <3>5 DEF len2
  <2>6. QED
    BY <1>2, <2>3, <2>4, <2>5 DEF SplitHeld
<1>6. QED
  BY <1>4, <1>5

\* An edge comes to a buffer that is not full then.
LEMMA BufferExact ==
    ASSUME EInv, pc = "distribute", MoreEdges, NEW s \in Supers, NEW new,
           bufs' = [bufs EXCEPT ![s] = new], pos' = pos + 1, pos + 1 \in Nat,
           UNCHANGED <<superPartitions, efile, part, bf, pc, mode, epos, bpos, fatal, fresh, deleted>>,
           (Undeleted /\ superPartitions = 1) => GraphHeld(new, pos + 1),
           (Undeleted /\ superPartitions # 1 /\ (Building \/ fresh)) => SplitHeld(s, new, pos + 1)
    PROVE  ExactInv'
<1>2. /\ (Undeleted' <=> Undeleted) /\ (Building' <=> Building)
      /\ GraphExact' /\ SplitIndexed'
  BY FilesStay DEF EInv, ExactInv
<1>3. VerifyAccepts'
  <2>1. fatal' = "no"
    BY DEF EInv, IInv, ModeInv
  <2>2. QED
    BY <2>1 DEF VerifyAccepts
<1>4. SplitExact'
  <2>1. CASE Building
    BY <1>2, <2>1 DEF SplitExact
  <2>2. CASE ~Building
    BY <2>2, FilesStay DEF EInv, ExactInv
  <2>3. QED
    BY <2>1, <2>2
<1>5. /\ bufs \in [Supers -> Seq(Sources)]
      /\ bufs'[s] = new /\ \A r \in Supers \ {s} : bufs'[r] = bufs[r]
  <2>1. bufs \in [Supers -> Seq(Sources)]
    BY Typed DEF EInv
  <2>2. QED
    BY <2>1
<1>6. GraphRunExact'
  <2> SUFFICES ASSUME superPartitions = 1, Undeleted PROVE GraphRunExact'
    BY <1>2 DEF GraphRunExact
  <2>1. s = 0 /\ bufs'[0] = new
    BY <1>5
  <2>2. /\ pos' <= Len(efile) /\ pos' = bpos[0] * EdgesPerBuf + Len(new)
        /\ \A i \in 1..Len(new) : new[i] = efile[bpos[0] * EdgesPerBuf + i]
    BY DEF GraphHeld
  <2>3. Building => \A g \in 1..bpos[0] : bf[0][g] = Index(efile)[g]
    BY DEF EInv, ExactInv, GraphRunExact
  <2>4. QED
    BY <1>2, <2>1, <2>2, <2>3 DEF GraphRunExact
<1>7. SplitRunExact'
  <2> SUFFICES ASSUME superPartitions # 1, Undeleted, Building \/ fresh PROVE SplitRunExact'
    BY <1>2 DEF SplitRunExact
  <2>1. PICK n : n = pos + 1 /\ SplitHeld(s, new, n)
    OBVIOUS
  <2>2. ASSUME NEW r \in Supers PROVE Held(part[r], epos[r], bufs'[r], r, n)
    <3>1. CASE r = s
      BY <1>5, <2>1, <3>1 DEF SplitHeld
    <3>2. CASE r # s
      BY <1>5, <2>1, <3>2 DEF SplitHeld
    <3>3. QED
      BY <3>1, <3>2
  <2>3. ASSUME NEW r \in Supers, ~Building PROVE epos[r] = bpos[r] * EdgesPerBuf
    BY <2>3 DEF EInv, ExactInv, SplitRunExact
  <2>4. n = Cardinality(Pairs([r \in Supers |-> Passed(r)]))'
    <3>1. [r \in Supers |-> IF r = s THEN epos[s] + Len(new) ELSE Passed(r)] = [r \in Supers |-> Passed(r)]'
      BY <1>5 DEF Passed
    <3>2. Pairs([r \in Supers |-> Passed(r)])'
            = Pairs([r \in Supers |-> IF r = s THEN epos[s] + Len(new) ELSE Passed(r)])
      BY <3>1 DEF Pairs
    <3>3. QED
      BY <2>1, <3>2 DEF SplitHeld
  <2>5. n \in 0..Len(efile) /\ n = pos'
    BY <2>1 DEF SplitHeld
  <2>6. ASSUME NEW r \in Supers PROVE Held(part[r], epos[r], bufs[r], r, n)'
    <3>1. PICK edges, at, buf : edges = part[r] /\ at = epos[r] /\ buf = bufs'[r]
      OBVIOUS
    <3>2. Held(edges, at, buf, r, n)'
      BY <2>2, <3>1, HeldStays
    <3>3. QED
      BY <3>1, <3>2 DEF Held, Own, SuperOf
  <2>7. QED
    BY <1>2, <2>3, <2>4, <2>5, <2>6 DEF SplitRunExact
<1>8. QED
  BY <1>2, <1>3, <1>4, <1>6, <1>7 DEF ExactInv

\* The next edge is distributed.
LEMMA DistributeExact ==
    ASSUME EInv, Distribute, harm' = "none"
    PROVE  ExactInv'
<1> DEFINE e == efile[pos + 1]
           s == SuperOf(e)
           new == Append(bufs[s], e)
<1>1. /\ pc = "distribute" /\ MoreEdges /\ fatal = "no" /\ pos \in Nat /\ pos + 1 \in Nat
      /\ superPartitions \in Nat \ {0} /\ efile \in Seq(Edges) /\ Len(efile) \in Nat
      /\ EdgesPerBuf \in Nat \ {0}
  <2>1. pc = "distribute" /\ MoreEdges /\ fatal = "no" /\ pos \in Nat
    BY DEF Distribute, EInv, IInv, ModeInv, BoundsInv
  <2>2. QED
    BY <2>1, Typed, Sizes DEF EInv
<1>2. pos + 1 \in DOMAIN efile /\ pos + 1 \in 1..Len(efile)
  BY <1>1 DEF MoreEdges
<1>3. CASE e = TOMBSTONE
  <2>1. ~Undeleted /\ Abort("tombstone")
    BY <1>2, <1>3 DEF Undeleted, Distribute
  <2>2. QED
    BY <2>1, AbortExact
<1>4. CASE e # TOMBSTONE
  <2>1. e \in Sources
    <3>1. e \in Edges
      BY <1>1, <1>2, ElementOfSeq
    <3> HIDE DEF e
    <3>2. QED
      BY <1>4, <3>1 DEF Edges
  <2>2. s \in Supers
    <3>1. e \in Nat
      BY <2>1, SourceBits
    <3> HIDE DEF e
    <3>2. QED
      BY <1>1, <3>1, Division DEF SuperOf
  <2>3. /\ IF IsFull(new) THEN Flush(s, new)
           ELSE /\ bufs' = [bufs EXCEPT ![s] = new]
                /\ UNCHANGED <<superPartitions, files, pc, mode, epos, bpos, fatal, fresh, harm, deleted>>
        /\ fatal' = "no" => pos' = pos + 1
    BY <1>4 DEF Distribute
  <2>4. PICK r : r = new
    OBVIOUS
  <2>5. PICK t \in Supers : t = s /\ r = new
    BY <2>2, <2>4
  <2>6. Undeleted => /\ superPartitions = 1 => GraphHeld(r, pos + 1)
                     /\ (superPartitions # 1 /\ (Building \/ fresh)) => SplitHeld(t, r, pos + 1)
    BY <1>1, <2>1, <2>5, NextHeld
  <2>7. /\ IF IsFull(r) THEN Flush(t, r)
           ELSE /\ bufs' = [bufs EXCEPT ![t] = r]
                /\ UNCHANGED <<superPartitions, files, pc, mode, epos, bpos, fatal, fresh, harm, deleted>>
        /\ fatal' = "no" => pos' = pos + 1
    BY <2>3, <2>5
  <2>8. bufs[t] \in Seq(Sources) /\ Len(bufs[t]) \in Nat
    BY Typed DEF EInv
  <2>9. r \in Seq(Sources) /\ Len(r) = Len(bufs[t]) + 1
    <3> HIDE DEF e
    <3>1. QED
      BY <2>1, <2>5, <2>8, AppendProperties
  <2> HIDE DEF e, s, new
  <2>10. CASE IsFull(r)
    <3>1. Flush(t, r) /\ Len(r) = EdgesPerBuf /\ Len(r) \in 1..EdgesPerBuf /\ Len(bufs[t]) <= Len(r)
      BY <1>1, <2>7, <2>8, <2>9, <2>10 DEF IsFull
    <3>2. fatal' = "no" => pos' = pos + 1 /\ (MoreEdges' => MoreEdges)
      BY <1>1, <2>7
    <3>3. QED
      BY <1>1, <2>6, <2>9, <3>1, <3>2, FlushExact
  <2>11. CASE ~IsFull(r)
    <3>1. /\ bufs' = [bufs EXCEPT ![t] = r] /\ pos' = pos + 1
          /\ UNCHANGED <<superPartitions, efile, part, bf, pc, mode, epos, bpos, fatal, fresh, deleted>>
      BY <1>1, <2>7, <2>11 DEF files
    <3>2. QED
      BY <1>1, <2>6, <3>1, BufferExact
  <2>12. QED
    BY <2>10, <2>11
<1>5. QED
  BY <1>3, <1>4

\* A build is complete: it has come to the end of the graph.
LEMMA CloseExact ==
    ASSUME EInv, Close
    PROVE  ExactInv'
<1>1. /\ pc = "distribute" /\ pc' = "query" /\ ~MoreEdges /\ \A s \in Supers : bufs[s] = <<>>
      /\ fresh' = (fresh \/ Building) /\ pos' = 0
      /\ UNCHANGED <<superPartitions, efile, part, bf, mode, fatal, deleted>>
  BY DEF Close, files, Forget
<1>2. /\ efile \in Seq(Edges) /\ Len(efile) \in Nat /\ bf[0] \in Seq(Rows) /\ Len(bf[0]) \in Nat
      /\ bpos[0] \in Nat /\ 0 \in Supers /\ EdgesPerBuf \in Nat \ {0} /\ pos \in Nat
  BY Typed, Sizes DEF EInv, BoundsInv
<1>3. pos <= Len(efile) => pos = Len(efile)
  <2>1. ~(pos + 1 \in 1..Len(efile))
    BY <1>1, <1>2 DEF MoreEdges
  <2>2. \A m, p \in Nat : (~(p + 1 \in 1..m) /\ p <= m) => p = m
    OBVIOUS
  <2>3. QED
    BY <1>2, <2>1, <2>2
<1>4. (Undeleted' <=> Undeleted) /\ Distributed' = Distributed
  BY <1>1 DEF Undeleted, Distributed
<1>6. VerifyAccepts'
  <2>1. fatal' = "no"
    BY <1>1 DEF EInv, IInv, ModeInv
  <2>2. QED
    BY <2>1 DEF VerifyAccepts
<1>7. SplitIndexed'
  BY <1>1 DEF EInv, ExactInv, SplitIndexed
<1>8. GraphRunExact' /\ SplitRunExact'
  BY <1>1 DEF GraphRunExact, SplitRunExact
<1>9. GraphExact'
  <2>1. CASE ~Building
    <3>1. fresh' => fresh
      BY <1>1, <2>1
    <3>2. QED
      BY <1>1, <1>4, <3>1 DEF EInv, ExactInv, GraphExact
  <2>2. CASE Building
    <3> SUFFICES ASSUME superPartitions = 1, Undeleted PROVE GraphExact'
      BY <1>1, <1>4 DEF GraphExact
    <3> DEFINE g == bpos[0]
               base == g * EdgesPerBuf
               index == bf[0]
               q == Groups(efile)
    <3>1. base \in Nat /\ g \in Nat /\ index \in Seq(Rows) /\ Len(index) \in Nat
      BY <1>2
    <3>2. Len(efile) <= base
      <4>1. bufs[0] = <<>> /\ Len(bufs[0]) = 0
        BY <1>1, <1>2, EmptyBuffers
      <4>2. \/ pos = base + 0 /\ pos <= Len(efile)
            \/ Len(efile) <= base
        BY <1>1, <2>2, <4>1 DEF EInv, ExactInv, GraphRunExact
      <4> HIDE DEF base
      <4>3. QED
        BY <1>2, <1>3, <3>1, <4>2
    <3>3. Len(index) \in {g, g + 1} /\ (index # <<>> => (Len(index) - 1) * EdgesPerBuf < Len(efile))
      BY <1>1, <2>2 DEF EInv, IInv, GraphRunInv, GraphInv, ModeInv
    <3>4. \A h \in 1..g : index[h] = Index(efile)[h]
      BY <1>1, <2>2 DEF EInv, ExactInv, GraphRunExact
    <3>5. q \in Nat /\ \A h \in Nat : h < q <=> h * EdgesPerBuf < Len(efile)
      BY <1>2, GroupsOf
    <3> HIDE DEF g, index, q
    <3>6. ~(g < q)
      BY <1>2, <3>1, <3>2, <3>5
    <3>7. Len(index) = q /\ Len(index) <= g
      <4>1. CASE index = <<>>
        <5>1. Len(index) = 0
          BY <4>1, EmptyBuffers
        <5>2. QED
          BY <3>1, <3>3, <3>5, <3>6, <5>1
      <4>2. CASE index # <<>>
        <5>1. Len(index) - 1 \in Nat
          BY <3>1, <4>2, EmptySeq
        <5>2. Len(index) - 1 < q
          BY <3>3, <3>5, <4>2, <5>1
        <5>3. QED
          BY <3>1, <3>3, <3>5, <3>6, <5>1, <5>2
      <4>3. QED
        BY <4>1, <4>2
    <3>8. \A h \in 1..Len(index) : index[h] = Index(efile)[h]
      <4>1. \A h \in 1..Len(index) : h \in 1..g
        BY <3>1, <3>7
      <4>2. QED
        BY <3>4, <4>1
    <3>9. index = Index(efile)
      BY <1>2, <3>1, <3>7, <3>8, WholeIndex DEF q
    <3>10. bf'[0] = Index(efile')
      BY <1>1, <3>9 DEF index
    <3>11. QED
      BY <3>10 DEF GraphExact
  <2>3. QED
    BY <2>1, <2>2
<1>10. SplitExact'
  <2> SUFFICES ASSUME superPartitions # 1, Undeleted, mode # "none" PROVE SplitExact'
    BY <1>1, <1>4 DEF SplitExact
  <2>1. CASE ~Building
    <3>1. PICK n \in 0..Len(efile) :
             /\ n = Distributed /\ (fresh => n = Len(efile))
             /\ \A s \in Supers : IsOwnEdges(part[s], s, n)
      BY <2>1 DEF EInv, ExactInv, SplitExact
    <3>2. \A s \in Supers : IsOwnEdges(part[s], s, n)'
      BY <1>1, <3>1, OwnEdgesStay
    <3>3. fresh' => n = Len(efile)
      BY <1>1, <2>1, <3>1
    <3>4. QED
      BY <1>1, <1>4, <3>1, <3>2, <3>3 DEF SplitExact
  <2>2. CASE Building
    <3>1. PICK n \in 0..Len(efile) :
             /\ n = pos /\ n = Cardinality(Pairs([s \in Supers |-> Passed(s)]))
             /\ \A s \in Supers : Held(part[s], epos[s], bufs[s], s, n)
      BY <1>1, <2>2 DEF EInv, ExactInv, SplitRunExact
    <3>2. n = Len(efile) /\ n \in Nat
      BY <1>2, <1>3, <3>1
    <3>3. ASSUME NEW s \in Supers
          PROVE  Passed(s) = Len(part[s]) /\ IsOwnEdges(part[s], s, n)
      <4>1. /\ epos[s] \in Nat /\ part[s] \in Seq(Sources) /\ Len(part[s]) \in Nat
            /\ Len(bufs[s]) = 0
        BY <1>1, Typed, EmptyBuffers DEF EInv
      <4>2. epos[s] <= Len(part[s]) /\ Len(part[s]) <= epos[s] + Len(bufs[s])
        BY <1>1, <2>2 DEF EInv, IInv, SplitRunInv
      <4>3. epos[s] = Len(part[s]) /\ Passed(s) = Len(part[s])
        BY <4>1, <4>2 DEF Passed
      <4>4. Len(part[s]) = Cardinality(Own(s, n))
        BY <3>1, <4>3 DEF Held, Passed
      <4>5. ASSUME NEW k \in Own(s, n) PROVE part[s][Cardinality(Own(s, k))] = efile[k]
        <5> DEFINE r == Cardinality(Own(s, k))
        <5>1. r \in 1..Cardinality(Own(s, n))
          BY <3>2, RankOfOwn
        <5>2. efile[k] = IF r <= epos[s] THEN part[s][r] ELSE bufs[s][r - epos[s]]
          BY <2>2, <3>1 DEF Held
        <5> HIDE DEF r
        <5>3. r <= epos[s]
          BY <4>1, <4>3, <4>4, <5>1
        <5>4. QED
          BY <5>2, <5>3 DEF r
      <4>6. QED
        BY <4>3, <4>4, <4>5 DEF IsOwnEdges
    <3>4. n = Distributed
      <4>1. [s \in Supers |-> Passed(s)] = [s \in Supers |-> Len(part[s])]
        BY <3>3
      <4>2. Distributed = Cardinality(Pairs([s \in Supers |-> Len(part[s])]))
        BY Typed, DistributedIs DEF EInv
      <4>3. QED
        BY <3>1, <4>1, <4>2, Zenon
    <3>5. \A s \in Supers : IsOwnEdges(part[s], s, n)'
      BY <1>1, <3>3, OwnEdgesStay
    <3>6. QED
      BY <1>1, <1>4, <3>1, <3>2, <3>4, <3>5 DEF SplitExact
  <2>3. QED
    BY <2>1, <2>2
<1>11. QED
  BY <1>6, <1>7, <1>8, <1>9, <1>10 DEF ExactInv

\* Every step keeps the bounds.
LEMMA BoundsStay ==
    ASSUME IInv, BoundsInv, [Next]_vars
    PROVE  BoundsInv'
<1>1. pos + 1 \in Nat /\ (deleted < MaxDeletes => deleted + 1 \in 0..MaxDeletes)
  <2>1. MaxDeletes \in Nat
    BY SizesAssumption
  <2>2. pos \in Nat /\ deleted \in 0..MaxDeletes
    BY DEF BoundsInv
  <2>3. QED
    BY <2>1, <2>2
<1>2. ASSUME Dies PROVE pos' = 0 /\ UNCHANGED <<superPartitions, deleted>>
  BY <1>2 DEF Dies, Forget
<1>3. ASSUME NEW a \in {"size", "read amount is incorrect", "tombstone", "verify"}, Abort(a)
      PROVE  BoundsInv'
  <2>1. pos' = 0 /\ UNCHANGED <<superPartitions, deleted>> /\ fatal' = a
    BY <1>2, <1>3 DEF Abort
  <2>2. QED
    BY <2>1 DEF BoundsInv
<1>4. ASSUME pc = "distribute", NEW s, NEW new, Flush(s, new), fatal' = "no" => pos' \in Nat
      PROVE  BoundsInv'
  <2>1. CASE Abort("verify")
    BY <1>3, <2>1
  <2>2. CASE ~Abort("verify")
    <3>1. UNCHANGED <<superPartitions, fatal, deleted>>
      BY <1>4, <2>2 DEF Flush
    <3>2. fatal = "no"
      BY <1>4 DEF IInv, ModeInv
    <3>3. QED
      BY <1>4, <3>1, <3>2 DEF BoundsInv
  <2>3. QED
    BY <2>1, <2>2
<1>5. CASE \E m \in {"create", "update", "verify", "use"} : Start(m)
  BY <1>5 DEF Start, BoundsInv
<1>6. CASE SanityCheck
  <2>1. CASE Abort("size")
    BY <1>3, <2>1
  <2>2. CASE ~Abort("size")
    <3>1. pos' = StartEdge /\ UNCHANGED <<superPartitions, fatal, deleted>>
      BY <1>6, <2>2 DEF SanityCheck
    <3>2. QED
      BY <3>1, StartEdgeIsNat DEF BoundsInv
  <2>3. QED
    BY <2>1, <2>2
<1>7. CASE Seek
  <2>1. CASE Abort("read amount is incorrect")
    BY <1>3, <2>1
  <2>2. CASE ~Abort("read amount is incorrect")
    <3>1. UNCHANGED <<superPartitions, pos, fatal, deleted>>
      BY <1>7, <2>2 DEF Seek
    <3>2. QED
      BY <3>1 DEF BoundsInv
  <2>3. QED
    BY <2>1, <2>2
<1>8. CASE Distribute
  <2> DEFINE e == efile[pos + 1]
             s == SuperOf(e)
             new == Append(bufs[s], e)
  <2>1. pc = "distribute"
    BY <1>8 DEF Distribute
  <2>2. CASE e = TOMBSTONE
    <3>1. Abort("tombstone")
      BY <1>8, <2>2 DEF Distribute
    <3>2. QED
      BY <1>3, <3>1
  <2>3. CASE e # TOMBSTONE
    <3>1. fatal' = "no" => pos' \in Nat
      BY <1>1, <1>8, <2>3 DEF Distribute
    <3>2. CASE IsFull(new)
      <4>1. Flush(s, new)
        BY <1>8, <2>3, <3>2 DEF Distribute
      <4> HIDE DEF new, s
      <4>2. QED
        BY <1>4, <2>1, <3>1, <4>1
    <3>3. CASE ~IsFull(new)
      <4>1. UNCHANGED <<superPartitions, fatal, deleted>>
        BY <1>8, <2>3, <3>3 DEF Distribute
      <4>2. fatal = "no"
        BY <2>1 DEF IInv, ModeInv
      <4>3. QED
        BY <3>1, <4>1, <4>2 DEF BoundsInv
    <3>4. QED
      BY <3>2, <3>3
  <2>4. QED
    BY <2>2, <2>3
<1>9. CASE FlushRest
  <2>1. PICK s \in Supers : Flush(s, bufs[s]) /\ (fatal' = "no" => UNCHANGED pos)
    BY <1>9 DEF FlushRest
  <2>2. pc = "distribute" /\ (fatal' = "no" => pos' \in Nat)
    BY <1>9, <2>1 DEF FlushRest, BoundsInv
  <2>3. QED
    BY <1>4, <2>1, <2>2
<1>10. CASE Close \/ End
  <2>1. CASE Close
    BY <2>1 DEF Close, Forget, BoundsInv
  <2>2. CASE End
    BY <2>2 DEF End, BoundsInv
  <2>3. QED
    BY <1>10, <2>1, <2>2
<1>11. CASE Kill
  <2>1. pos' = 0 /\ UNCHANGED <<superPartitions, deleted, fatal>>
    BY <1>2, <1>11 DEF Kill
  <2>2. QED
    BY <2>1 DEF BoundsInv
<1>12. CASE AddEdge \/ Purge
  <2>1. CASE AddEdge
    BY <2>1 DEF AddEdge, BoundsInv
  <2>2. CASE Purge
    <3>1. UNCHANGED <<superPartitions, pos, fatal, deleted>>
      BY <2>2 DEF Purge
    <3>2. QED
      BY <3>1 DEF BoundsInv
  <2>3. QED
    BY <1>12, <2>1, <2>2
<1>13. CASE Delete
  <2>1. deleted' \in 0..MaxDeletes /\ UNCHANGED <<superPartitions, pos, fatal>>
    BY <1>1, <1>13 DEF Delete
  <2>2. QED
    BY <2>1 DEF BoundsInv
<1>14. CASE UNCHANGED vars
  BY <1>14 DEF vars, BoundsInv
<1>15. QED
  BY <1>5, <1>6, <1>7, <1>8, <1>9, <1>10, <1>11, <1>12, <1>13, <1>14 DEF Next

\* Only a create mends the files.
LEMMA OnlyCreateMends ==
    ASSUME [Next]_vars, ~Start("create"), harm' = "none"
    PROVE  harm = "none"
<1>1. Dies => harm = "none"
  BY DEF Dies
<1>2. ASSUME NEW s, NEW new, Flush(s, new) PROVE harm = "none"
  BY <1>1, <1>2 DEF Flush, Abort
<1>3. CASE \E m \in {"create", "update", "verify", "use"} : Start(m)
  BY <1>3 DEF Start
<1>4. CASE SanityCheck \/ Seek \/ Kill
  BY <1>1, <1>4 DEF SanityCheck, Seek, Kill, Abort
<1>5. CASE Distribute
  BY <1>1, <1>2, <1>5 DEF Distribute, Abort
<1>6. CASE FlushRest
  BY <1>2, <1>6 DEF FlushRest
<1>7. CASE Close \/ End \/ AddEdge \/ Delete \/ Purge
  BY <1>7 DEF Close, End, AddEdge, Delete, Purge
<1>8. CASE UNCHANGED vars
  BY <1>8 DEF vars
<1>9. QED
  BY <1>3, <1>4, <1>5, <1>6, <1>7, <1>8 DEF Next

\* Every step keeps the invariant.
LEMMA NextExact ==
    ASSUME ExactUnlessHarmed, [Next]_vars
    PROVE  ExactUnlessHarmed'
<1>1. IInv' /\ BoundsInv'
  BY NextInv, BoundsStay DEF ExactUnlessHarmed
<1>4. CASE Start("create")
  BY <1>1, <1>4, CreateExact DEF ExactUnlessHarmed
<1>2. ASSUME ~Start("create"), harm' = "none" PROVE ExactInv'
  <2>14. EInv
    BY <1>2, OnlyCreateMends DEF ExactUnlessHarmed, EInv
  <2>1. CASE \E m \in {"create", "update", "verify", "use"} : Start(m)
    BY <1>2, <2>1, <2>14, StartExact
  <2>2. CASE SanityCheck
    BY <1>2, <2>2, <2>14, SanityCheckExact
  <2>3. CASE Seek
    BY <1>2, <2>3, <2>14, SeekExact
  <2>4. CASE Distribute
    BY <1>2, <2>4, <2>14, DistributeExact
  <2>5. CASE FlushRest
    BY <1>2, <2>5, <2>14, FlushRestExact
  <2>6. CASE Close
    BY <1>2, <2>6, <2>14, CloseExact
  <2>7. CASE End
    BY <1>2, <2>7, <2>14, EndExact
  <2>8. CASE Kill
    BY <1>2, <2>8, <2>14, KillExact
  <2>9. CASE AddEdge
    BY <1>2, <2>9, <2>14, AddEdgeExact
  <2>10. CASE Delete
    BY <1>2, <2>10, <2>14, DeleteExact
  <2>11. CASE Purge
    BY <1>2, <2>11, <2>14, PurgeExact
  <2>12. CASE UNCHANGED vars
    <3>1. UNCHANGED <<superPartitions, efile, part, bf, pc, mode, pos, bufs, epos, bpos, fatal, fresh, deleted>>
      BY <2>12 DEF vars
    <3>2. (Undeleted' <=> Undeleted) /\ (Building' <=> Building) /\ (MoreEdges' <=> MoreEdges)
      BY <3>1 DEF Undeleted, Building, MoreEdges
    <3>3. VerifyAccepts' /\ GraphExact' /\ GraphRunExact' /\ SplitIndexed'
      BY <2>14, <3>1, <3>2 DEF EInv, ExactInv, VerifyAccepts, GraphExact, GraphRunExact, SplitIndexed
    <3>4. SplitExact'
      <4>1. CASE pc = "distribute" /\ Building
        BY <3>1, <3>2, <4>1 DEF SplitExact
      <4>2. CASE ~(pc = "distribute" /\ Building)
        BY <2>14, <3>1, <4>2, FilesStay DEF EInv, ExactInv
      <4>3. QED
        BY <4>1, <4>2
    <3>5. SplitRunExact'
      <4> SUFFICES ASSUME superPartitions # 1, pc = "distribute", Undeleted, Building \/ fresh
                   PROVE  SplitRunExact'
        BY <3>1, <3>2 DEF SplitRunExact
      <4>1. PICK n \in 0..Len(efile) :
               /\ n = pos /\ n = Cardinality(Pairs([s \in Supers |-> Passed(s)]))
               /\ \A s \in Supers :
                     /\ Held(part[s], epos[s], bufs[s], s, n)
                     /\ (~Building /\ (MoreEdges \/ bufs[s] # <<>>)) => epos[s] = bpos[s] * EdgesPerBuf
        BY <2>14 DEF EInv, ExactInv, SplitRunExact
      <4>2. ASSUME NEW s \in Supers PROVE Held(part[s], epos[s], bufs[s], s, n)'
        <5>1. PICK edges, at, buf : edges = part[s] /\ at = epos[s] /\ buf = bufs[s]
          OBVIOUS
        <5>2. Held(edges, at, buf, s, n)'
          BY <3>1, <4>1, <5>1, HeldStays
        <5>3. QED
          BY <3>1, <5>1, <5>2 DEF Held, Own, SuperOf
      <4>3. n = Cardinality(Pairs([s \in Supers |-> Passed(s)]))'
        BY <3>1, <4>1 DEF Pairs, Passed
      <4>4. QED
        BY <3>1, <3>2, <4>1, <4>2, <4>3 DEF SplitRunExact
    <3>6. QED
      BY <3>3, <3>4, <3>5 DEF ExactInv
  <2>13. QED
    BY <2>1, <2>2, <2>3, <2>4, <2>5, <2>6, <2>7, <2>8, <2>9, <2>10, <2>11, <2>12 DEF Next
<1>3. QED
  BY <1>1, <1>2, <1>4 DEF ExactUnlessHarmed

-----------------------------------------------------------------------------
(* The theorems about what the files hold *)

\* What the files hold exactly, unless only a create can mend them: the groups of
\* a new index, and the edges of the graph in its order.
THEOREM ExactAlways ==
    Spec => []ExactUnlessHarmed
<1>1. Init => ExactUnlessHarmed
  BY InitExact
<1>2. ExactUnlessHarmed /\ [Next]_vars => ExactUnlessHarmed'
  BY NextExact
<1>3. QED
  BY <1>1, <1>2, PTL DEF Spec

\* Incremental updates are as good as a new index.
THEOREM UpdatesRebuild ==
    Spec => []UpdateIsRebuild
<1>1. ExactUnlessHarmed => UpdateIsRebuild
  <2> SUFFICES ASSUME EInv, fresh, Undeleted, NEW s \in Supers
               PROVE  /\ superPartitions > 1 => IsOwnEdges(part[s], s, Len(efile))
                      /\ bf[s] = Index(EdgeFile(s))
    BY DEF UpdateIsRebuild, ExactUnlessHarmed, EInv
  <2>1. mode # "none" /\ ~(pc = "distribute" /\ Building)
    BY DEF EInv, IInv, ModeInv
  <2>2. CASE superPartitions = 1
    <3>1. s = 0 /\ ~(superPartitions > 1)
      BY <2>2
    <3>2. QED
      BY <2>1, <2>2, <3>1 DEF EInv, ExactInv, GraphExact, EdgeFile
  <2>3. CASE superPartitions # 1
    BY <2>1, <2>3 DEF EInv, ExactInv, SplitIndexed, SplitExact, EdgeFile
  <2>4. QED
    BY <2>2, <2>3
<1>2. QED
  BY <1>1, ExactAlways, PTL

\* Every variable keeps its type, verify accepts what create and update wrote, and
\* an update that found no group has built nothing.
THEOREM IndexIsSafe ==
    Spec => []IndexInv
<1>1. ExactUnlessHarmed => IndexInv
  <2> SUFFICES ASSUME ExactUnlessHarmed PROVE TypeOK /\ VerifyAccepts /\ NothingBuilt
    BY DEF IndexInv
  <2>1. /\ superPartitions \in SuperPartitionCounts
        /\ efile \in Seq(Sources \cup {TOMBSTONE}) /\ Len(efile) <= MaxEdges
        /\ pc \in {"idle", "check", "seek", "distribute", "query"}
        /\ mode \in {"none", "create", "update", "verify", "use"}
        /\ pos \in Nat /\ epos \in [Supers -> Nat] /\ bpos \in [Supers -> Nat]
        /\ fatal \in {"no", "size", "read amount is incorrect", "tombstone", "verify"}
        /\ fresh \in BOOLEAN /\ harm \in {"none", "wrapped", "torn"} /\ deleted \in 0..MaxDeletes
    BY DEF ExactUnlessHarmed, IInv, TypeInv, BoundsInv, Edges
  <2>2. /\ DOMAIN part = Supers /\ \A s \in Supers : part[s] \in Seq(Sources)
        /\ DOMAIN bufs = Supers
        /\ \A s \in Supers : bufs[s] \in Seq(Sources) /\ Len(bufs[s]) < EdgesPerBuf
    BY DEF ExactUnlessHarmed, IInv, TypeInv
  <2>3. /\ DOMAIN bf = Supers
        /\ \A s \in Supers : \A g \in DOMAIN bf[s] : bf[s][g] \in [Bits -> SUBSET (0..SimdLen - 1)]
    <3>1. bf \in [Supers -> Seq(Rows)]
      BY DEF ExactUnlessHarmed, IInv, TypeInv
    <3>2. ASSUME NEW s \in Supers, NEW g \in DOMAIN bf[s] PROVE bf[s][g] \in Rows
      <4>1. bf[s] \in Seq(Rows)
        BY <3>1
      <4>2. g \in 1..Len(bf[s])
        BY <3>2, <4>1
      <4>3. QED
        BY <4>1, <4>2, ElementOfSeq
    <3>3. QED
      BY <3>1, <3>2 DEF Rows
  <2>4. VerifyAccepts /\ NothingBuilt
    BY DEF ExactUnlessHarmed, ExactInv, VerifyAccepts, IInv, WrapInv, NothingBuilt
  <2>5. QED
    BY <2>1, <2>2, <2>3, <2>4 DEF TypeOK
<1>2. QED
  BY <1>1, ExactAlways, PTL
=============================================================================
