----------------------------- MODULE WorkProofs -----------------------------
(* Proofs about Work, for any number of workers, updates, buffers and      *)
(* files, with and without loopback: no update is lost or doubled, and the *)
(* flush protocol's barriers match.                                        *)
(*                                                                         *)
(* The inductive invariant has three parts.  Phase says that the threads   *)
(* go through the protocol together: in each phase the places where thread *)
(* 0 and the others can be.  LoopBufInv, RefInv and RequestInv say which   *)
(* buffers are in whose hands.  ThreadInv, SlotInv and LoopInv say what    *)
(* those buffers contain, so that every update is Accounted for: it is     *)
(* still with its thread, or in exactly one other place.                   *)
EXTENDS Work, SequenceTheorems, FiniteSetTheorems, WellFoundedInduction, TLAPS

-----------------------------------------------------------------------------
(* The inductive invariant *)

\* Where thread 0 still has the buffer that is looped back.
LoopPcs == {"getloop", "loop1", "lclaim", "lcopy", "loop2", "lsplit", "lswitch", "lindex",
            "lsteady", "loop3", "loop4", "drain", "loop5", "release"}

\* Where a thread may be while the buffer is filled.
FillPcs == {"emit", "reserve", "cas", "copy", "finalflush", "flush", "return"}
Pcs == FillPcs \cup LoopPcs \cup
       {"test", "split", "switch", "index", "steady", "early", "out", "append", "getout",
        "ret", "final", "freeout", "end", "stopped"}

\* The types of all variables; what TypeOK leaves out comes first.
Types ==
    /\ superPartitions \in SuperPartitionCounts /\ loopback \in BOOLEAN
    /\ pc \in [Threads -> Pcs]
    /\ caller \in [Threads -> {"append", "final"}]
    /\ empty \in [Threads -> BOOLEAN]
    /\ loopbuf \in [Threads -> Buffers \cup {NULL}]
    /\ slots \in [Buffers -> [1..Cap -> Updates \cup {NULL}]]
    /\ indexed \in [Buffers -> BOOLEAN]
    /\ skip \in [Buffers -> {Superp, NULL}]
    /\ partq \in BOOLEAN /\ busy \in BOOLEAN /\ onDisk \in BOOLEAN
    /\ written \in [Updates -> Nat] /\ applied \in [Updates -> Nat]
    /\ TypeOK

\* Thread 0 is at one of A, every other thread at one of B.
Lock(A, B) == \A t \in Threads : pc[t] \in IF t = 0 THEN A ELSE B

\* The phases that all threads go through together.
Filling == /\ out # NULL /\ Lock(FillPcs, FillPcs)
           /\ \A t \in Threads : pc[t] \in {"flush", "return"} => ~empty[t]
Testing == /\ out # NULL /\ Lock({"test", "split", "ret"}, {"test", "split", "ret"})
           /\ \A t \in Threads : /\ empty[t] <=> pc[t] = "ret"
                                 /\ pc[t] = "split" => bufsize[out] > 0
                                 /\ pc[t] = "ret" => bufsize[out] = 0 /\ caller[t] = "final"
Indexing == /\ out # NULL /\ \A t \in Threads : ~empty[t]
            /\ \/ Lock({"switch"}, {"switch"})
               \/ Lock({"index", "steady"}, {"steady"})
Handing == /\ loopback /\ \A t \in Threads : ~empty[t]
           /\ Lock({"out", "append", "getloop", "loop1"}, {"loop1"})
Copying == /\ loopback /\ \A t \in Threads : ~empty[t]
           /\ Lock({"lclaim", "lcopy", "loop2"}, {"lclaim", "lcopy", "loop2"})
Sorting == /\ loopback /\ \A t \in Threads : ~empty[t]
           /\ \/ Lock({"lsplit"}, {"lsplit"})
              \/ Lock({"lswitch"}, {"lswitch"})
              \/ Lock({"lindex", "lsteady"}, {"lsteady"})
              \/ Lock({"loop3"}, {"loop3"})
              \/ Lock({"loop4"}, {"loop4"})
Draining == /\ loopback /\ \A t \in Threads : ~empty[t]
            /\ Lock({"drain", "loop5"}, {"drain", "loop5"})
            /\ \A t \in Threads : pc[t] = "loop5" => ~partq
Returning == /\ \A t \in Threads : ~empty[t]
             /\ IF loopback THEN Lock({"release", "getout", "ret"}, {"ret"})
                            ELSE Lock({"out", "append", "getout", "ret"}, {"ret"})
Leaving == /\ out # NULL /\ bufsize[out] = 0 /\ Lock({"return", "final"}, {"return", "final"})
           /\ \A t \in Threads : pc[t] = "return" => empty[t] /\ caller[t] = "final"
NoOutput == out = NULL /\ Lock({"return", "reserve", "final"}, {"return", "reserve", "final"})
Closing == /\ out # NULL => bufsize[out] = 0
           /\ \/ Lock({"freeout", "end"}, {"end"})
              \/ Lock({"stopped"}, {"stopped"})

Phase == \/ Filling \/ Testing \/ Indexing \/ Handing \/ Copying \/ Sorting \/ Draining
         \/ Returning \/ Leaving \/ NoOutput \/ Closing

\* What a thread knows about its own updates and its place in the buffer.
ThreadInv(t) ==
    /\ Len(outbuf[t]) <= emitted[t] /\ emitted[t] <= total[t]
    /\ \A j \in 1..Len(outbuf[t]) : outbuf[t][j] = <<t, emitted[t] - Len(outbuf[t]) + j>>
    /\ caller[t] = "final" => /\ emitted[t] = total[t] /\ outbuf[t] = <<>>
                              /\ pc[t] \notin {"emit", "reserve", "cas", "copy", "finalflush"}
    /\ pc[t] \in {"final", "freeout", "end", "stopped"} => caller[t] = "final"
    /\ pc[t] \in {"emit", "finalflush"} => outbuf[t] = <<>>
    /\ pc[t] = "finalflush" => emitted[t] = total[t]
    /\ pc[t] \in {"cas", "copy"} => /\ out # NULL
                                    /\ space[t] <= Len(outbuf[t])
                                    /\ offset[t] + space[t] <= Cap
                                    /\ space[t] = Len(outbuf[t]) \/ offset[t] + space[t] = Cap
    /\ pc[t] = "copy" => offset[t] + space[t] <= bufsize[out]
    /\ pc[t] \in {"flush", "test"} /\ caller[t] = "append" => bufsize[out] = Cap

\* The buffer being looped back, and what out is, while thread 0 is at work.
LoopBufInv ==
    /\ pc[0] \in {"out", "append"} \cup (LoopPcs \ {"getloop"}) => out # NULL
    /\ pc[0] \in {"getloop", "getout"} => out = NULL
    /\ pc[0] \in {"loop1", "ret"} /\ out # NULL => bufsize[out] = 0
    /\ \A t \in Threads :
         pc[t] \in {"flush", "test", "split", "switch", "index", "steady"} => loopbuf[t] = out
    /\ pc[0] \in {"out", "append"} => \A t \in Threads : loopbuf[t] = out
    /\ pc[0] \in LoopPcs => /\ loopbuf[0] # NULL /\ loopbuf[0] # out
                            /\ \A t \in Threads : loopbuf[t] = loopbuf[0]
                            /\ IF superPartitions = 1 THEN request = NULL
                                                      ELSE request = loopbuf[0]

\* Where thread 0 has not indexed the output buffer yet.
FreshPcs == FillPcs \cup {"test", "split", "ret", "switch", "index", "loop1", "lclaim", "lcopy",
                          "loop2", "lsplit", "lswitch", "lindex"}
OutHeld == out # NULL /\ pc[0] \notin {"end", "stopped"}
LoopHeld == loopback /\ pc[0] \in {"append"} \cup LoopPcs

One(p) == IF p THEN 1 ELSE 0

\* Every buffer has the references that the protocol has taken, and one
\* without any is not indexed.
RefInv ==
    /\ \A b \in Buffers :
         /\ refcount[b] = One(OutHeld /\ b = out) + One(b \in {request, cache})
                          + One(LoopHeld /\ b = loopbuf[0])
         /\ refcount[b] = 0 => ~indexed[b]
    /\ OutHeld => out \notin {request, cache}
    /\ out # NULL /\ pc[0] \in FreshPcs => ~indexed[out]

\* disk_stream_out between two appends.
RequestInv ==
    /\ cache # NULL => superPartitions = 1 /\ ~loopback /\ request \in {NULL, cache}
    /\ loopback /\ superPartitions = 1 => request = NULL
    /\ busy => request # NULL
    /\ request # NULL /\ ~busy => onDisk
    /\ pc[0] = "append" /\ loopback => superPartitions # 1
    /\ \A b \in Buffers :
         skip[b] = IF loopback /\ ((busy /\ b = request) \/ (pc[0] = "append" /\ b = out))
                   THEN Superp ELSE NULL

\* Positions that a thread has reserved and not filled yet.
Hole(i) == \E t \in Threads : pc[t] = "copy" /\ i \in offset[t] + 1..offset[t] + space[t]
Placed == {i \in 1..bufsize[out] : ~Hole(i)}

Distinct(b, at) == \A i, j \in at : /\ slots[b][i] \in Updates
                                    /\ slots[b][i] = slots[b][j] => i = j
OutLive == out # NULL /\ pc[0] \notin LoopPcs \cup {"end", "stopped"}

\* What has been copied to a buffer are updates, each of them once; two
\* threads never reserve the same position.
SlotInv ==
    /\ OutLive => Distinct(out, Placed)
    /\ cache # NULL => Distinct(cache, 1..bufsize[cache])
    /\ busy => Distinct(request, 1..bufsize[request])
    /\ pc[0] \in LoopPcs => Distinct(loopbuf[0], 1..bufsize[loopbuf[0]])
    /\ \A t, u \in Threads :
         pc[t] = "copy" /\ pc[u] = "copy" /\ t # u =>
             offset[t] + space[t] <= offset[u] \/ offset[u] + space[u] <= offset[t]

\* The loopback copies the updates for the current super partition to out.
Size(t) == Cardinality(ToCurrent(t))
Claimed == {t \in Threads : pc[t] # "lclaim"}
ToLoop == {i \in 1..bufsize[loopbuf[0]] : Dest(slots[loopbuf[0]][i]) = Superp}
Looped == {i \in ToLoop : \E t \in Claimed : i \in Slice(loopbuf[0], t)}
LoopInv ==
    pc[0] \in LoopPcs \ {"getloop", "loop1", "release"} =>
        /\ bufsize[out] = Cardinality(Looped)
        /\ \A t \in Claimed : offset[t] + Size(t) <= bufsize[out]
        /\ \A t, u \in Claimed :
             t # u => offset[t] + Size(t) <= offset[u] \/ offset[u] + Size(u) <= offset[t]
        /\ \A i \in 1..bufsize[out] :
             \E t \in Claimed : i \in offset[t] + 1..offset[t] + Size(t)
        /\ \A t \in Claimed : pc[t] # "lcopy" =>
             \A k \in 1..Size(t) : slots[out][offset[t] + k] = Substream(t)[k]
        /\ pc[0] \in {"lsteady", "loop3", "loop4"} => partq = (bufsize[out] > 0)

\* Where update u is: still with its thread, or in exactly one other place.
Taken(u) == u[2] <= emitted[u[1]] - Len(outbuf[u[1]])
InOut(u) == OutLive /\ \E i \in Placed : slots[out][i] = u
InCache(u) == InBuffer(cache, u) /\ cache # request
InRequest(u) == busy /\ InBuffer(request, u) /\ Dest(u) # skip[request]
NotApplied == \/ pc[0] \in LoopPcs \ {"drain", "loop5", "release"}
              \/ pc[0] = "drain" /\ partq
InLoop(u) == NotApplied /\ InBuffer(loopbuf[0], u) /\ Dest(u) = Superp
Accounted(u) ==
    written[u] + applied[u] + One(InOut(u)) + One(InCache(u)) + One(InRequest(u))
        + One(InLoop(u)) = One(Taken(u))

\* The inductive invariant.
IInv == /\ Types /\ Phase /\ LoopBufInv /\ RefInv /\ RequestInv /\ SlotInv /\ LoopInv
        /\ \A t \in Threads : ThreadInv(t)
        /\ \A u \in Updates : Accounted(u)

-----------------------------------------------------------------------------
(* Facts about sets, sequences and the constants *)

\* The least element of a set of numbers, which GetBuffer takes, is one of them.
LEMMA MinIn ==
  ASSUME NEW S \in SUBSET Nat, S # {}
  PROVE  Min(S) \in S
<1> DEFINE R == {p \in Nat \X Nat : p[1] < p[2]}
<1>1. IsWellFoundedOn(R, Nat)
  BY NatLessThanWellFounded DEF OpToRel
<1> HIDE DEF R
<1>2. PICK x \in S : \A y \in S : <<y, x>> \notin R
  BY <1>1, WFMin
<1>3. ASSUME NEW y \in S, y < x PROVE FALSE
  <2>1. <<y, x>> \in R
    BY <1>3 DEF R
  <2>2. QED
    BY <1>2, <2>1
<1>5. \A y \in S : x <= y
  BY <1>3
<1>4. QED
  BY <1>5 DEF Min

\* What fits: the lesser of the room left and the updates there are.
LEMMA MinOfTwo ==
  ASSUME NEW a \in Nat, NEW b \in Nat
  PROVE  /\ Min({a, b}) \in {a, b}
         /\ Min({a, b}) <= a /\ Min({a, b}) <= b
  BY DEF Min

\* A sequence made of a finite set has each of its elements once.
LEMMA SetToSeqIsBijection ==
  ASSUME NEW S, IsFiniteSet(S)
  PROVE  /\ Cardinality(S) \in Nat
         /\ SetToSeq(S) \in [1..Cardinality(S) -> S]
         /\ \A i, j \in 1..Cardinality(S) : SetToSeq(S)[i] = SetToSeq(S)[j] => i = j
         /\ \A x \in S : \E i \in 1..Cardinality(S) : SetToSeq(S)[i] = x
<1>1. Cardinality(S) \in Nat /\ ExistsBijection(1..Cardinality(S), S)
  BY FS_CardinalityType
<1>2. PICK g \in Bijection(1..Cardinality(S), S) : TRUE
  BY <1>1 DEF ExistsBijection
<1>3. g \in [1..Cardinality(S) -> S] /\ IsInjective(g)
  BY <1>2 DEF Bijection, Injection, IsInjective
<1>4. PICK f : /\ f = SetToSeq(S)
               /\ f \in [1..Cardinality(S) -> S] /\ IsInjective(f)
  BY <1>3 DEF SetToSeq
<1>5. IsFiniteSet(1..Cardinality(S)) /\ Cardinality(1..Cardinality(S)) = Cardinality(S)
  BY <1>1, FS_Interval
<1>6. f \in Injection(1..Cardinality(S), S)
  BY <1>4 DEF Injection
<1>7. f \in Surjection(1..Cardinality(S), S)
  BY <1>5, <1>6, FS_Injection
<1>8. \A i, j \in 1..Cardinality(S) : f[i] = f[j] => i = j
  BY <1>4 DEF IsInjective
<1>9. \A x \in S : \E i \in 1..Cardinality(S) : f[i] = x
  BY <1>7 DEF Surjection
<1> QED
  BY <1>1, <1>4, <1>8, <1>9, SMT

\* What the assumptions on the constants say of threads, buffers and NULL.
LEMMA Basics ==
  /\ 0 \in Threads /\ Threads \subseteq Nat /\ Processors \in Nat \ {0}
  /\ MaxEmit \in Nat \ {0} /\ OutMax \in Nat \ {0} /\ Cap \in Nat \ {0}
  /\ NumBuffers \in Nat \ {0} /\ 1 \in Buffers /\ Buffers \subseteq Nat
  /\ SuperPartitionCounts \subseteq Nat \ {0}
  /\ NULL \notin Buffers /\ NULL \notin Int /\ NULL \notin Updates
<1>1. MaxEmit \in Nat \ {0} /\ OutMax \in Nat \ {0} /\ Cap \in Nat \ {0}
      /\ NumBuffers \in Nat \ {0}
  BY SizesAssumption
<1>2. SuperPartitionCounts \subseteq Nat \ {0}
  BY SizesAssumption
<1>3. 0 \in Threads /\ Threads \subseteq Nat /\ Processors \in Nat \ {0}
  BY ProcessorsAssumption DEF Threads
<1>4. 1 \in Buffers /\ Buffers \subseteq Nat
  BY <1>1 DEF Buffers
<1>5. NULL \notin Int /\ NULL \notin Updates
  BY NullAssumption, Zenon
<1>6. NULL \notin Buffers
  <2>1. Buffers \subseteq Int
    BY <1>4
  <2>2. QED
    BY <1>5, <2>1, Zenon
<1>7. QED
  BY <1>1, <1>2, <1>3, <1>4, <1>5, <1>6

\* A set of positions is finite, and no larger than what it is taken from.
LEMMA InRange ==
  ASSUME NEW m \in Nat, NEW S \in SUBSET (1..m)
  PROVE  IsFiniteSet(S) /\ Cardinality(S) \in Nat /\ Cardinality(S) <= m
<1>1. IsFiniteSet(1..m) /\ Cardinality(1..m) = m
  BY FS_Interval
<1>2. QED
  BY <1>1, FS_Subset, FS_CardinalityType

\* map_super_partition_wrap gives a super partition of the stream.
LEMMA DestType ==
  ASSUME superPartitions \in SuperPartitionCounts, NEW u \in Updates
  PROVE  /\ Dest(u) \in 0..superPartitions - 1
         /\ Dest(u) # NULL /\ Superp # NULL /\ Superp \in 0..superPartitions - 1
<1>1. superPartitions \in Nat \ {0} /\ Superp \in 0..superPartitions - 1
  BY Basics, SuperpAssumption
<1>2. u[1] + u[2] \in Nat
  <2>1. PICK t \in Threads, k \in 1..MaxEmit : u = <<t, k>>
    BY DEF Updates
  <2>2. t \in Nat /\ k \in Nat
    BY Basics
  <2>3. QED
    BY <2>1, <2>2
<1>3. Dest(u) \in 0..superPartitions - 1
  BY <1>1, <1>2 DEF Dest
<1>4. QED
  BY <1>1, <1>3, Basics

\* SETUP_STREAMOUT leaves the work item in a state of the invariant.
LEMMA InitIInv == Init => IInv
<1> SUFFICES ASSUME Init PROVE IInv
  OBVIOUS
<1> USE Basics
<1>1. TypeOK
  BY DEF Init, TypeOK
<1>2. Types
  BY <1>1 DEF Init, Types, Pcs, FillPcs, LoopPcs
<1>3. Phase
  BY DEF Init, Phase, Filling, Lock, FillPcs
<1>4. LoopBufInv
  BY DEF Init, LoopBufInv, LoopPcs
<1>5. RefInv
  BY DEF Init, RefInv, OutHeld, LoopHeld, LoopPcs, One
<1>6. RequestInv
  BY DEF Init, RequestInv
<1>7. SlotInv
  BY DEF Init, SlotInv, Distinct, Placed, LoopPcs
<1>8. LoopInv
  BY DEF Init, LoopInv, LoopPcs
<1>9. \A t \in Threads : ThreadInv(t)
  BY DEF Init, ThreadInv
<1>10. ASSUME NEW u \in Updates PROVE Accounted(u)
  <2>1. ~InOut(u)
    BY DEF Init, InOut, Placed
  <2>2. ~InCache(u) /\ ~InRequest(u)
    BY DEF Init, InCache, InRequest, InBuffer
  <2>3. ~InLoop(u)
    BY DEF Init, InLoop, NotApplied, LoopPcs
  <2>4. ~Taken(u)
    BY DEF Init, Taken, Updates
  <2>5. written[u] = 0 /\ applied[u] = 0
    BY DEF Init
  <2>6. QED
    BY <2>1, <2>2, <2>3, <2>4, <2>5 DEF Accounted, One
<1>11. QED
  BY <1>2, <1>3, <1>4, <1>5, <1>6, <1>7, <1>8, <1>9, <1>10 DEF IInv

\* A quotient of the buffer's size and the processors, as make_index takes it.
LEMMA Division ==
    ASSUME NEW a \in Nat, NEW b \in Nat \ {0}
    PROVE  /\ a \div b \in Nat /\ a % b \in 0..b - 1
           /\ a = b * (a \div b) + (a % b)
OBVIOUS

\* A product grows with its second factor.
LEMMA Monotone ==
    ASSUME NEW n \in Nat, NEW x \in Nat, NEW y \in Nat, x <= y
    PROVE  n * x <= n * y
OBVIOUS

\* make_index cuts a buffer into one slice per processor: every position is in
\* one of them, and in no other.
LEMMA Slices ==
  ASSUME NEW b \in Buffers, bufsize[b] \in Nat
  PROVE  /\ \A t \in Threads : Slice(b, t) \subseteq 1..bufsize[b]
         /\ \A t, u \in Threads : t # u => Slice(b, t) \cap Slice(b, u) = {}
         /\ \A i \in 1..bufsize[b] : \E t \in Threads : i \in Slice(b, t)
<1> DEFINE n == bufsize[b]
           P == Processors
           c == n \div P
           first(t) == c * t + 1
           last(t) == IF t = P - 1 THEN n ELSE c * (t + 1)
<1>1. P \in Nat \ {0} /\ n \in Nat
  BY ProcessorsAssumption
<1>2. c \in Nat /\ P * c <= n
  <2>1. c \in Nat /\ n % P \in 0..P - 1 /\ n = P * c + (n % P)
    BY <1>1, Division
  <2> HIDE DEF c, P, n
  <2>2. P * c \in Nat
    BY <1>1, <2>1
  <2>3. QED
    BY <1>1, <2>1, <2>2
<1>3. \A t \in Threads : Slice(b, t) = first(t)..last(t)
  BY DEF Slice
<1> HIDE DEF c, n
<1>4. ASSUME NEW t \in Threads
      PROVE  /\ t \in 0..P - 1 /\ first(t) \in Nat \ {0} /\ last(t) \in Nat /\ last(t) <= n
             /\ t < P - 1 => last(t) = first(t + 1) - 1
             /\ c * (t + 1) <= n
  <2>1. t \in Nat /\ t + 1 <= P
    BY <1>1 DEF Threads
  <2>2. c * t \in Nat /\ c * (t + 1) \in Nat /\ c * P \in Nat /\ c * P = P * c
    BY <1>1, <1>2, <2>1
  <2>3. c * (t + 1) <= c * P
    BY <1>1, <1>2, <2>1, Monotone
  <2>4. QED
    BY <1>1, <1>2, <2>1, <2>2, <2>3 DEF Threads
<1>5. ASSUME NEW t \in Threads, NEW u \in Threads, t < u
      PROVE  last(t) < first(u)
  <2>1. t \in Nat /\ u \in Nat /\ t + 1 <= u /\ u <= P - 1 /\ t < P - 1
    BY <1>1, <1>5 DEF Threads
  <2>2. c * (t + 1) <= c * u
    BY <1>2, <2>1, Monotone
  <2>3. c * (t + 1) \in Nat /\ c * u \in Nat
    BY <1>2, <2>1
  <2>4. QED
    BY <1>1, <2>1, <2>2, <2>3
<1>6. ASSUME NEW i \in 1..n
      PROVE  \E t \in Threads : i \in first(t)..last(t)
  <2>1. CASE i > c * (P - 1)
    <3>1. P - 1 \in Threads /\ c * (P - 1) \in Nat
      BY <1>1, <1>2 DEF Threads
    <3>2. i \in first(P - 1)..last(P - 1)
      BY <1>1, <2>1, <3>1
    <3>3. QED
      BY <3>1, <3>2
  <2>2. CASE i <= c * (P - 1)
    <3>1. c # 0
      <4>1. ASSUME c = 0 PROVE FALSE
        <5>1. c * (P - 1) = 0
          BY <1>1, <4>1
        <5>2. QED
          BY <1>1, <2>2, <5>1
      <4>2. QED
        BY <4>1
    <3> DEFINE q == (i - 1) \div c
               r == (i - 1) % c
    <3>2. c \in Nat \ {0} /\ i - 1 \in Nat
      BY <1>1, <1>2, <3>1
    <3>3. q \in Nat /\ r \in 0..c - 1 /\ i - 1 = c * q + r
      BY <3>2, Division
    <3> HIDE DEF q, r
    <3>4. q < P - 1
      <4>1. ASSUME P - 1 <= q PROVE FALSE
        <5>1. c * (P - 1) <= c * q
          BY <1>1, <3>2, <3>3, <4>1, Monotone
        <5>2. c * (P - 1) \in Nat /\ c * q \in Nat
          BY <1>1, <3>2, <3>3
        <5>3. QED
          BY <1>1, <2>2, <3>2, <3>3, <5>1, <5>2
      <4>2. QED
        BY <1>1, <3>3, <4>1
    <3>5. q \in Threads
      BY <1>1, <3>3, <3>4 DEF Threads
    <3>6. c * (q + 1) = c * q + c /\ c * q \in Nat
      BY <3>2, <3>3
    <3>7. i \in first(q)..last(q)
      BY <1>1, <3>2, <3>3, <3>4, <3>6
    <3>8. QED
      BY <3>5, <3>7
  <2>3. QED
    <3>1. c * (P - 1) \in Int /\ i \in Int
      BY <1>1, <1>2
    <3>2. QED
      BY <2>1, <2>2, <3>1
<1>7. \A t \in Threads : Slice(b, t) \subseteq 1..n
  BY <1>1, <1>3, <1>4
<1>8. ASSUME NEW t \in Threads, NEW u \in Threads, t # u
      PROVE  Slice(b, t) \cap Slice(b, u) = {}
  <2>1. t < u \/ u < t
    BY <1>1, <1>4, <1>8
  <2>2. last(t) < first(u) \/ last(u) < first(t)
    BY <1>5, <2>1
  <2> HIDE DEF first, last
  <2>3. QED
    BY <1>3, <1>4, <2>2
<1>9. QED
  BY <1>3, <1>6, <1>7, <1>8 DEF n

-----------------------------------------------------------------------------
(* Filling the buffer: emit, reserve, claim, copy *)

\* Where the threads are tells which phase they are in.
LEMMA WhichPhase ==
  ASSUME Phase, NEW t \in Threads
  PROVE  /\ pc[t] \in {"emit", "cas", "copy", "finalflush", "flush"} => Filling
         /\ pc[t] = "reserve" => Filling \/ NoOutput
         /\ pc[t] \in {"test", "split"} => Testing
         /\ pc[t] \in {"switch", "index", "steady"} => Indexing
         /\ pc[t] \in {"out", "append"} => IF loopback THEN Handing ELSE Returning
         /\ pc[t] \in {"getloop", "loop1"} => Handing
         /\ pc[t] \in {"lclaim", "lcopy", "loop2"} => Copying
         /\ pc[t] \in {"lsplit", "lswitch", "lindex", "lsteady", "loop3", "loop4"} => Sorting
         /\ pc[t] \in {"drain", "loop5"} => Draining
         /\ pc[t] \in {"release", "getout"} => Returning
         /\ pc[t] = "ret" => Testing \/ Returning
         /\ pc[t] = "return" => Filling \/ Leaving \/ NoOutput
         /\ pc[t] = "final" => Leaving \/ NoOutput
         /\ pc[t] \in {"freeout", "end", "stopped"} => Closing
         /\ pc[t] # "early"
  BY Basics DEF Phase, Filling, Testing, Indexing, Handing, Copying, Sorting, Draining, Returning,
                Leaving, NoOutput, Closing, Lock, FillPcs

\* While the buffer is filled a step of one thread that stays in FillPcs keeps
\* the phase and who has which buffer.
LEMMA FillingFrame ==
  ASSUME IInv, Filling, NEW t \in Threads, NEW l \in FillPcs,
         pc' = [pc EXCEPT ![t] = l],
         UNCHANGED <<workItem, out, indexed, refcount, skip, request, cache, busy, onDisk>>,
         \A u \in Threads \ {t} : empty'[u] = empty[u] /\ loopbuf'[u] = loopbuf[u],
         l \in {"flush", "return"} => ~empty'[t],
         l = "flush" => loopbuf'[t] = out
  PROVE  Filling' /\ Phase' /\ LoopBufInv' /\ RefInv' /\ RequestInv' /\ LoopInv'
<1> USE Basics
<1>1. /\ \A u \in Threads : pc[u] \in FillPcs /\ pc'[u] \in FillPcs
      /\ \A u \in Threads : pc'[u] = IF u = t THEN l ELSE pc[u]
      /\ out # NULL
  BY DEF IInv, Types, Filling, Lock
<1>2. Filling'
  BY <1>1 DEF Filling, Lock
<1>3. pc[0] \notin LoopPcs \cup {"append", "end", "stopped", "out", "getout", "ret"}
      /\ pc'[0] \notin LoopPcs \cup {"append", "end", "stopped", "out", "getout", "ret"}
  BY <1>1 DEF FillPcs, LoopPcs
<1>4. LoopBufInv'
  BY <1>1, <1>3 DEF LoopBufInv, LoopPcs, IInv, FillPcs
<1>5. RefInv'
  <2>1. /\ OutHeld' <=> OutHeld
        /\ ~LoopHeld /\ ~LoopHeld'
    BY <1>3 DEF OutHeld, LoopHeld
  <2>2. \A b \in Buffers : /\ One(OutHeld /\ b = out)' = One(OutHeld /\ b = out)
                           /\ One(LoopHeld /\ b = loopbuf[0])' = One(LoopHeld /\ b = loopbuf[0])
    BY <2>1 DEF One
  <2>3. ~indexed[out]
    BY <1>1 DEF RefInv, IInv, FreshPcs
  <2>4. QED
    BY <2>1, <2>2, <2>3 DEF RefInv, IInv, One
<1>6. RequestInv'
  BY <1>3 DEF RequestInv, IInv, workItem
<1>7. LoopInv'
  BY <1>3 DEF LoopInv
<1>8. QED
  BY <1>2, <1>4, <1>5, <1>6, <1>7 DEF Phase

\* Steps that leave the buffers alone keep what is known about their contents.
LEMMA SameSlots ==
  ASSUME SlotInv, UNCHANGED <<slots, bufsize, out, cache, busy, request>>,
         OutLive' => OutLive /\ Placed' \subseteq Placed,
         pc'[0] \in LoopPcs => pc[0] \in LoopPcs /\ loopbuf'[0] = loopbuf[0],
         \A t, u \in Threads :
           pc'[t] = "copy" /\ pc'[u] = "copy" /\ t # u =>
             offset'[t] + space'[t] <= offset'[u] \/ offset'[u] + space'[u] <= offset'[t]
  PROVE  SlotInv'
<1>1. OutLive' => Distinct(out, Placed)'
  BY DEF SlotInv, Distinct
<1>2. (cache # NULL)' => Distinct(cache, 1..bufsize[cache])'
  BY DEF SlotInv, Distinct
<1>3. busy' => Distinct(request, 1..bufsize[request])'
  BY DEF SlotInv, Distinct
<1>4. pc'[0] \in LoopPcs => Distinct(loopbuf[0], 1..bufsize[loopbuf[0]])'
  BY DEF SlotInv, Distinct
<1>5. QED
  BY <1>1, <1>2, <1>3, <1>4 DEF SlotInv

\* Steps that leave buffers, files and outbufs alone keep every update accounted for.
LEMMA SameAccount ==
  ASSUME NEW u \in Updates, Accounted(u),
         UNCHANGED <<superPartitions, slots, bufsize, out, cache, busy, request, written, applied>>,
         busy => skip'[request] = skip[request],
         InOut(u)' <=> InOut(u),
         NotApplied' <=> NotApplied, NotApplied => loopbuf'[0] = loopbuf[0],
         Taken(u)' <=> Taken(u)
  PROVE  Accounted(u)'
<1>1. InCache(u)' <=> InCache(u)
  BY DEF InCache, InBuffer
<1>2. InRequest(u)' <=> InRequest(u)
  BY DEF InRequest, InBuffer, Dest
<1>3. InLoop(u)' <=> InLoop(u)
  BY DEF InLoop, InBuffer, Dest
<1>4. QED
  BY <1>1, <1>2, <1>3 DEF Accounted, One

\* execute_callback keeps the invariant.
LEMMA EmitIInv ==
  ASSUME IInv, NEW t \in Threads, Emit(t)
  PROVE  IInv'
<1> USE Basics
<1>1. pc[t] = "emit" /\ Filling /\ out # NULL /\ outbuf[t] = <<>>
  BY WhichPhase DEF IInv, Emit, At, Filling, ThreadInv
<1>2. /\ UNCHANGED <<workItem, total, offset, space, caller, empty, loopbuf, out, bufferVars,
                     diskVars, applied, fatal>>
      /\ UNCHANGED <<superPartitions, loopback, bufsize, slots, indexed, refcount, skip, partq,
                     request, cache, busy, onDisk, written>>
  BY DEF Emit, workItem, bufferVars, diskVars
<1>3. PICK l \in {"reserve", "finalflush"}, n \in Nat :
        /\ pc' = [pc EXCEPT ![t] = l]
        /\ emitted' = [emitted EXCEPT ![t] = @ + n] /\ emitted[t] + n <= total[t]
        /\ outbuf' = [outbuf EXCEPT ![t] = [k \in 1..n |-> <<t, emitted[t] + k>>]]
        /\ l = "finalflush" => n = 0 /\ emitted[t] = total[t]
  <2>1. emitted[t] \in Nat /\ total[t] \in Nat /\ emitted[t] <= total[t]
    BY DEF IInv, Types, TypeOK, ThreadInv
  <2>2. CASE emitted[t] < total[t]
    <3>1. PICK n \in 1..Min({OutMax, total[t] - emitted[t]}) :
            /\ outbuf' = [outbuf EXCEPT ![t] = [k \in 1..n |-> <<t, emitted[t] + k>>]]
            /\ emitted' = [emitted EXCEPT ![t] = @ + n]
            /\ pc' = [pc EXCEPT ![t] = "reserve"]
      BY <1>1, <2>2 DEF Emit, Goto
    <3>2. Min({OutMax, total[t] - emitted[t]}) \in Nat
          /\ Min({OutMax, total[t] - emitted[t]}) <= total[t] - emitted[t]
      BY <2>1, <2>2, MinOfTwo
    <3>3. n \in Nat /\ emitted[t] + n <= total[t]
      BY <2>1, <3>2
    <3>4. QED
      BY <3>1, <3>3
  <2>3. CASE ~(emitted[t] < total[t])
    <3>1. UNCHANGED <<outbuf, emitted>> /\ pc' = [pc EXCEPT ![t] = "finalflush"]
      BY <2>3 DEF Emit, Goto
    <3>2. emitted' = [emitted EXCEPT ![t] = @ + 0]
      BY <2>1, <3>1 DEF IInv, Types, TypeOK
    <3>3. outbuf[t] = [k \in 1..0 |-> <<t, emitted[t] + k>>]
      BY <1>1
    <3>4. outbuf' = [outbuf EXCEPT ![t] = [k \in 1..0 |-> <<t, emitted[t] + k>>]]
      BY <3>1, <3>3 DEF IInv, Types, TypeOK
    <3>5. emitted[t] + 0 <= total[t] /\ emitted[t] = total[t]
      BY <2>1, <2>3
    <3>6. 0 \in Nat /\ "finalflush" \in {"reserve", "finalflush"}
      OBVIOUS
    <3>7. QED
      BY <3>1, <3>2, <3>4, <3>5, <3>6, Zenon
  <2>4. QED
    BY <2>2, <2>3
<1> DEFINE new == [k \in 1..n |-> <<t, emitted[t] + k>>]
<1>4. emitted[t] \in Nat /\ total[t] \in 0..MaxEmit
  BY DEF IInv, Types, TypeOK
<1>5. /\ new \in Seq(Updates) /\ Len(new) = n
      /\ \A k \in 1..n : new[k] = <<t, emitted[t] + k>>
  <2>1. \A k \in 1..n : <<t, emitted[t] + k>> \in Updates
    BY <1>3, <1>4 DEF Updates
  <2>2. new \in [1..n -> Updates]
    BY <2>1
  <2>3. QED
    BY <1>3, <2>2, SeqDef
<1> HIDE DEF new
<1>6. /\ outbuf'[t] = new /\ emitted'[t] = emitted[t] + n
      /\ \A u \in Threads \ {t} : outbuf'[u] = outbuf[u] /\ emitted'[u] = emitted[u]
      /\ pc'[t] = l /\ \A u \in Threads \ {t} : pc'[u] = pc[u]
  BY <1>3 DEF new, IInv, Types, TypeOK
<1>7. Types'
  <2>1. emitted' \in [Threads -> 0..MaxEmit]
    <3>1. emitted[t] + n \in 0..MaxEmit
      BY <1>3, <1>4
    <3>2. QED
      BY <1>3, <3>1 DEF IInv, Types, TypeOK
  <2>2. outbuf' \in [Threads -> Seq(Updates)]
    BY <1>3, <1>5 DEF IInv, Types, TypeOK, new
  <2>3. pc' \in [Threads -> Pcs]
    BY <1>3 DEF IInv, Types, Pcs, FillPcs
  <2>4. TypeOK'
    BY <1>2, <2>1, <2>2 DEF IInv, Types, TypeOK
  <2>5. QED
    BY <1>2, <2>3, <2>4 DEF IInv, Types
<1>8. Phase' /\ LoopBufInv' /\ RefInv' /\ RequestInv' /\ LoopInv'
  <2>1. l \in FillPcs /\ l \notin {"flush", "return"}
    BY <1>3 DEF FillPcs
  <2>2. QED
    BY <1>1, <1>2, <1>3, <2>1, FillingFrame
<1>9. Placed' = Placed /\ (OutLive' <=> OutLive)
  BY <1>1, <1>2, <1>3, <1>6 DEF Placed, Hole, OutLive, LoopPcs
<1>10. SlotInv'
  <2>1. \A u, v \in Threads : pc'[u] = "copy" => pc[u] = "copy"
    BY <1>3, <1>6
  <2>2. pc'[0] \in LoopPcs => pc[0] \in LoopPcs /\ loopbuf'[0] = loopbuf[0]
    BY <1>2, <1>3, <1>6 DEF LoopPcs
  <2>3. \A u, v \in Threads :
           pc'[u] = "copy" /\ pc'[v] = "copy" /\ u # v =>
             offset'[u] + space'[u] <= offset'[v] \/ offset'[v] + space'[v] <= offset'[u]
    BY <1>2, <2>1 DEF SlotInv, IInv
  <2>4. QED
    BY <1>2, <1>9, <2>2, <2>3, SameSlots DEF IInv
<1>11. ASSUME NEW u \in Threads PROVE ThreadInv(u)'
  <2>1. CASE u = t
    BY <1>1, <1>2, <1>3, <1>4, <1>5, <1>6, <2>1 DEF ThreadInv, IInv
  <2>2. CASE u # t
    BY <1>2, <1>6, <2>2 DEF ThreadInv, IInv
  <2>3. QED
    BY <2>1, <2>2
<1>12. ASSUME NEW u \in Updates PROVE Accounted(u)'
  <2>1. Taken(u)' <=> Taken(u)
    <3>1. u[1] \in Threads /\ u[2] \in Nat
      BY DEF Updates
    <3>2. CASE u[1] = t
      BY <1>1, <1>4, <1>5, <1>6, <3>1, <3>2 DEF Taken
    <3>3. CASE u[1] # t
      BY <1>6, <3>1, <3>3 DEF Taken
    <3>4. QED
      BY <3>2, <3>3
  <2>2. InOut(u)' <=> InOut(u)
    BY <1>2, <1>9 DEF InOut
  <2>3. NotApplied' <=> NotApplied
    BY <1>1, <1>2, <1>3, <1>6 DEF NotApplied, LoopPcs
  <2>4. QED
    BY <1>2, <2>1, <2>2, <2>3, SameAccount DEF IInv
<1>13. QED
  BY <1>7, <1>8, <1>10, <1>11, <1>12 DEF IInv

\* A step of a filling thread that moves no update keeps all but what the
\* thread knows about itself.
LEMMA QuietFill ==
  ASSUME IInv, Filling, NEW t \in Threads, NEW l \in FillPcs \ {"copy"}, pc[t] # "copy",
         pc' = [pc EXCEPT ![t] = l],
         UNCHANGED <<superPartitions, slots, bufsize, out, cache, busy, request, skip, written,
                     applied>>,
         \A u \in Threads \ {t} : offset'[u] = offset[u] /\ space'[u] = space[u],
         \A u \in Updates : Taken(u)' <=> Taken(u)
  PROVE  SlotInv' /\ \A u \in Updates : Accounted(u)'
<1> USE Basics
<1>1. /\ \A u \in Threads : pc[u] \in FillPcs /\ pc'[u] \in FillPcs
      /\ \A u \in Threads : pc'[u] = IF u = t THEN l ELSE pc[u]
      /\ out # NULL /\ l # "copy"
  BY DEF IInv, Types, Filling, Lock
<1>2. /\ OutLive /\ OutLive'
      /\ pc[0] \notin LoopPcs /\ pc'[0] \notin LoopPcs /\ ~NotApplied /\ ~NotApplied'
  BY <1>1 DEF OutLive, NotApplied, LoopPcs, FillPcs
<1>3. Placed' = Placed
  <2>1. \A i : Hole(i)' <=> Hole(i)
    BY <1>1 DEF Hole
  <2>2. QED
    BY <2>1 DEF Placed
<1>4. \A u, v \in Threads :
           pc'[u] = "copy" /\ pc'[v] = "copy" /\ u # v =>
             offset'[u] + space'[u] <= offset'[v] \/ offset'[v] + space'[v] <= offset'[u]
  BY <1>1 DEF SlotInv, IInv
<1>5. SlotInv'
  BY <1>2, <1>3, <1>4, SameSlots DEF IInv
<1>6. ASSUME NEW u \in Updates PROVE Accounted(u)'
  <2>1. InOut(u)' <=> InOut(u)
    BY <1>2, <1>3 DEF InOut
  <2>2. QED
    BY <1>2, <2>1, SameAccount DEF IInv
<1>7. QED
  BY <1>5, <1>6

\* A step that ends the process, and does nothing else, keeps the invariant.
LEMMA OnlyFatal ==
  ASSUME IInv, fatal' \in {"no", "null", "nobuffer"},
         UNCHANGED <<pc, threadVars, out, bufferVars, diskVars, applied>>
  PROVE  IInv'
<1>1. UNCHANGED <<superPartitions, loopback, total, emitted, outbuf, offset, space, caller, empty,
                  loopbuf, out, bufsize, slots, indexed, refcount, skip, partq, request, cache,
                  busy, onDisk, written, applied, pc>>
  BY DEF threadVars, workItem, bufferVars, diskVars
<1>2. Types'
  BY <1>1 DEF IInv, Types, TypeOK
<1>3. Phase'
  BY <1>1 DEF IInv, Phase, Filling, Testing, Indexing, Handing, Copying, Sorting, Draining,
              Returning, Leaving, NoOutput, Closing, Lock
<1>4. LoopBufInv' /\ RefInv' /\ RequestInv'
  BY <1>1 DEF IInv, LoopBufInv, RefInv, RequestInv, OutHeld, LoopHeld
<1>5. OutLive' = OutLive /\ Placed' = Placed /\ NotApplied' = NotApplied
  BY <1>1 DEF OutLive, Placed, Hole, NotApplied
<1>6. SlotInv'
  BY <1>1, <1>5 DEF IInv, SlotInv, Distinct
<1>7. /\ \A t \in Threads : Size(t)' = Size(t) /\ Substream(t)' = Substream(t)
      /\ Claimed' = Claimed /\ Looped' = Looped
  BY <1>1 DEF Size, Substream, Claimed, Looped, ToLoop, ToCurrent, Slice, Dest
<1>8. LoopInv'
  BY <1>1, <1>7 DEF IInv, LoopInv, Claimed
<1>9. \A t \in Threads : ThreadInv(t)'
  BY <1>1 DEF IInv, ThreadInv
<1>10. ASSUME NEW u \in Updates PROVE Accounted(u)'
  BY <1>1, <1>5, SameAccount DEF IInv, InOut, Taken
<1>11. QED
  BY <1>2, <1>3, <1>4, <1>6, <1>8, <1>9, <1>10 DEF IInv

\* append_buffer's reading of bufsize keeps the invariant.
LEMMA ReserveIInv ==
  ASSUME IInv, NEW t \in Threads, Reserve(t)
  PROVE  IInv'
<1> USE Basics
<1>1. CASE out = NULL
  <2>1. fatal' = "null" /\ UNCHANGED <<pc, threadVars, out, bufferVars, diskVars, applied>>
    BY <1>1 DEF Reserve, threadVars
  <2>2. QED
    BY <2>1, OnlyFatal
<1>2. CASE out # NULL
  <2>1. pc[t] = "reserve" /\ Filling
    BY <1>2, WhichPhase DEF IInv, Reserve, At, NoOutput
  <2>2. /\ offset' = [offset EXCEPT ![t] = bufsize[out]]
        /\ space' = [space EXCEPT ![t] = Min({Cap - bufsize[out], Len(outbuf[t])})]
        /\ pc' = [pc EXCEPT ![t] = "cas"]
        /\ UNCHANGED <<workItem, superPartitions, loopback, total, emitted, outbuf, caller, empty,
                       loopbuf, out, bufsize, slots, indexed, refcount, skip, partq, request,
                       cache, busy, onDisk, written, applied, fatal>>
    BY <1>2 DEF Reserve, Goto, workItem, bufferVars, diskVars
  <2> DEFINE room == Min({Cap - bufsize[out], Len(outbuf[t])})
  <2>3. /\ bufsize[out] \in 0..Cap /\ Len(outbuf[t]) \in Nat /\ outbuf[t] \in Seq(Updates)
    <3>1. bufsize[out] \in 0..Cap /\ outbuf[t] \in Seq(Updates)
      BY <1>2 DEF IInv, Types, TypeOK
    <3>2. QED
      BY <3>1, LenProperties
  <2>4. /\ room \in {Cap - bufsize[out], Len(outbuf[t])} /\ room \in 0..Cap
        /\ room <= Len(outbuf[t]) /\ bufsize[out] + room <= Cap
    <3>1. Cap - bufsize[out] \in Nat /\ Len(outbuf[t]) \in Nat
      BY <2>3
    <3>2. /\ room \in {Cap - bufsize[out], Len(outbuf[t])}
          /\ room <= Cap - bufsize[out] /\ room <= Len(outbuf[t])
      BY <3>1, MinOfTwo
    <3> HIDE DEF room
    <3>3. QED
      BY <2>3, <3>1, <3>2
  <2>5. /\ offset'[t] = bufsize[out] /\ space'[t] = room /\ pc'[t] = "cas"
        /\ \A u \in Threads \ {t} : offset'[u] = offset[u] /\ space'[u] = space[u] /\ pc'[u] = pc[u]
    BY <2>2 DEF IInv, Types, TypeOK
  <2> HIDE DEF room
  <2>6. Types'
    <3>1. offset' \in [Threads -> 0..Cap] /\ space' \in [Threads -> 0..Cap]
      BY <2>2, <2>3, <2>4 DEF IInv, Types, TypeOK, room
    <3>2. pc' \in [Threads -> Pcs]
      BY <2>2 DEF IInv, Types, Pcs, FillPcs
    <3>3. QED
      BY <2>2, <3>1, <3>2 DEF IInv, Types, TypeOK
  <2>7. "cas" \in FillPcs /\ "cas" \notin {"flush", "return", "copy"}
    BY DEF FillPcs
  <2>8. Phase' /\ LoopBufInv' /\ RefInv' /\ RequestInv' /\ LoopInv'
    BY <2>1, <2>2, <2>7, FillingFrame
  <2>9. SlotInv' /\ \A u \in Updates : Accounted(u)'
    <3>1. \A u \in Updates : Taken(u)' <=> Taken(u)
      BY <2>2 DEF Taken
    <3>2. QED
      BY <2>1, <2>2, <2>5, <2>7, <3>1, QuietFill
  <2>10. ASSUME NEW u \in Threads PROVE ThreadInv(u)'
    <3>1. CASE u = t
      BY <1>2, <2>1, <2>2, <2>3, <2>4, <2>5, <3>1 DEF ThreadInv, IInv
    <3>2. CASE u # t
      BY <2>2, <2>5, <3>2 DEF ThreadInv, IInv
    <3>3. QED
      BY <3>1, <3>2
  <2>11. QED
    BY <2>6, <2>8, <2>9, <2>10 DEF IInv
<1>3. QED
  BY <1>1, <1>2

\* What memcpy leaves in the positions that it is given, and in the others.
LEMMA FilledSlots ==
  ASSUME slots \in [Buffers -> [1..Cap -> Updates \cup {NULL}]], NEW b \in Buffers,
         NEW off \in Nat, NEW src \in Seq(Updates), slots' = Filled(b, off, src)
  PROVE  /\ slots' \in [Buffers -> [1..Cap -> Updates \cup {NULL}]]
         /\ \A c \in Buffers \ {b} : slots'[c] = slots[c]
         /\ \A i \in 1..Cap : slots'[b][i] = IF i - off \in 1..Len(src) THEN src[i - off]
                                                                       ELSE slots[b][i]
<1> DEFINE row == [i \in 1..Cap |-> IF i - off \in 1..Len(src) THEN src[i - off] ELSE slots[b][i]]
<1>1. slots' = [slots EXCEPT ![b] = row]
  BY DEF Filled
<1>2. \A i \in 1..Cap : i - off \in 1..Len(src) => src[i - off] \in Updates
  BY ElementOfSeq
<1>3. row \in [1..Cap -> Updates \cup {NULL}]
  BY <1>2
<1>4. \A i \in 1..Cap : row[i] = IF i - off \in 1..Len(src) THEN src[i - off] ELSE slots[b][i]
  OBVIOUS
<1> HIDE DEF row
<1>5. slots'[b] = row /\ \A c \in Buffers \ {b} : slots'[c] = slots[c]
  BY <1>1
<1>6. slots' \in [Buffers -> [1..Cap -> Updates \cup {NULL}]]
  BY <1>1, <1>3
<1>7. QED
  BY <1>4, <1>5, <1>6

\* A successful compare-and-swap reserves positions that nobody else has: the
\* space that the thread computed before is still there.
LEMMA ClaimIInv ==
  ASSUME IInv, NEW t \in Threads, Claim(t)
  PROVE  IInv'
<1> USE Basics
<1>1. pc[t] = "cas" /\ Filling /\ out # NULL /\ out \in Buffers
  BY WhichPhase DEF IInv, Claim, At, Filling, Types, TypeOK
<1>2. UNCHANGED <<workItem, superPartitions, loopback, total, emitted, outbuf, offset, space, caller,
                  empty, loopbuf, out, slots, indexed, refcount, skip, partq, request, cache,
                  busy, onDisk, written, applied, fatal>>
  BY DEF Claim, threadVars, workItem, bufferVars, diskVars
<1>3. \A u \in Updates : Taken(u)' <=> Taken(u)
  BY <1>2 DEF Taken
<1>4. CASE bufsize[out] # offset[t]
  <2>1. pc' = [pc EXCEPT ![t] = "reserve"] /\ UNCHANGED bufsize
    BY <1>4 DEF Claim, Goto
  <2>2. "reserve" \in FillPcs /\ "reserve" \notin {"flush", "return", "copy"}
    BY DEF FillPcs
  <2>3. Phase' /\ LoopBufInv' /\ RefInv' /\ RequestInv' /\ LoopInv'
    BY <1>1, <1>2, <2>1, <2>2, FillingFrame
  <2>4. SlotInv' /\ \A u \in Updates : Accounted(u)'
    BY <1>1, <1>2, <1>3, <2>1, <2>2, QuietFill
  <2>5. ASSUME NEW u \in Threads PROVE ThreadInv(u)'
    <3>1. ThreadInv(u) /\ pc'[u] \in {pc[u], "reserve"} /\ (pc'[u] = "reserve" => pc[u] \in {"cas", "reserve"})
      BY <1>1, <2>1 DEF IInv, Types
    <3>2. QED
      BY <1>2, <2>1, <3>1 DEF ThreadInv
  <2>6. Types'
    BY <1>2, <2>1 DEF IInv, Types, TypeOK, Pcs, FillPcs
  <2>7. QED
    BY <2>3, <2>4, <2>5, <2>6 DEF IInv
<1>5. CASE bufsize[out] = offset[t]
  <2>1. pc' = [pc EXCEPT ![t] = "copy"] /\ bufsize' = [bufsize EXCEPT ![out] = offset[t] + space[t]]
    BY <1>5 DEF Claim, Goto
  <2>2. "copy" \in FillPcs /\ "copy" \notin {"flush", "return"}
    BY DEF FillPcs
  <2>3. Filling' /\ Phase' /\ LoopBufInv' /\ RefInv' /\ RequestInv' /\ LoopInv'
    BY <1>1, <1>2, <2>1, <2>2, FillingFrame
  <2>4. /\ offset[t] \in 0..Cap /\ space[t] \in 0..Cap /\ offset[t] + space[t] \in 0..Cap
        /\ \A u \in Threads : offset[u] \in Nat /\ space[u] \in Nat
    <3>1. \A u \in Threads : offset[u] \in 0..Cap /\ space[u] \in 0..Cap
      BY DEF IInv, Types, TypeOK
    <3>2. offset[t] + space[t] <= Cap
      BY <1>1 DEF IInv, ThreadInv
    <3>3. QED
      BY <3>1, <3>2
  <2>5. /\ bufsize'[out] = offset[t] + space[t] /\ \A b \in Buffers \ {out} : bufsize'[b] = bufsize[b]
        /\ pc'[t] = "copy" /\ \A u \in Threads \ {t} : pc'[u] = pc[u]
    BY <1>1, <2>1 DEF IInv, Types, TypeOK
  <2>6. Types'
    BY <1>2, <2>1, <2>4 DEF IInv, Types, TypeOK, Pcs, FillPcs
  <2>7. ASSUME NEW u \in Threads PROVE ThreadInv(u)'
    <3>1. CASE u = t
      <4>1. ThreadInv(t) /\ Len(outbuf[t]) = Len(outbuf[t])'
        BY <1>2 DEF IInv
      <4>2. QED
        BY <1>1, <1>2, <2>4, <2>5, <3>1, <4>1 DEF ThreadInv
    <3>2. CASE u # t
      <4>1. ThreadInv(u) /\ pc'[u] = pc[u] /\ out' = out
        BY <1>2, <2>5, <3>2 DEF IInv
      <4>2. bufsize[out] \in Nat /\ bufsize'[out] >= bufsize[out] /\ bufsize'[out] <= Cap
            /\ bufsize'[out] \in Nat
        BY <1>5, <2>4, <2>5
      <4>3. QED
        BY <1>2, <2>4, <4>1, <4>2 DEF ThreadInv
    <3>3. QED
      BY <3>1, <3>2
  <2>8. \A u \in Threads : pc[u] = "copy" => offset[u] + space[u] <= bufsize[out]
    BY DEF IInv, ThreadInv
  <2>9. Placed' = Placed
    <3>1. \A i : Hole(i)' <=> Hole(i) \/ i \in offset[t] + 1..offset[t] + space[t]
      BY <1>1, <1>2, <2>5 DEF Hole
    <3>2. \A i \in Nat : i > bufsize[out] => ~Hole(i)
      BY <1>5, <2>4, <2>8 DEF Hole
    <3>3. \A i \in 1..bufsize'[out] : i > bufsize[out] <=> i \in offset[t] + 1..offset[t] + space[t]
      BY <1>5, <2>4, <2>5
    <3>4. QED
      BY <1>2, <1>5, <2>4, <2>5, <3>1, <3>2, <3>3 DEF Placed
  <2>10. /\ OutLive /\ OutLive' /\ OutHeld
         /\ pc[0] \notin LoopPcs /\ pc'[0] \notin LoopPcs /\ ~NotApplied /\ ~NotApplied'
    BY <1>1, <1>2, <2>3 DEF OutLive, OutHeld, NotApplied, LoopPcs, FillPcs, Filling, Lock
  <2>11. /\ cache # NULL => cache \in Buffers \ {out}
         /\ request # NULL => request \in Buffers \ {out}
    BY <2>10 DEF IInv, RefInv, Types, TypeOK
  <2>12. SlotInv'
    <3>1. Distinct(out, Placed)'
      BY <1>2, <2>9, <2>10 DEF SlotInv, Distinct, IInv
    <3>2. cache # NULL => Distinct(cache, 1..bufsize[cache])'
      BY <1>2, <2>5, <2>11 DEF SlotInv, Distinct, IInv
    <3>3. busy => Distinct(request, 1..bufsize[request])'
      BY <1>2, <2>5, <2>11 DEF SlotInv, Distinct, IInv, RequestInv
    <3>4. ASSUME NEW u \in Threads, NEW v \in Threads, pc'[u] = "copy", pc'[v] = "copy", u # v
          PROVE  offset'[u] + space'[u] <= offset'[v] \/ offset'[v] + space'[v] <= offset'[u]
      <4>1. CASE u # t /\ v # t
        BY <1>2, <2>5, <3>4, <4>1 DEF SlotInv, IInv
      <4>2. CASE u = t
        BY <1>2, <1>5, <2>5, <2>8, <3>4, <4>2
      <4>3. CASE v = t
        BY <1>2, <1>5, <2>5, <2>8, <3>4, <4>3
      <4>4. QED
        BY <4>1, <4>2, <4>3
    <3>5. QED
      BY <1>2, <2>10, <3>1, <3>2, <3>3, <3>4 DEF SlotInv
  <2>13. ASSUME NEW u \in Updates PROVE Accounted(u)'
    <3>1. InOut(u)' <=> InOut(u)
      BY <1>2, <2>9, <2>10 DEF InOut
    <3>2. InCache(u)' <=> InCache(u)
      BY <1>2, <2>5, <2>11 DEF InCache, InBuffer
    <3>3. InRequest(u)' <=> InRequest(u)
      BY <1>2, <2>5, <2>11 DEF InRequest, InBuffer, IInv, RequestInv, Dest
    <3>4. ~InLoop(u) /\ ~InLoop(u)'
      BY <2>10 DEF InLoop
    <3>5. QED
      BY <1>2, <1>3, <3>1, <3>2, <3>3, <3>4 DEF Accounted, One, IInv
  <2>14. QED
    BY <2>3, <2>6, <2>7, <2>12, <2>13 DEF IInv
<1>6. QED
  BY <1>4, <1>5

\* append_buffer's memcpy keeps the invariant: updates go from the outbuf to the
\* positions reserved for them, and a thread with some left finds the buffer full.
LEMMA CopyIInv ==
  ASSUME IInv, NEW t \in Threads, Copy(t)
  PROVE  IInv'
<1> USE Basics
<1>1. pc[t] = "copy" /\ Filling /\ out # NULL /\ out \in Buffers
  BY WhichPhase DEF IInv, Copy, At, Filling, Types, TypeOK
<1>2. UNCHANGED <<workItem, superPartitions, loopback, total, emitted, offset, space, out, bufsize,
                  indexed, refcount, skip, partq, request, cache, busy, onDisk, written,
                  applied, fatal>>
  BY DEF Copy, workItem, diskVars
<1> DEFINE s == space[t]
           o == offset[t]
           L == Len(outbuf[t])
           head == SubSeq(outbuf[t], 1, s)
           rest == SubSeq(outbuf[t], s + 1, L)
           done == emitted[t] - L
<1>3. /\ outbuf[t] \in Seq(Updates) /\ L \in Nat /\ s \in 0..Cap /\ o \in 0..Cap /\ s <= L
      /\ emitted[t] \in 0..MaxEmit /\ total[t] \in 0..MaxEmit /\ L <= emitted[t]
      /\ bufsize[out] \in 0..Cap /\ o + s <= bufsize[out]
      /\ s = L \/ o + s = Cap
  <2>1. outbuf[t] \in Seq(Updates) /\ s \in 0..Cap /\ o \in 0..Cap /\ emitted[t] \in 0..MaxEmit
        /\ bufsize[out] \in 0..Cap /\ total[t] \in 0..MaxEmit
    BY <1>1 DEF IInv, Types, TypeOK
  <2>2. L \in Nat
    BY <2>1, LenProperties
  <2>3. QED
    BY <1>1, <2>1, <2>2 DEF IInv, ThreadInv
<1>4. /\ head \in Seq(Updates) /\ Len(head) = s /\ \A k \in 1..s : head[k] = outbuf[t][k]
      /\ rest \in Seq(Updates) /\ Len(rest) = L - s
      /\ \A k \in 1..L - s : rest[k] = outbuf[t][s + k]
  <2>1. \A k \in 1..L : outbuf[t][k] \in Updates
    BY <1>3, ElementOfSeq
  <2> HIDE DEF L, s
  <2>2. /\ head \in Seq(Updates) /\ Len(head) = IF 1 <= s THEN s - 1 + 1 ELSE 0
        /\ \A k \in 1..s - 1 + 1 : head[k] = outbuf[t][1 + k - 1]
    <3>1. \A k \in 1..s : outbuf[t][k] \in Updates
      BY <1>3, <2>1
    <3>2. QED
      BY <1>3, <3>1, SubSeqProperties
  <2>3. /\ rest \in Seq(Updates) /\ Len(rest) = IF s + 1 <= L THEN L - (s + 1) + 1 ELSE 0
        /\ \A k \in 1..L - (s + 1) + 1 : rest[k] = outbuf[t][s + 1 + k - 1]
    <3>1. \A k \in s + 1..L : outbuf[t][k] \in Updates
      BY <1>3, <2>1
    <3>2. s + 1 \in Int /\ L \in Int
      BY <1>3
    <3>3. QED
      BY <3>1, <3>2, SubSeqProperties
  <2> HIDE DEF head, rest
  <2>4. Len(head) = s /\ Len(rest) = L - s
    BY <1>3, <2>2, <2>3
  <2>5. ASSUME NEW k \in 1..s PROVE head[k] = outbuf[t][k]
    <3>1. 1 + k - 1 = k /\ k \in 1..s - 1 + 1
      BY <1>3
    <3>2. QED
      BY <2>2, <3>1
  <2>6. ASSUME NEW k \in 1..L - s PROVE rest[k] = outbuf[t][s + k]
    <3>1. s + 1 + k - 1 = s + k /\ k \in 1..L - (s + 1) + 1
      BY <1>3
    <3>2. QED
      BY <2>3, <3>1
  <2>7. QED
    BY <2>2, <2>3, <2>4, <2>5, <2>6
<1>5. slots' = Filled(out, o, head) /\ outbuf' = [outbuf EXCEPT ![t] = rest]
  BY DEF Copy, IInv, Types, TypeOK
<1>6. PICK l \in {"emit", "flush"} :
        /\ pc' = [pc EXCEPT ![t] = l]
        /\ l = "emit" => s = L /\ UNCHANGED <<caller, empty, loopbuf>>
        /\ l = "flush" => /\ o + s = Cap
                          /\ caller' = [caller EXCEPT ![t] = "append"]
                          /\ empty' = [empty EXCEPT ![t] = FALSE]
                          /\ loopbuf' = [loopbuf EXCEPT ![t] = out]
  <2>1. CASE s = L
    BY <2>1 DEF Copy, Goto
  <2>2. CASE s # L
    BY <1>3, <2>2 DEF Copy, Goto
  <2>3. QED
    BY <2>1, <2>2
<1> HIDE DEF s, o, L, head, rest, done
<1>7. /\ slots' \in [Buffers -> [1..Cap -> Updates \cup {NULL}]]
      /\ \A c \in Buffers \ {out} : slots'[c] = slots[c]
      /\ \A i \in 1..Cap : slots'[out][i] = IF i - o \in 1..s THEN head[i - o] ELSE slots[out][i]
  <2>1. o \in Nat /\ slots \in [Buffers -> [1..Cap -> Updates \cup {NULL}]]
    BY <1>3 DEF IInv, Types
  <2>2. QED
    BY <1>1, <1>4, <1>5, <2>1, FilledSlots
<1>8. /\ outbuf'[t] = rest /\ pc'[t] = l
      /\ \A u \in Threads \ {t} : /\ outbuf'[u] = outbuf[u] /\ pc'[u] = pc[u] /\ caller'[u] = caller[u]
                                  /\ empty'[u] = empty[u] /\ loopbuf'[u] = loopbuf[u]
      /\ l = "flush" => caller'[t] = "append" /\ ~empty'[t] /\ loopbuf'[t] = out
      /\ l = "emit" => caller'[t] = caller[t]
  BY <1>5, <1>6 DEF IInv, Types, TypeOK
<1>9. Types'
  <2>1. outbuf' \in [Threads -> Seq(Updates)]
    BY <1>4, <1>5 DEF IInv, Types, TypeOK
  <2>2. pc' \in [Threads -> Pcs]
    BY <1>6 DEF IInv, Types, Pcs, FillPcs
  <2>3. TypeOK'
    BY <1>2, <2>1 DEF IInv, Types, TypeOK
  <2>4. caller' \in [Threads -> {"append", "final"}] /\ empty' \in [Threads -> BOOLEAN]
        /\ loopbuf' \in [Threads -> Buffers \cup {NULL}]
    <3>1. out \in Buffers
      BY <1>1
    <3>2. /\ caller \in [Threads -> {"append", "final"}] /\ empty \in [Threads -> BOOLEAN]
          /\ loopbuf \in [Threads -> Buffers \cup {NULL}]
      BY DEF IInv, Types
    <3>3. QED
      BY <1>6, <3>1, <3>2
  <2>5. QED
    BY <1>2, <1>7, <2>2, <2>3, <2>4 DEF IInv, Types
<1>10. Filling' /\ Phase' /\ LoopBufInv' /\ RefInv' /\ RequestInv' /\ LoopInv'
  <2>1. l \in FillPcs /\ l # "return"
    BY <1>6 DEF FillPcs
  <2>2. QED
    BY <1>1, <1>2, <1>6, <1>8, <2>1, FillingFrame
<1>11. outbuf[t] # <<>> => caller[t] = "append"
  BY <1>1 DEF IInv, ThreadInv, Types
<1>12. ASSUME NEW u \in Threads PROVE ThreadInv(u)'
  <2>1. CASE u = t
    <3>1. ThreadInv(t) /\ caller[t] \in {"append", "final"}
      BY DEF IInv, Types
    <3>2. caller[t] = "append"
      BY <1>1, <3>1 DEF ThreadInv
    <3>3. caller'[t] = "append"
      BY <1>6, <1>8, <3>2
    <3>4. \A j \in 1..L : outbuf[t][j] = <<t, emitted[t] - L + j>>
      BY <3>1 DEF ThreadInv, L
    <3>5. \A j \in 1..L - s : rest[j] = <<t, emitted[t] - (L - s) + j>>
      <4>1. \A j \in 1..L - s : s + j \in 1..L /\ emitted[t] - L + (s + j) = emitted[t] - (L - s) + j
        BY <1>3
      <4>2. QED
        BY <1>4, <3>4, <4>1
    <3>6. Len(rest) <= emitted[t] /\ emitted[t] <= total[t]
      <4>1. L <= emitted[t] /\ emitted[t] <= total[t]
        BY <3>1 DEF ThreadInv, L
      <4>2. QED
        BY <1>3, <1>4, <4>1
    <3>7. l = "emit" => rest = <<>>
      BY <1>3, <1>4, <1>6, EmptySeq
    <3>8. l = "flush" => bufsize[out] = Cap
      BY <1>3, <1>6
    <3>9. QED
      BY <1>2, <1>4, <1>6, <1>8, <2>1, <3>3, <3>5, <3>6, <3>7, <3>8 DEF ThreadInv
  <2>2. CASE u # t
    <3>1. ThreadInv(u)
      BY DEF IInv
    <3>2. QED
      BY <1>2, <1>8, <2>2, <3>1 DEF ThreadInv
  <2>3. QED
    BY <2>1, <2>2
<1>13. /\ OutLive /\ OutLive' /\ OutHeld
       /\ pc[0] \notin LoopPcs /\ pc'[0] \notin LoopPcs /\ ~NotApplied /\ ~NotApplied'
  BY <1>1, <1>2, <1>10 DEF OutLive, OutHeld, NotApplied, LoopPcs, FillPcs, Filling, Lock
<1>14. /\ cache # NULL => cache \in Buffers \ {out}
       /\ request # NULL => request \in Buffers \ {out}
  BY <1>13 DEF IInv, RefInv, Types, TypeOK
<1>15. /\ \A i \in o + 1..o + s : Hole(i) /\ ~Hole(i)'
       /\ \A i \in Int : i \notin o + 1..o + s => (Hole(i)' <=> Hole(i))
  <2>1. \A i \in o + 1..o + s : Hole(i)
    BY <1>1 DEF Hole, o, s
  <2>2. \A i : Hole(i)' <=> \E u \in Threads \ {t} :
                              pc[u] = "copy" /\ i \in offset[u] + 1..offset[u] + space[u]
    BY <1>2, <1>6, <1>8 DEF Hole
  <2>3. \A u \in Threads \ {t} : pc[u] = "copy" =>
            offset[u] + space[u] <= o \/ o + s <= offset[u]
    BY <1>1 DEF IInv, SlotInv, o, s
  <2>4. \A u \in Threads : offset[u] \in Nat /\ space[u] \in Nat
    BY DEF IInv, Types, TypeOK
  <2>5. ASSUME NEW i \in o + 1..o + s, Hole(i)' PROVE FALSE
    <3>1. PICK u \in Threads \ {t} : pc[u] = "copy" /\ i \in offset[u] + 1..offset[u] + space[u]
      BY <2>2, <2>5
    <3>2. offset[u] \in Nat /\ space[u] \in Nat /\ (offset[u] + space[u] <= o \/ o + s <= offset[u])
      BY <2>3, <2>4, <3>1
    <3>3. i \in Int /\ i <= o + s /\ i > o /\ i > offset[u] /\ i <= offset[u] + space[u]
      BY <1>3, <2>5, <3>1, <3>2
    <3>4. QED
      BY <1>3, <3>2, <3>3
  <2>6. ASSUME NEW i \in Int, i \notin o + 1..o + s PROVE Hole(i)' <=> Hole(i)
    BY <2>2, <2>6 DEF Hole, o, s
  <2>7. QED
    BY <2>1, <2>5, <2>6
<1>16. Placed' = Placed \cup (o + 1..o + s) /\ Placed \cap (o + 1..o + s) = {}
       /\ Placed' \subseteq 1..Cap
  <2>1. o + 1..o + s \subseteq 1..bufsize[out]
    BY <1>3
  <2>2. QED
    BY <1>2, <1>3, <1>15, <2>1 DEF Placed
<1>17. /\ \A i \in o + 1..o + s : slots'[out][i] = <<t, done + (i - o)>> /\ i - o \in 1..s
       /\ \A i \in Placed : slots'[out][i] = slots[out][i]
  <2>1. \A k \in 1..s : head[k] = <<t, done + k>>
    <3>1. \A j \in 1..L : outbuf[t][j] = <<t, emitted[t] - L + j>>
      BY DEF ThreadInv, L, IInv
    <3>2. \A k \in 1..s : k \in 1..L
      BY <1>3
    <3>3. QED
      BY <1>4, <3>1, <3>2 DEF done
  <2>2. \A i \in o + 1..o + s : i - o \in 1..s /\ i \in 1..Cap
    BY <1>3
  <2>3. \A i \in Placed : i \in 1..Cap /\ i - o \notin 1..s
    BY <1>3, <1>16
  <2>4. \A i \in o + 1..o + s : slots'[out][i] = <<t, done + (i - o)>>
    BY <1>7, <2>1, <2>2
  <2>5. \A i \in Placed : slots'[out][i] = slots[out][i]
    BY <1>7, <2>3
  <2>6. QED
    BY <2>2, <2>4, <2>5
<1>18. /\ done \in Nat /\ done + s <= MaxEmit /\ done + s <= emitted[t]
       /\ emitted'[t] - Len(outbuf'[t]) = done + s
  <2>1. done \in Nat /\ done + s <= MaxEmit /\ done + s <= emitted[t]
    BY <1>3 DEF done
  <2>2. emitted'[t] = emitted[t] /\ Len(outbuf'[t]) = L - s
    BY <1>2, <1>4, <1>8
  <2>3. emitted[t] - (L - s) = done + s
    BY <1>3 DEF done
  <2>4. QED
    BY <2>1, <2>2, <2>3
<1>19. \A i \in o + 1..o + s : slots'[out][i] \in Updates
  <2>1. \A k \in 1..s : done + k \in 1..MaxEmit
    BY <1>3, <1>18
  <2>2. \A k \in 1..s : <<t, done + k>> \in Updates
    BY <2>1 DEF Updates
  <2>3. QED
    BY <1>17, <2>2
<1>20. ASSUME NEW i \in Placed, NEW j \in o + 1..o + s, slots[out][i] = slots'[out][j] PROVE FALSE
  <2> DEFINE u == slots'[out][j]
  <2>1. u \in Updates /\ u = <<t, done + (j - o)>> /\ j - o \in 1..s
    BY <1>17, <1>19
  <2>2. ~Taken(u)
    <3>1. u[1] = t /\ u[2] = done + (j - o)
      BY <2>1
    <3> HIDE DEF u
    <3>2. QED
      BY <1>3, <1>18, <2>1, <3>1 DEF Taken, done, L
  <2>3. InOut(u)
    BY <1>13, <1>20 DEF InOut
  <2> HIDE DEF u
  <2>4. written[u] \in Nat /\ applied[u] \in Nat
    BY <2>1 DEF IInv, Types
  <2>5. QED
    BY <2>1, <2>2, <2>3, <2>4 DEF Accounted, One, IInv
<1>21. SlotInv'
  <2>1. Distinct(out, Placed)'
    <3>1. ASSUME NEW i \in Placed', NEW j \in Placed'
          PROVE  slots'[out][i] \in Updates /\ (slots'[out][i] = slots'[out][j] => i = j)
      <4>1. \A p, q \in Placed : slots[out][p] \in Updates /\ (slots[out][p] = slots[out][q] => p = q)
        BY <1>13 DEF IInv, SlotInv, Distinct
      <4>2. slots'[out][i] \in Updates
        BY <1>16, <1>17, <1>19, <4>1
      <4>3. CASE i \in Placed /\ j \in Placed
        BY <1>17, <4>1, <4>2, <4>3
      <4>4. CASE i \in Placed /\ j \in o + 1..o + s
        BY <1>17, <1>20, <4>2, <4>4
      <4>5. CASE i \in o + 1..o + s /\ j \in Placed
        BY <1>17, <1>20, <4>2, <4>5
      <4>6. CASE i \in o + 1..o + s /\ j \in o + 1..o + s
        <5>1. i \in Int /\ j \in Int /\ o \in Int /\ done \in Int
          BY <1>3, <1>18, <4>6
        <5>2. slots'[out][i] = slots'[out][j] => done + (i - o) = done + (j - o)
          BY <1>17, <4>6
        <5>3. QED
          BY <4>2, <5>1, <5>2
      <4>7. QED
        BY <1>16, <4>3, <4>4, <4>5, <4>6
    <3>2. QED
      BY <1>2, <3>1 DEF Distinct
  <2>2. cache # NULL => Distinct(cache, 1..bufsize[cache])'
    <3>1. cache # NULL => slots'[cache] = slots[cache] /\ cache' = cache /\ bufsize' = bufsize
      BY <1>2, <1>7, <1>14
    <3>2. QED
      BY <3>1 DEF SlotInv, Distinct, IInv
  <2>3. busy => Distinct(request, 1..bufsize[request])'
    <3>1. busy => slots'[request] = slots[request] /\ request' = request /\ bufsize' = bufsize
      BY <1>2, <1>7, <1>14 DEF IInv, RequestInv
    <3>2. QED
      BY <3>1 DEF SlotInv, Distinct, IInv
  <2>4. ASSUME NEW u \in Threads, NEW v \in Threads, pc'[u] = "copy", pc'[v] = "copy", u # v
        PROVE  offset'[u] + space'[u] <= offset'[v] \/ offset'[v] + space'[v] <= offset'[u]
    BY <1>2, <1>6, <1>8, <2>4 DEF SlotInv, IInv
  <2>5. QED
    BY <1>2, <1>13, <2>1, <2>2, <2>3, <2>4 DEF SlotInv
<1>22. ASSUME NEW u \in Updates PROVE Accounted(u)'
  <2>1. InCache(u)' <=> InCache(u)
    BY <1>2, <1>7, <1>14 DEF InCache, InBuffer
  <2>2. InRequest(u)' <=> InRequest(u)
    BY <1>2, <1>7, <1>14 DEF InRequest, InBuffer, IInv, RequestInv, Dest
  <2>3. ~InLoop(u) /\ ~InLoop(u)'
    BY <1>13 DEF InLoop
  <2>4. u[1] \in Threads /\ u[2] \in Nat /\ u = <<u[1], u[2]>>
    BY DEF Updates
  <2>5. CASE u[1] = t /\ u[2] \in done + 1..done + s
    <3>1. ~Taken(u)
      BY <1>3, <1>18, <2>5 DEF Taken, done, L
    <3>2. Taken(u)'
      BY <1>18, <2>5 DEF Taken
    <3>3. InOut(u)'
      <4>1. o + (u[2] - done) \in o + 1..o + s /\ done + ((o + (u[2] - done)) - o) = u[2]
        <5>1. u[2] \in Nat /\ done \in Nat /\ o \in Nat /\ s \in Nat /\ u[2] \in done + 1..done + s
          BY <1>3, <1>18, <2>4, <2>5
        <5>2. QED
          BY <5>1
      <4>2. slots'[out][o + (u[2] - done)] = u
        BY <1>17, <2>4, <2>5, <4>1
      <4>3. QED
        BY <1>2, <1>13, <1>16, <4>1, <4>2 DEF InOut
    <3>4. written[u] \in Nat /\ applied[u] \in Nat
      BY DEF IInv, Types
    <3>5. QED
      BY <1>2, <2>1, <2>2, <2>3, <3>1, <3>2, <3>3, <3>4 DEF Accounted, One, IInv
  <2>6. CASE ~(u[1] = t /\ u[2] \in done + 1..done + s)
    <3>1. Taken(u)' <=> Taken(u)
      <4>1. CASE u[1] = t
        <5>1. Taken(u) <=> u[2] <= done
          BY <4>1 DEF Taken, done, L
        <5>2. Taken(u)' <=> u[2] <= done + s
          BY <1>18, <4>1 DEF Taken
        <5>3. u[2] \in Nat /\ done \in Nat /\ s \in Nat
          BY <1>3, <1>18, <2>4
        <5>4. QED
          BY <2>6, <4>1, <5>1, <5>2, <5>3
      <4>2. CASE u[1] # t
        BY <1>2, <1>8, <2>4, <4>2 DEF Taken
      <4>3. QED
        BY <4>1, <4>2
    <3>2. ASSUME NEW i \in o + 1..o + s PROVE slots'[out][i] # u
      <4>1. slots'[out][i] = <<t, done + (i - o)>> /\ i - o \in 1..s
        BY <1>17
      <4>2. done + (i - o) \in done + 1..done + s
        BY <1>18, <4>1, <1>3
      <4>3. QED
        BY <2>6, <4>1, <4>2
    <3>3. InOut(u)' <=> InOut(u)
      BY <1>2, <1>13, <1>16, <1>17, <3>2 DEF InOut
    <3>4. QED
      BY <1>2, <2>1, <2>2, <2>3, <3>1, <3>3 DEF Accounted, One, IInv
  <2>7. QED
    BY <2>5, <2>6
<1>23. QED
  BY <1>9, <1>10, <1>12, <1>21, <1>22 DEF IInv

-----------------------------------------------------------------------------
(* flush_buffer up to the disk stream *)

\* A step that changes where one thread is, and none of the buffers, keeps what
\* is known about updates.
LEMMA QuietStep ==
  ASSUME IInv, NEW t \in Threads, NEW l, pc' = [pc EXCEPT ![t] = l],
         {pc[0], pc[t], l} \cap (LoopPcs \cup {"append", "end", "stopped"}) = {},
         pc[t] # "copy", l # "copy", t = 0 /\ l \in FreshPcs => pc[0] \in FreshPcs,
         UNCHANGED <<superPartitions, loopback, out, slots, bufsize, indexed, refcount, skip,
                     request, cache, busy, onDisk, written, applied>>,
         \A u \in Threads \ {t} : offset'[u] = offset[u] /\ space'[u] = space[u],
         \A u \in Updates : Taken(u)' <=> Taken(u)
  PROVE  /\ RefInv' /\ RequestInv' /\ SlotInv' /\ LoopInv'
         /\ \A u \in Updates : Accounted(u)'
<1> USE Basics
<1>1. /\ \A u \in Threads : pc'[u] = IF u = t THEN l ELSE pc[u]
      /\ pc[0] \notin LoopPcs \cup {"append", "end", "stopped"}
      /\ pc'[0] \notin LoopPcs \cup {"append", "end", "stopped"}
      /\ pc'[0] \in FreshPcs => pc[0] \in FreshPcs
  BY DEF IInv, Types
<1>2. /\ OutLive' <=> OutLive
      /\ OutHeld' <=> OutHeld
      /\ ~NotApplied /\ ~NotApplied' /\ ~LoopHeld /\ ~LoopHeld'
  BY <1>1 DEF OutLive, OutHeld, NotApplied, LoopHeld, LoopPcs
<1>3. Placed' = Placed
  <2>1. \A i : Hole(i)' <=> Hole(i)
    BY <1>1 DEF Hole
  <2>2. QED
    BY <2>1 DEF Placed
<1>4. SlotInv'
  <2>1. \A u, v \in Threads :
           pc'[u] = "copy" /\ pc'[v] = "copy" /\ u # v =>
             offset'[u] + space'[u] <= offset'[v] \/ offset'[v] + space'[v] <= offset'[u]
    BY <1>1 DEF SlotInv, IInv
  <2>2. QED
    BY <1>1, <1>2, <1>3, <2>1, SameSlots DEF IInv
<1>5. ASSUME NEW u \in Updates PROVE Accounted(u)'
  <2>1. InOut(u)' <=> InOut(u)
    BY <1>2, <1>3 DEF InOut
  <2>2. QED
    BY <1>2, <2>1, SameAccount DEF IInv
<1>6. RefInv'
  BY <1>1, <1>2 DEF RefInv, IInv, One
<1>7. RequestInv'
  BY <1>1 DEF RequestInv, IInv
<1>8. LoopInv'
  BY <1>1 DEF LoopInv
<1>9. QED
  BY <1>4, <1>5, <1>6, <1>7, <1>8

\* flush_buffer's test of the size, on which all threads agree.
LEMMA TestIInv ==
  ASSUME IInv, NEW t \in Threads, Test(t)
  PROVE  IInv'
<1> USE Basics
<1>1. pc[t] = "test" /\ Testing /\ out # NULL /\ out \in Buffers
  BY WhichPhase DEF IInv, Test, At, Testing, Types, TypeOK
<1>2. UNCHANGED <<superPartitions, loopback, total, emitted, outbuf, offset, space, caller, loopbuf,
                  out, bufsize, slots, indexed, refcount, skip, partq, request, cache, busy,
                  onDisk, written, applied, fatal>>
  BY DEF Test, workItem, bufferVars, diskVars
<1>3. pc[0] \in {"test", "split", "ret"} /\ ~indexed[out] /\ bufsize[out] \in Nat
  BY <1>1 DEF Testing, Lock, RefInv, FreshPcs, IInv, Types, TypeOK
<1>4. PICK l \in {"split", "ret"} :
        /\ pc' = [pc EXCEPT ![t] = l]
        /\ l = "split" => bufsize[out] > 0 /\ UNCHANGED empty
        /\ l = "ret" => bufsize[out] = 0 /\ empty' = [empty EXCEPT ![t] = TRUE]
  BY <1>3 DEF Test, Goto
<1>5. /\ pc'[t] = l /\ empty'[t] = (l = "ret")
      /\ \A u \in Threads \ {t} : pc'[u] = pc[u] /\ empty'[u] = empty[u]
  BY <1>1, <1>4 DEF IInv, Types, Testing
<1>6. Types'
  <2>1. pc' \in [Threads -> Pcs] /\ empty' \in [Threads -> BOOLEAN]
    BY <1>4 DEF IInv, Types, Pcs
  <2>2. QED
    BY <1>2, <2>1 DEF IInv, Types, TypeOK
<1>7. ASSUME NEW u \in Threads PROVE ThreadInv(u)'
  BY <1>2, <1>4, <1>5 DEF ThreadInv, IInv
<1>8. l = "ret" => caller[t] = "final"
  BY <1>1, <1>4 DEF ThreadInv, IInv, Types
<1>9. Testing'
  <2>1. ASSUME NEW u \in Threads
        PROVE  /\ pc'[u] \in {"test", "split", "ret"}
               /\ empty'[u] <=> pc'[u] = "ret"
               /\ pc'[u] = "split" => bufsize[out] > 0
               /\ pc'[u] = "ret" => bufsize[out] = 0 /\ caller[u] = "final"
    <3>1. CASE u = t
      BY <1>4, <1>5, <1>8, <3>1
    <3>2. CASE u # t
      BY <1>1, <1>5, <3>2 DEF Testing, Lock
    <3>3. QED
      BY <3>1, <3>2
  <2>2. QED
    BY <1>1, <1>2, <2>1 DEF Testing, Lock
<1>10. LoopBufInv'
  <2>1. pc'[0] \in {"test", "split", "ret"}
    BY <1>3, <1>4, <1>5
  <2>2. \A u \in Threads : pc'[u] \in {"flush", "test", "split", "switch", "index", "steady"} =>
                             loopbuf[u] = out
    BY <1>1, <1>4, <1>5 DEF LoopBufInv, IInv
  <2>3. pc'[0] = "ret" => bufsize[out] = 0
    BY <1>9, <1>2 DEF Testing
  <2>4. QED
    BY <1>2, <2>1, <2>2, <2>3 DEF LoopBufInv, LoopPcs
<1>11. RefInv' /\ RequestInv' /\ SlotInv' /\ LoopInv' /\ \A u \in Updates : Accounted(u)'
  <2>1. {pc[0], pc[t], l} \cap (LoopPcs \cup {"append", "end", "stopped"}) = {}
    BY <1>1, <1>3, <1>4 DEF LoopPcs
  <2>2. pc[0] \in FreshPcs /\ pc[t] # "copy" /\ l # "copy"
    BY <1>1, <1>3, <1>4 DEF FreshPcs
  <2>3. \A u \in Updates : Taken(u)' <=> Taken(u)
    BY <1>2 DEF Taken
  <2>4. QED
    BY <1>2, <1>4, <2>1, <2>2, <2>3, QuietStep
<1>12. QED
  BY <1>6, <1>7, <1>9, <1>10, <1>11 DEF IInv, Phase

\* Calling flush_buffer from final_flush keeps the invariant.
LEMMA EnterFinalFlushIInv ==
  ASSUME IInv, NEW t \in Threads, Filling, EnterFinalFlush(t),
         pc[t] = "finalflush" \/ (pc[t] = "return" /\ caller[t] = "final"),
         UNCHANGED <<workItem, total, emitted, outbuf, offset, space, out, bufferVars, diskVars,
                     applied, fatal>>
  PROVE  IInv'
<1> USE Basics
<1>1. UNCHANGED <<workItem, superPartitions, loopback, total, emitted, outbuf, offset, space,
                  out, bufsize, slots, indexed, refcount, skip, partq, request, cache, busy,
                  onDisk, written, applied, fatal>>
  BY DEF workItem, bufferVars, diskVars
<1>2. /\ pc' = [pc EXCEPT ![t] = "flush"] /\ caller' = [caller EXCEPT ![t] = "final"]
      /\ empty' = [empty EXCEPT ![t] = FALSE] /\ loopbuf' = [loopbuf EXCEPT ![t] = out]
  BY DEF EnterFinalFlush, Goto
<1>3. /\ pc'[t] = "flush" /\ caller'[t] = "final" /\ ~empty'[t] /\ loopbuf'[t] = out
      /\ \A u \in Threads \ {t} : /\ pc'[u] = pc[u] /\ caller'[u] = caller[u]
                                  /\ empty'[u] = empty[u] /\ loopbuf'[u] = loopbuf[u]
  BY <1>2 DEF IInv, Types
<1>4. Types'
  BY <1>1, <1>2 DEF IInv, Types, TypeOK, Pcs, FillPcs
<1>5. \A u \in Threads : ThreadInv(u)'
  BY <1>1, <1>3 DEF ThreadInv, IInv
<1>6. "flush" \in FillPcs \ {"copy", "return"}
  BY DEF FillPcs
<1>7. Phase' /\ LoopBufInv' /\ RefInv' /\ RequestInv' /\ LoopInv'
  BY <1>1, <1>2, <1>3, <1>6, FillingFrame
<1>8. SlotInv' /\ \A u \in Updates : Accounted(u)'
  <2>1. \A u \in Updates : Taken(u)' <=> Taken(u)
    BY <1>1 DEF Taken
  <2>2. QED
    BY <1>1, <1>2, <1>6, <2>1, QuietFill
<1>9. QED
  BY <1>4, <1>5, <1>7, <1>8 DEF IInv

\* The step from the input to final_flush keeps the invariant.
LEMMA StartFinalFlushIInv ==
  ASSUME IInv, NEW t \in Threads, StartFinalFlush(t)
  PROVE  IInv'
<1>1. pc[t] = "finalflush" /\ Filling /\ out # NULL
  BY WhichPhase DEF IInv, StartFinalFlush, At, Filling
<1>2. QED
  BY <1>1, EnterFinalFlushIInv DEF StartFinalFlush

\* Leaving flush_buffer keeps the invariant, for both callers.
LEMMA ReturnIInv ==
  ASSUME IInv, NEW t \in Threads, Return(t)
  PROVE  IInv'
<1> USE Basics
<1>1. pc[t] = "return" /\ caller[t] \in {"append", "final"}
  BY DEF Return, At, IInv, Types
<1>2. UNCHANGED <<workItem, superPartitions, loopback, total, emitted, outbuf, offset, space,
                  out, bufsize, slots, indexed, refcount, skip, partq, request, cache, busy,
                  onDisk, written, applied, fatal>>
  BY DEF Return, workItem, bufferVars, diskVars
<1>3. CASE Filling /\ caller[t] = "final"
  <2>1. EnterFinalFlush(t)
    BY <1>1, <1>3 DEF Return, Filling
  <2>2. QED
    BY <1>1, <1>3, <2>1, EnterFinalFlushIInv DEF Return
<1>4. CASE ~(Filling /\ caller[t] = "final")
  <2>1. Filling \/ Leaving \/ NoOutput
    BY <1>1, WhichPhase DEF IInv
  <2>2. PICK l \in {"reserve", "final"} :
          /\ pc' = [pc EXCEPT ![t] = l] /\ UNCHANGED <<caller, empty, loopbuf>>
          /\ IF caller[t] = "append" THEN l = "reserve" /\ ~Leaving ELSE l = "final" /\ ~Filling
    BY <1>1, <1>4, <2>1 DEF Return, Goto, Leaving, NoOutput
  <2>3. /\ pc'[t] = l /\ \A u \in Threads \ {t} : pc'[u] = pc[u]
        /\ \A u \in Threads : pc[u] \in {"emit", "reserve", "cas", "copy", "finalflush", "flush", "return", "final"}
    BY <2>1, <2>2 DEF IInv, Types, Filling, Leaving, NoOutput, Lock, FillPcs
  <2>4. Types'
    BY <1>2, <2>2 DEF IInv, Types, TypeOK, Pcs, FillPcs
  <2>5. ASSUME NEW u \in Threads PROVE ThreadInv(u)'
    BY <1>1, <1>2, <2>2, <2>3 DEF ThreadInv, IInv
  <2>6. Phase'
    <3>1. CASE Filling
      <4>1. Filling'
        BY <1>2, <2>1, <2>2, <2>3, <3>1 DEF Filling, Lock, FillPcs
      <4>2. QED
        BY <4>1 DEF Phase
    <3>2. CASE Leaving
      <4>1. Leaving'
        BY <1>1, <1>2, <2>2, <2>3, <3>2 DEF Leaving, Lock
      <4>2. QED
        BY <4>1 DEF Phase
    <3>3. CASE NoOutput
      <4>1. NoOutput'
        BY <1>2, <2>2, <2>3, <3>3 DEF NoOutput, Lock
      <4>2. QED
        BY <4>1 DEF Phase
    <3>4. QED
      BY <2>1, <3>1, <3>2, <3>3
  <2>7. LoopBufInv'
    BY <1>2, <2>2, <2>3 DEF LoopBufInv, LoopPcs, IInv
  <2>8. RefInv' /\ RequestInv' /\ SlotInv' /\ LoopInv' /\ \A u \in Updates : Accounted(u)'
    <3>1. {pc[0], pc[t], l} \cap (LoopPcs \cup {"append", "end", "stopped"}) = {}
      BY <2>2, <2>3 DEF LoopPcs
    <3>2. pc[t] \in FreshPcs /\ pc[t] # "copy" /\ l # "copy"
      BY <1>1, <2>2 DEF FreshPcs, FillPcs
    <3>3. \A u \in Updates : Taken(u)' <=> Taken(u)
      BY <1>2 DEF Taken
    <3>4. QED
      BY <1>2, <2>2, <3>1, <3>2, <3>3, QuietStep
  <2>9. QED
    BY <2>4, <2>5, <2>6, <2>7, <2>8 DEF IInv
<1>5. QED
  BY <1>3, <1>4

\* Steps that leave the two buffers of the loopback alone keep what is known of it.
LEMMA SameLoop ==
  ASSUME LoopInv, UNCHANGED <<superPartitions, slots, bufsize, out, loopbuf, offset>>,
         pc'[0] \in LoopPcs \ {"getloop", "loop1", "release"} =>
            /\ pc[0] \in LoopPcs \ {"getloop", "loop1", "release"}
            /\ \A u \in Threads : /\ pc'[u] = "lclaim" <=> pc[u] = "lclaim"
                                  /\ pc'[u] # "lcopy" => pc[u] # "lcopy"
            /\ pc'[0] \in {"lsteady", "loop3", "loop4"} => partq' = (bufsize[out] > 0)
  PROVE  LoopInv'
<1> SUFFICES ASSUME pc'[0] \in LoopPcs \ {"getloop", "loop1", "release"}
             PROVE  LoopInv'
  BY DEF LoopInv
<1>1. \A t \in Threads : Size(t)' = Size(t) /\ Substream(t)' = Substream(t)
  BY DEF Size, Substream, ToCurrent, Slice, Dest
<1>2. Claimed' = Claimed /\ Looped' = Looped
  BY DEF Claimed, Looped, ToLoop, Slice, Dest
<1>3. \A t \in Claimed : t \in Threads /\ (pc'[t] # "lcopy" => pc[t] # "lcopy")
  BY DEF Claimed
<1>4. LoopInv!2
  BY DEF LoopInv
<1>5. QED
  BY <1>1, <1>2, <1>3, <1>4 DEF LoopInv

\* Processor 0's set_indexed, between the last barriers of make_index.
LEMMA SetIndexedIInv ==
  ASSUME IInv, NEW t \in Threads, SetIndexed(t)
  PROVE  IInv'
<1> USE Basics
<1>1. /\ t = 0 /\ pc[0] \in {"index", "lindex"}
      /\ IF pc[0] = "index" THEN Indexing /\ Lock({"index"}, {"steady"})
                            ELSE Sorting /\ Lock({"lindex"}, {"lsteady"})
      /\ out # NULL /\ out \in Buffers
  <2>1. pc[t] \in {"index", "lindex"}
    BY DEF SetIndexed, At
  <2>2. pc[t] = "index" => t = 0 /\ Indexing /\ Lock({"index"}, {"steady"})
    BY <2>1, WhichPhase DEF IInv, Indexing, Lock
  <2>3. pc[t] = "lindex" => t = 0 /\ Sorting /\ Lock({"lindex"}, {"lsteady"})
    BY <2>1, WhichPhase DEF IInv, Sorting, Lock
  <2>4. out # NULL /\ out \in Buffers
    BY <2>1, <2>2, <2>3 DEF IInv, LoopBufInv, LoopPcs, Indexing, Types, TypeOK
  <2>5. QED
    BY <2>1, <2>2, <2>3, <2>4
<1>2. UNCHANGED <<superPartitions, loopback, total, emitted, outbuf, offset, space, caller, empty,
                  loopbuf, out, bufsize, slots, refcount, skip, request, cache, busy,
                  onDisk, written, applied, fatal>>
  BY DEF SetIndexed, threadVars, workItem, diskVars
<1> DEFINE l == IF pc[0] = "index" THEN "steady" ELSE "lsteady"
<1>3. /\ pc' = [pc EXCEPT ![0] = l] /\ indexed' = [indexed EXCEPT ![out] = TRUE]
      /\ partq' = (pc[0] = "lindex" /\ bufsize[out] > 0)
  BY <1>1 DEF SetIndexed, Goto
<1>4. pc'[0] = l /\ \A u \in Threads \ {0} : pc'[u] = pc[u]
  BY <1>3 DEF IInv, Types
<1>5. Types'
  <2>1. pc' \in [Threads -> Pcs] /\ indexed' \in [Buffers -> BOOLEAN] /\ partq' \in BOOLEAN
    BY <1>3 DEF IInv, Types, Pcs, LoopPcs
  <2>2. QED
    BY <1>2, <2>1 DEF IInv, Types, TypeOK
<1>6. Phase'
  <2>1. CASE pc[0] = "index"
    <3>1. Indexing'
      BY <1>1, <1>2, <1>4, <2>1 DEF Indexing, Lock
    <3>2. QED
      BY <3>1 DEF Phase
  <2>2. CASE pc[0] = "lindex"
    <3>1. Sorting'
      BY <1>1, <1>2, <1>4, <2>2 DEF Sorting, Lock
    <3>2. QED
      BY <3>1 DEF Phase
  <2>3. QED
    BY <1>1, <2>1, <2>2
<1>7. LoopBufInv'
  BY <1>1, <1>2, <1>4 DEF LoopBufInv, IInv, LoopPcs, Lock
<1>8. RefInv'
  <2>1. OutHeld /\ OutHeld' /\ (LoopHeld' <=> LoopHeld)
    BY <1>1, <1>2, <1>4 DEF OutHeld, LoopHeld, LoopPcs
  <2>2. refcount[out] # 0
    <3>1. One(OutHeld /\ out = out) = 1 /\ One(out \in {request, cache}) \in {0, 1}
          /\ One(LoopHeld /\ out = loopbuf[0]) \in {0, 1}
      BY <2>1 DEF One
    <3>2. QED
      BY <1>1, <3>1 DEF IInv, RefInv
  <2>3. \A b \in Buffers \ {out} : indexed'[b] = indexed[b]
    BY <1>3 DEF IInv, Types
  <2>4. pc'[0] \notin FreshPcs
    BY <1>4 DEF FreshPcs, FillPcs
  <2>5. QED
    BY <1>1, <1>2, <2>1, <2>2, <2>3, <2>4 DEF RefInv, IInv, One
<1>9. RequestInv'
  BY <1>1, <1>2, <1>4 DEF RequestInv, IInv
<1>10. /\ pc'[0] \in LoopPcs <=> pc[0] \in LoopPcs
       /\ OutLive' <=> OutLive
       /\ NotApplied' <=> NotApplied
       /\ \A u \in Threads : pc[u] # "copy" /\ pc'[u] # "copy"
  BY <1>1, <1>2, <1>4 DEF OutLive, NotApplied, LoopPcs, Lock
<1>11. Placed' = Placed
  BY <1>2, <1>10 DEF Placed, Hole
<1>12. SlotInv'
  BY <1>2, <1>10, <1>11, SameSlots DEF IInv
<1>13. LoopInv'
  <2>1. \A u \in Threads : pc[u] \notin {"lclaim", "lcopy"} /\ pc'[u] \notin {"lclaim", "lcopy"}
    BY <1>1, <1>4 DEF Lock
  <2>2. pc'[0] \in LoopPcs => pc[0] = "lindex" /\ partq' = (bufsize[out] > 0)
    BY <1>1, <1>3, <1>10 DEF LoopPcs
  <2>3. pc'[0] \in LoopPcs => pc[0] \in LoopPcs \ {"getloop", "loop1", "release"}
    BY <2>2 DEF LoopPcs
  <2>4. QED
    BY <1>2, <2>1, <2>2, <2>3, SameLoop DEF IInv
<1>14. ASSUME NEW u \in Threads PROVE ThreadInv(u)'
  BY <1>1, <1>2, <1>4 DEF ThreadInv, IInv, Lock
<1>15. ASSUME NEW u \in Updates PROVE Accounted(u)'
  BY <1>2, <1>10, <1>11, SameAccount DEF IInv, InOut, Taken
<1>16. QED
  BY <1>5, <1>6, <1>7, <1>8, <1>9, <1>12, <1>13, <1>14, <1>15 DEF IInv

\* Processor 0's choice between the stream and the loopback, with the reference
\* it takes for the latter.
LEMMA HandOverIInv ==
  ASSUME IInv, NEW t \in Threads, HandOver(t)
  PROVE  IInv'
<1> USE Basics
<1>1. /\ t = 0 /\ pc[0] = "out" /\ out # NULL /\ out \in Buffers
      /\ IF loopback THEN Handing /\ Lock({"out"}, {"loop1"})
                     ELSE Returning /\ Lock({"out"}, {"ret"})
      /\ \A u \in Threads : loopbuf[u] = out
  <2>1. pc[t] = "out"
    BY DEF HandOver, At
  <2>2. t = 0 /\ IF loopback THEN Handing /\ Lock({"out"}, {"loop1"})
                             ELSE Returning /\ Lock({"out"}, {"ret"})
    BY <2>1, WhichPhase DEF IInv, Handing, Returning, Lock
  <2>3. QED
    BY <2>1, <2>2 DEF IInv, LoopBufInv, Types, TypeOK
<1>2. UNCHANGED <<superPartitions, loopback, total, emitted, outbuf, offset, space, caller, empty,
                  loopbuf, bufsize, slots, indexed, partq, request, cache, busy,
                  onDisk, written, applied, fatal>>
  BY DEF HandOver, threadVars, workItem, diskVars
<1>3. /\ OutHeld /\ out \notin {request, cache} /\ OutLive /\ ~LoopHeld /\ ~NotApplied
      /\ refcount[out] = 1 /\ skip[out] = NULL /\ bufsize[out] \in 0..Cap
      /\ pc[0] \notin LoopPcs
  <2>1. OutHeld /\ OutLive /\ ~LoopHeld /\ ~NotApplied /\ pc[0] \notin LoopPcs
    BY <1>1 DEF OutHeld, OutLive, LoopHeld, NotApplied, LoopPcs
  <2>2. out \notin {request, cache}
    BY <2>1 DEF IInv, RefInv
  <2>3. One(OutHeld /\ out = out) = 1 /\ One(out \in {request, cache}) = 0
        /\ One(LoopHeld /\ out = loopbuf[0]) = 0
    BY <2>1, <2>2 DEF One
  <2>4. refcount[out] = 1
    BY <1>1, <2>3 DEF IInv, RefInv
  <2>5. skip[out] = NULL
    BY <1>1, <2>2 DEF IInv, RequestInv
  <2>6. QED
    BY <1>1, <2>1, <2>2, <2>4, <2>5 DEF IInv, Types, TypeOK
<1>4. \A u \in Threads : pc[u] # "copy"
  BY <1>1 DEF Lock
<1>5. Placed = 1..bufsize[out] /\ Distinct(out, 1..bufsize[out])
  <2>1. Placed = 1..bufsize[out]
    BY <1>4 DEF Placed, Hole
  <2>2. QED
    BY <1>3, <2>1 DEF IInv, SlotInv
<1>6. CASE loopback /\ superPartitions = 1
  <2>1. /\ out' = NULL /\ pc' = [pc EXCEPT ![0] = "getloop"]
        /\ UNCHANGED <<skip, refcount>>
    BY <1>1, <1>6 DEF HandOver, Goto
  <2>2. pc'[0] = "getloop" /\ \A u \in Threads \ {0} : pc'[u] = "loop1"
    BY <1>1, <1>6, <2>1 DEF IInv, Types, Lock
  <2>3. Types'
    <3>1. pc' \in [Threads -> Pcs]
      BY <2>1 DEF IInv, Types, Pcs, LoopPcs
    <3>2. QED
      BY <1>2, <2>1, <3>1 DEF IInv, Types, TypeOK
  <2>4. Phase'
    <3>1. Handing'
      BY <1>1, <1>2, <1>6, <2>2 DEF Handing, Lock
    <3>2. QED
      BY <3>1 DEF Phase
  <2>5. LoopBufInv'
    <3>1. request = NULL
      BY <1>6 DEF IInv, RequestInv
    <3>2. QED
      BY <1>1, <1>2, <1>6, <2>1, <2>2, <3>1 DEF LoopBufInv, LoopPcs
  <2>6. ~OutHeld' /\ LoopHeld' /\ ~OutLive' /\ NotApplied'
    BY <1>2, <1>6, <2>1, <2>2 DEF OutHeld, LoopHeld, OutLive, NotApplied, LoopPcs
  <2>7. RefInv'
    <3>1. ASSUME NEW b \in Buffers
          PROVE  /\ refcount'[b] = One(OutHeld /\ b = out)' + One(b \in {request, cache})'
                                   + One(LoopHeld /\ b = loopbuf[0])'
                 /\ refcount'[b] = 0 => ~indexed'[b]
      <4>1. /\ One(OutHeld /\ b = out)' = 0
            /\ One(LoopHeld /\ b = loopbuf[0])' = One(OutHeld /\ b = out)
            /\ One(LoopHeld /\ b = loopbuf[0]) = 0
            /\ One(b \in {request, cache})' = One(b \in {request, cache})
        BY <1>1, <1>2, <1>3, <2>6 DEF One
      <4>2. One(OutHeld /\ b = out) \in {0, 1} /\ One(b \in {request, cache}) \in {0, 1}
        BY DEF One
      <4>3. QED
        BY <2>1, <1>2, <4>1, <4>2 DEF IInv, RefInv
    <3>2. QED
      BY <2>1, <2>6, <3>1 DEF RefInv
  <2>8. RequestInv'
    BY <1>1, <1>2, <2>1, <2>2 DEF RequestInv, IInv
  <2>9. SlotInv'
    BY <1>1, <1>2, <1>5, <2>2, <2>6 DEF SlotInv, Distinct, IInv
  <2>10. LoopInv'
    BY <2>2 DEF LoopInv
  <2>11. ASSUME NEW u \in Threads PROVE ThreadInv(u)'
    BY <1>1, <1>2, <1>6, <2>2 DEF ThreadInv, IInv, Lock
  <2>12. ASSUME NEW u \in Updates PROVE Accounted(u)'
    <3>1. Dest(u) = Superp
      BY <1>6, DestType DEF IInv, Types
    <3>2. InLoop(u)' <=> InOut(u)
      BY <1>1, <1>2, <1>3, <1>5, <2>6, <3>1 DEF InLoop, InOut, InBuffer, Dest
    <3>3. ~InOut(u)' /\ ~InLoop(u)
      BY <1>3, <2>6 DEF InOut, InLoop
    <3>4. InCache(u)' <=> InCache(u)
      BY <1>2 DEF InCache, InBuffer
    <3>5. InRequest(u)' <=> InRequest(u)
      BY <1>2, <2>1 DEF InRequest, InBuffer, Dest
    <3>6. Taken(u)' <=> Taken(u)
      BY <1>2 DEF Taken
    <3>7. written[u] \in Nat /\ applied[u] \in Nat
      BY DEF IInv, Types
    <3>8. QED
      BY <1>2, <3>2, <3>3, <3>4, <3>5, <3>6, <3>7 DEF Accounted, One, IInv
  <2>13. QED
    BY <2>3, <2>4, <2>5, <2>7, <2>8, <2>9, <2>10, <2>11, <2>12 DEF IInv
<1>7. CASE ~(loopback /\ superPartitions = 1)
  <2>1. /\ out' = out /\ pc' = [pc EXCEPT ![0] = "append"]
        /\ IF loopback THEN /\ skip' = [skip EXCEPT ![out] = Superp]
                            /\ refcount' = [refcount EXCEPT ![out] = @ + 1]
                       ELSE UNCHANGED <<skip, refcount>>
    BY <1>1, <1>7 DEF HandOver, Goto
  <2>2. pc'[0] = "append" /\ \A u \in Threads \ {0} : pc'[u] = pc[u] /\ pc'[u] \in {"loop1", "ret"}
    BY <1>1, <2>1 DEF IInv, Types, Lock
  <2>3. /\ refcount'[out] = IF loopback THEN 2 ELSE 1
        /\ skip'[out] = IF loopback THEN Superp ELSE NULL
        /\ \A b \in Buffers \ {out} : refcount'[b] = refcount[b] /\ skip'[b] = skip[b]
    BY <1>1, <1>3, <2>1 DEF IInv, Types, TypeOK
  <2>4. Types'
    <3>1. pc' \in [Threads -> Pcs]
      BY <2>1 DEF IInv, Types, Pcs, LoopPcs
    <3>2. skip' \in [Buffers -> {Superp, NULL}]
      BY <2>1 DEF IInv, Types
    <3>3. refcount' \in [Buffers -> 0..2]
      <4>1. refcount \in [Buffers -> 0..2] /\ refcount[out] + 1 \in 0..2
        BY <1>1, <1>3 DEF IInv, Types, TypeOK
      <4>2. QED
        BY <2>1, <4>1
    <3>4. QED
      BY <1>2, <2>1, <3>1, <3>2, <3>3 DEF IInv, Types, TypeOK
  <2>5. Phase'
    <3>1. CASE loopback
      <4>1. Handing'
        BY <1>1, <1>2, <2>1, <2>2, <3>1 DEF Handing, Lock
      <4>2. QED
        BY <4>1 DEF Phase
    <3>2. CASE ~loopback
      <4>1. Returning'
        BY <1>1, <1>2, <2>1, <2>2, <3>2 DEF Returning, Lock
      <4>2. QED
        BY <4>1 DEF Phase
    <3>3. QED
      BY <3>1, <3>2
  <2>6. LoopBufInv'
    BY <1>1, <1>2, <2>1, <2>2 DEF LoopBufInv, LoopPcs
  <2>7. OutHeld' /\ (LoopHeld' <=> loopback) /\ OutLive' /\ ~NotApplied' /\ pc'[0] \notin LoopPcs
    BY <1>1, <1>2, <2>1, <2>2 DEF OutHeld, LoopHeld, OutLive, NotApplied, LoopPcs
  <2>8. RefInv'
    <3>1. ASSUME NEW b \in Buffers
          PROVE  /\ refcount'[b] = One(OutHeld /\ b = out)' + One(b \in {request, cache})'
                                   + One(LoopHeld /\ b = loopbuf[0])'
                 /\ refcount'[b] = 0 => ~indexed'[b]
      <4>1. /\ One(OutHeld /\ b = out)' = One(OutHeld /\ b = out)
            /\ One(LoopHeld /\ b = loopbuf[0])' = One(loopback /\ b = out)
            /\ One(LoopHeld /\ b = loopbuf[0]) = 0
            /\ One(b \in {request, cache})' = One(b \in {request, cache})
        BY <1>1, <1>2, <1>3, <2>1, <2>7 DEF One
      <4>2. CASE b = out
        BY <1>3, <2>3, <2>7, <4>1, <4>2 DEF One
      <4>3. CASE b # out
        BY <1>2, <2>3, <4>1, <4>3 DEF IInv, RefInv, One
      <4>4. QED
        BY <4>2, <4>3
    <3>2. OutHeld' => out' \notin {request, cache}'
      BY <1>2, <1>3, <2>1
    <3>3. pc'[0] \notin FreshPcs
      BY <2>2 DEF FreshPcs, FillPcs
    <3>4. QED
      BY <3>1, <3>2, <3>3 DEF RefInv
  <2>9. RequestInv'
    <3>1. ASSUME NEW b \in Buffers
          PROVE  skip'[b] = IF loopback /\ ((busy /\ b = request) \/ b = out)
                            THEN Superp ELSE NULL
      BY <1>1, <2>3 DEF RequestInv, IInv
    <3>2. loopback => superPartitions # 1
      BY <1>7
    <3>3. QED
      BY <1>2, <2>1, <2>2, <3>1, <3>2 DEF RequestInv, IInv
  <2>10. Placed' = Placed
    BY <1>2, <1>4, <2>1, <2>2 DEF Placed, Hole
  <2>11. SlotInv'
    <3>1. \A u \in Threads : pc'[u] # "copy"
      BY <2>2
    <3>2. QED
      BY <1>2, <1>3, <2>1, <2>7, <2>10, <3>1, SameSlots DEF IInv
  <2>12. LoopInv'
    BY <2>7 DEF LoopInv
  <2>13. ASSUME NEW u \in Threads PROVE ThreadInv(u)'
    BY <1>1, <1>2, <2>2 DEF ThreadInv, IInv
  <2>14. ASSUME NEW u \in Updates PROVE Accounted(u)'
    <3>1. busy => skip'[request] = skip[request]
      BY <1>3, <2>3 DEF IInv, RequestInv, Types, TypeOK
    <3>2. InOut(u)' <=> InOut(u)
      BY <1>2, <1>3, <2>1, <2>7, <2>10 DEF InOut
    <3>3. Taken(u)' <=> Taken(u)
      BY <1>2 DEF Taken
    <3>4. QED
      BY <1>2, <1>3, <2>1, <2>7, <3>1, <3>2, <3>3, SameAccount DEF IInv
  <2>15. QED
    BY <2>4, <2>5, <2>6, <2>8, <2>9, <2>11, <2>12, <2>13, <2>14 DEF IInv
<1>8. QED
  BY <1>6, <1>7

\* What set_refcount leaves for a buffer that is given back, and for the others.
LEMMA DroppedRefs ==
  ASSUME NEW bs \in SUBSET Buffers, Dropped(bs),
         refcount \in [Buffers -> 0..2], indexed \in [Buffers -> BOOLEAN],
         \A b \in bs : refcount[b] > 0,
         \A b \in Buffers : refcount[b] = 0 => ~indexed[b]
  PROVE  /\ refcount' \in [Buffers -> 0..2] /\ indexed' \in [Buffers -> BOOLEAN]
         /\ \A b \in Buffers : /\ refcount'[b] = IF b \in bs THEN refcount[b] - 1 ELSE refcount[b]
                               /\ refcount'[b] = 0 => ~indexed'[b]
                               /\ indexed'[b] => indexed[b]
<1>1. \A b \in Buffers : refcount[b] \in 0..2 /\ (b \in bs => refcount[b] - 1 \in 0..2)
  OBVIOUS
<1>2. refcount' \in [Buffers -> 0..2]
  BY <1>1 DEF Dropped
<1>3. indexed' \in [Buffers -> BOOLEAN]
  BY DEF Dropped
<1>4. ASSUME NEW b \in Buffers
      PROVE  /\ refcount'[b] = IF b \in bs THEN refcount[b] - 1 ELSE refcount[b]
             /\ indexed'[b] <=> indexed[b] /\ ~(b \in bs /\ refcount[b] = 1)
  BY DEF Dropped
<1>5. QED
  BY <1>1, <1>2, <1>3, <1>4

\* disk_stream::append keeps the invariant in all its cases: the buffer is
\* cached, queued for the I/O thread, or waits for the cached one to be written.
LEMMA AppendBufferIInv ==
  ASSUME IInv, NEW t \in Threads, AppendBuffer(t)
  PROVE  IInv'
<1> USE Basics
<1>1. /\ t = 0 /\ pc[0] = "append" /\ out # NULL /\ out \in Buffers
      /\ IF loopback THEN Handing /\ Lock({"append"}, {"loop1"})
                     ELSE Returning /\ Lock({"append"}, {"ret"})
      /\ \A u \in Threads : loopbuf[u] = out
  <2>1. pc[t] = "append"
    BY DEF AppendBuffer, At
  <2>2. t = 0 /\ IF loopback THEN Handing /\ Lock({"append"}, {"loop1"})
                             ELSE Returning /\ Lock({"append"}, {"ret"})
    BY <2>1, WhichPhase DEF IInv, Handing, Returning, Lock
  <2>3. QED
    BY <2>1, <2>2 DEF IInv, LoopBufInv, Types, TypeOK
<1>2. UNCHANGED <<superPartitions, loopback, total, emitted, outbuf, offset, space, caller, empty,
                  loopbuf, bufsize, slots, skip, partq, onDisk, written, applied, fatal>>
  BY DEF AppendBuffer, threadVars, workItem
<1>3. /\ OutHeld /\ out \notin {request, cache} /\ OutLive /\ (LoopHeld <=> loopback) /\ ~NotApplied
      /\ ~busy /\ bufsize[out] \in 0..Cap /\ pc[0] \notin LoopPcs
      /\ loopback => superPartitions # 1
      /\ request \in Buffers \cup {NULL} /\ cache \in Buffers \cup {NULL}
      /\ superPartitions \in Nat \ {0}
  <2>1. OutHeld /\ OutLive /\ (LoopHeld <=> loopback) /\ ~NotApplied /\ pc[0] \notin LoopPcs
    BY <1>1 DEF OutHeld, OutLive, LoopHeld, NotApplied, LoopPcs
  <2>2. out \notin {request, cache} /\ ~busy
    BY <2>1 DEF IInv, RefInv, AppendBuffer, WriteDone
  <2>3. QED
    BY <1>1, <2>1, <2>2 DEF IInv, Types, TypeOK, RequestInv
<1>4. /\ refcount \in [Buffers -> 0..2] /\ indexed \in [Buffers -> BOOLEAN]
      /\ \A b \in Buffers : refcount[b] = 0 => ~indexed[b]
      /\ \A b \in Buffers : refcount[b] = One(b = out) + One(b \in {request, cache})
                                          + One(loopback /\ b = out)
  BY <1>1, <1>3 DEF IInv, RefInv, Types, TypeOK, One
<1>5. Placed = 1..bufsize[out] /\ Distinct(out, 1..bufsize[out])
  <2>1. Placed = 1..bufsize[out]
    BY <1>1 DEF Placed, Hole, Lock
  <2>2. QED
    BY <1>3, <2>1 DEF IInv, SlotInv
<1>6. \A b \in Buffers : skip[b] = IF loopback /\ b = out THEN Superp ELSE NULL
  BY <1>1, <1>3 DEF IInv, RequestInv
<1>7. \A u \in Threads : u # 0 => pc[u] \in {"loop1", "ret"}
  BY <1>1 DEF Lock
<1>8. ASSUME NEW u \in Threads, \A v \in Threads \ {0} : pc'[v] = pc[v],
             pc'[0] \in {"append", "getloop", "getout"}
      PROVE  ThreadInv(u)'
  BY <1>1, <1>2, <1>7, <1>8 DEF ThreadInv, IInv
<1>9. \A u \in Updates : written[u] \in Nat /\ applied[u] \in Nat
  BY DEF IInv, Types
<1>10. \A u \in Updates : Taken(u)' <=> Taken(u)
  BY <1>2 DEF Taken
<1>11. CASE ~onDisk /\ cache = NULL /\ superPartitions = 1
  <2>1. /\ cache' = out /\ out' = NULL /\ pc' = [pc EXCEPT ![0] = "getout"]
        /\ UNCHANGED <<request, busy, refcount, indexed>> /\ ~loopback
    BY <1>1, <1>3, <1>11 DEF AppendBuffer, Goto, AppendDone
  <2>2. pc'[0] = "getout" /\ \A u \in Threads \ {0} : pc'[u] = pc[u] /\ pc'[u] = "ret"
    BY <1>1, <2>1 DEF IInv, Types, Lock
  <2>3. request = NULL
    BY <1>3, <1>11 DEF IInv, RequestInv
  <2>4. Types'
    BY <1>1, <1>2, <2>1 DEF IInv, Types, TypeOK, Pcs, LoopPcs
  <2>5. Phase'
    <3>1. Returning'
      BY <1>1, <1>2, <2>1, <2>2 DEF Returning, Lock
    <3>2. QED
      BY <3>1 DEF Phase
  <2>6. LoopBufInv'
    BY <1>1, <1>2, <2>1, <2>2 DEF LoopBufInv, LoopPcs
  <2>7. ~OutHeld' /\ ~LoopHeld' /\ ~OutLive' /\ ~NotApplied' /\ pc'[0] \notin LoopPcs
    BY <1>2, <2>1, <2>2 DEF OutHeld, LoopHeld, OutLive, NotApplied, LoopPcs
  <2>8. RefInv'
    BY <1>1, <1>3, <1>4, <1>11, <2>1, <2>3, <2>7 DEF RefInv, One
  <2>9. RequestInv'
    BY <1>2, <1>3, <1>6, <1>11, <2>1, <2>2, <2>3 DEF RequestInv
  <2>10. SlotInv'
    BY <1>2, <1>3, <1>5, <2>1, <2>2, <2>7 DEF SlotInv, Distinct
  <2>11. LoopInv'
    BY <2>7 DEF LoopInv
  <2>12. ASSUME NEW u \in Updates PROVE Accounted(u)'
    <3>1. InCache(u)' <=> InOut(u)
      BY <1>1, <1>2, <1>3, <1>5, <2>1, <2>3 DEF InCache, InBuffer, InOut
    <3>2. /\ ~InCache(u) /\ ~InOut(u)'
          /\ ~InRequest(u) /\ ~InRequest(u)' /\ ~InLoop(u) /\ ~InLoop(u)'
      BY <1>3, <1>11, <2>1, <2>7 DEF InCache, InBuffer, InOut, InRequest, InLoop
    <3>3. QED
      BY <1>2, <1>9, <1>10, <3>1, <3>2 DEF Accounted, One, IInv
  <2>13. QED
    BY <1>8, <2>2, <2>4, <2>5, <2>6, <2>8, <2>9, <2>10, <2>11, <2>12 DEF IInv
<1>12. CASE (onDisk \/ superPartitions > 1) /\ cache = NULL
  <2> DEFINE l == IF loopback THEN "getloop" ELSE "getout"
  <2>1. /\ FreeRequest /\ request' = out /\ busy' = TRUE /\ out' = NULL /\ cache' = cache
        /\ pc' = [pc EXCEPT ![0] = l]
    <3>1. ~(~onDisk /\ cache = NULL /\ superPartitions = 1)
      BY <1>3, <1>12
    <3>2. QED
      BY <1>1, <1>12, <3>1 DEF AppendBuffer, Goto, AppendDone
  <2>2. pc'[0] = l /\ \A u \in Threads \ {0} : pc'[u] = pc[u]
    BY <1>1, <2>1 DEF IInv, Types
  <2>3. /\ refcount' \in [Buffers -> 0..2] /\ indexed' \in [Buffers -> BOOLEAN]
        /\ \A b \in Buffers : /\ refcount'[b] = IF b = request THEN refcount[b] - 1 ELSE refcount[b]
                              /\ refcount'[b] = 0 => ~indexed'[b]
    <3>1. CASE request = NULL
      <4>1. UNCHANGED <<refcount, indexed>>
        BY <2>1, <3>1 DEF FreeRequest
      <4>2. \A b \in Buffers : b # request
        BY <3>1
      <4>3. QED
        BY <1>4, <4>1, <4>2
    <3>2. CASE request # NULL
      <4>1. request \in Buffers /\ Dropped({request}) /\ refcount[request] > 0
        BY <1>3, <1>4, <2>1, <3>2 DEF FreeRequest, One
      <4>2. QED
        BY <1>4, <4>1, DroppedRefs
    <3>3. QED
      BY <3>1, <3>2
  <2>4. Types'
    <3>1. pc' \in [Threads -> Pcs]
      BY <2>1 DEF IInv, Types, Pcs, LoopPcs
    <3>2. QED
      BY <1>1, <1>2, <2>1, <2>3, <3>1 DEF IInv, Types, TypeOK
  <2>5. Phase'
    <3>1. CASE loopback
      <4>1. Handing'
        BY <1>1, <1>2, <2>2, <3>1 DEF Handing, Lock
      <4>2. QED
        BY <4>1 DEF Phase
    <3>2. CASE ~loopback
      <4>1. Returning'
        BY <1>1, <1>2, <2>2, <3>2 DEF Returning, Lock
      <4>2. QED
        BY <4>1 DEF Phase
    <3>3. QED
      BY <3>1, <3>2
  <2>6. LoopBufInv'
    <3>1. \A u \in Threads : pc'[u] \notin {"flush", "test", "split", "switch", "index", "steady"}
      BY <1>7, <2>2
    <3>2. QED
      BY <1>1, <1>2, <1>3, <2>1, <2>2, <3>1 DEF LoopBufInv, LoopPcs
  <2>7. ~OutHeld' /\ (LoopHeld' <=> loopback) /\ ~OutLive' /\ (NotApplied' <=> loopback)
        /\ (pc'[0] \in LoopPcs <=> loopback)
    BY <1>2, <2>1, <2>2 DEF OutHeld, LoopHeld, OutLive, NotApplied, LoopPcs
  <2>8. RefInv'
    <3>1. ASSUME NEW b \in Buffers
          PROVE  refcount'[b] = One(OutHeld /\ b = out)' + One(b \in {request, cache})'
                                + One(LoopHeld /\ b = loopbuf[0])'
      <4>1. /\ One(OutHeld /\ b = out)' = 0
            /\ One(b \in {request, cache})' = One(b = out)
            /\ One(LoopHeld /\ b = loopbuf[0])' = One(loopback /\ b = out)
        BY <1>1, <1>2, <1>12, <2>1, <2>7 DEF One
      <4>2. CASE b = request
        BY <1>3, <1>4, <1>12, <2>3, <4>1, <4>2 DEF One
      <4>3. CASE b # request
        <5>1. b \notin {request, cache}
          BY <1>12, <4>3
        <5>2. QED
          BY <1>4, <2>3, <4>1, <4>3, <5>1 DEF One
      <4>4. QED
        BY <4>2, <4>3
    <3>2. QED
      BY <2>1, <2>3, <2>7, <3>1 DEF RefInv
  <2>9. RequestInv'
    BY <1>1, <1>2, <1>3, <1>6, <1>12, <2>1, <2>2 DEF RequestInv
  <2>10. SlotInv'
    <3>1. \A u \in Threads : pc'[u] # "copy"
      BY <1>7, <2>2
    <3>2. QED
      BY <1>1, <1>2, <1>5, <1>12, <2>1, <2>7, <3>1 DEF SlotInv, Distinct
  <2>11. LoopInv'
    BY <2>2 DEF LoopInv, LoopPcs
  <2>12. ASSUME NEW u \in Updates PROVE Accounted(u)'
    <3>1. /\ InRequest(u)' <=> InOut(u) /\ ~(loopback /\ Dest(u) = Superp)
          /\ InLoop(u)' <=> InOut(u) /\ loopback /\ Dest(u) = Superp
      <4>1. InOut(u) <=> InBuffer(out, u)
        BY <1>1, <1>3, <1>5 DEF InOut, InBuffer
      <4>2. InBuffer(request, u)' <=> InBuffer(out, u)
        BY <1>2, <2>1 DEF InBuffer
      <4>3. InBuffer(loopbuf[0], u)' <=> InBuffer(out, u)
        BY <1>1, <1>2 DEF InBuffer
      <4>4. Dest(u) # NULL /\ Dest(u)' = Dest(u) /\ skip'[request'] = IF loopback THEN Superp ELSE NULL
        BY <1>1, <1>2, <1>6, <2>1, DestType DEF IInv, Types, Dest
      <4>5. QED
        BY <2>1, <2>7, <4>1, <4>2, <4>3, <4>4 DEF InRequest, InLoop
    <3>2. /\ ~InCache(u) /\ ~InOut(u)' /\ ~InCache(u)' /\ ~InRequest(u) /\ ~InLoop(u)
      BY <1>3, <1>12, <2>1, <2>7 DEF InCache, InBuffer, InOut, InRequest, InLoop
    <3>3. QED
      BY <1>2, <1>9, <1>10, <3>1, <3>2 DEF Accounted, One, IInv
  <2>13. QED
    BY <1>8, <2>2, <2>4, <2>5, <2>6, <2>8, <2>9, <2>10, <2>11, <2>12 DEF IInv
<1>13. cache # NULL => ~loopback /\ superPartitions = 1 /\ request \in {NULL, cache} /\ cache \in Buffers
  BY <1>3 DEF IInv, RequestInv
<1>14. ASSUME UNCHANGED <<pc, out>>
       PROVE  /\ Phase' /\ LoopBufInv' /\ LoopInv' /\ Placed' = Placed
              /\ (OutHeld' <=> OutHeld) /\ (LoopHeld' <=> LoopHeld) /\ (OutLive' <=> OutLive)
              /\ (NotApplied' <=> NotApplied)
              /\ \A u \in Updates : InOut(u)' <=> InOut(u)
  <2>1. Phase'
    <3>1. CASE loopback
      <4>1. Handing'
        BY <1>1, <1>2, <1>14, <3>1 DEF Handing, Lock
      <4>2. QED
        BY <4>1 DEF Phase
    <3>2. CASE ~loopback
      <4>1. Returning'
        BY <1>1, <1>2, <1>14, <3>2 DEF Returning, Lock
      <4>2. QED
        BY <4>1 DEF Phase
    <3>3. QED
      BY <3>1, <3>2
  <2>2. LoopBufInv'
    BY <1>1, <1>2, <1>14 DEF LoopBufInv, IInv, LoopPcs
  <2>3. LoopInv'
    BY <1>3, <1>14 DEF LoopInv
  <2>4. Placed' = Placed /\ (OutHeld' <=> OutHeld) /\ (LoopHeld' <=> LoopHeld)
        /\ (OutLive' <=> OutLive) /\ (NotApplied' <=> NotApplied)
    BY <1>2, <1>14 DEF Placed, Hole, OutHeld, LoopHeld, OutLive, NotApplied
  <2>5. \A u \in Updates : InOut(u)' <=> InOut(u)
    BY <1>2, <1>14, <2>4 DEF InOut
  <2>6. QED
    BY <2>1, <2>2, <2>3, <2>4, <2>5
<1>15. CASE cache # NULL /\ request = NULL
  <2>1. request' = cache /\ busy' = TRUE /\ UNCHANGED <<pc, out, cache, refcount, indexed>>
    BY <1>15 DEF AppendBuffer
  <2>2. Types'
    BY <1>2, <1>3, <2>1 DEF IInv, Types, TypeOK
  <2>3. RefInv'
    <3>1. {request', cache'} = {request, cache} \ {NULL}
      BY <1>15, <2>1
    <3>2. \A b \in Buffers : b \in {request', cache'} <=> b \in {request, cache}
      BY <3>1
    <3>3. QED
      BY <1>3, <1>14, <1>2, <2>1, <3>2, <1>15 DEF RefInv, IInv, One
  <2>4. RequestInv'
    BY <1>1, <1>2, <1>3, <1>6, <1>13, <1>15, <2>1 DEF RequestInv
  <2>5. SlotInv'
    <3>1. \A u \in Threads : pc'[u] # "copy"
      BY <1>1, <1>7, <2>1
    <3>2. Distinct(cache, 1..bufsize[cache])' /\ Distinct(out, Placed)'
      BY <1>2, <1>3, <1>14, <1>15, <2>1 DEF SlotInv, Distinct, IInv
    <3>3. QED
      BY <1>2, <1>3, <1>14, <1>15, <2>1, <3>1, <3>2 DEF SlotInv, Distinct
  <2>6. ASSUME NEW u \in Updates PROVE Accounted(u)'
    <3>1. InRequest(u)' <=> InCache(u)
      <4>1. Dest(u) # NULL /\ Dest(u)' = Dest(u) /\ skip'[cache] = NULL
        BY <1>2, <1>6, <1>13, <1>15, DestType DEF IInv, Types, Dest
      <4>2. InBuffer(request, u)' <=> InBuffer(cache, u)
        BY <1>2, <2>1 DEF InBuffer
      <4>3. QED
        BY <1>15, <2>1, <4>1, <4>2 DEF InRequest, InCache
    <3>2. ~InRequest(u) /\ ~InCache(u)' /\ ~InLoop(u) /\ ~InLoop(u)' /\ (InOut(u)' <=> InOut(u))
      BY <1>3, <1>14, <2>1 DEF InCache, InRequest, InLoop
    <3>3. QED
      BY <1>2, <1>9, <1>10, <3>1, <3>2 DEF Accounted, One, IInv
  <2>7. QED
    BY <1>1, <1>8, <1>14, <2>1, <2>2, <2>3, <2>4, <2>5, <2>6 DEF IInv
<1>16. CASE cache # NULL /\ request # NULL
  <2>1. FreeRequest /\ request' = NULL /\ cache' = NULL /\ UNCHANGED <<pc, out, busy>>
    BY <1>16 DEF AppendBuffer
  <2>2. request = cache /\ request \in Buffers /\ refcount[request] = 1 /\ Dropped({request})
    BY <1>3, <1>4, <1>13, <1>16, <2>1 DEF FreeRequest, One
  <2>3. /\ refcount' \in [Buffers -> 0..2] /\ indexed' \in [Buffers -> BOOLEAN]
        /\ \A b \in Buffers : /\ refcount'[b] = IF b = request THEN refcount[b] - 1 ELSE refcount[b]
                              /\ refcount'[b] = 0 => ~indexed'[b]
                              /\ indexed'[b] => indexed[b]
    BY <1>4, <2>2, DroppedRefs
  <2>4. Types'
    BY <1>2, <1>3, <2>1, <2>3 DEF IInv, Types, TypeOK
  <2>5. RefInv'
    <3>1. ASSUME NEW b \in Buffers
          PROVE  refcount'[b] = One(OutHeld /\ b = out)' + One(b \in {request, cache})'
                                + One(LoopHeld /\ b = loopbuf[0])'
      <4>1. /\ One(OutHeld /\ b = out)' = One(b = out)
            /\ One(b \in {request, cache})' = 0
            /\ One(LoopHeld /\ b = loopbuf[0])' = One(loopback /\ b = out)
        BY <1>1, <1>2, <1>3, <1>14, <2>1 DEF One
      <4>2. CASE b = request
        BY <1>3, <1>4, <2>2, <2>3, <4>1, <4>2 DEF One
      <4>3. CASE b # request
        <5>1. b \notin {request, cache}
          BY <2>2, <4>3
        <5>2. QED
          BY <1>4, <2>3, <4>1, <4>3, <5>1 DEF One
      <4>4. QED
        BY <4>2, <4>3
    <3>2. pc[0] \notin FreshPcs
      BY <1>1 DEF FreshPcs, FillPcs
    <3>3. QED
      BY <1>1, <2>1, <2>3, <3>1, <3>2 DEF RefInv
  <2>6. RequestInv'
    BY <1>1, <1>2, <1>3, <1>6, <1>13, <1>16, <2>1 DEF RequestInv
  <2>7. SlotInv'
    <3>1. \A u \in Threads : pc'[u] # "copy"
      BY <1>1, <1>7, <2>1
    <3>2. Distinct(out, Placed)'
      BY <1>2, <1>3, <1>14, <2>1 DEF SlotInv, Distinct, IInv
    <3>3. QED
      BY <1>2, <1>3, <1>14, <2>1, <3>1, <3>2 DEF SlotInv
  <2>8. ASSUME NEW u \in Updates PROVE Accounted(u)'
    <3>1. /\ ~InRequest(u) /\ ~InRequest(u)' /\ ~InCache(u) /\ ~InCache(u)'
          /\ ~InLoop(u) /\ ~InLoop(u)' /\ (InOut(u)' <=> InOut(u))
      BY <1>3, <1>14, <2>1, <2>2 DEF InCache, InRequest, InLoop, InBuffer
    <3>2. QED
      BY <1>2, <1>9, <1>10, <3>1 DEF Accounted, One, IInv
  <2>9. QED
    BY <1>1, <1>8, <1>14, <2>1, <2>4, <2>5, <2>6, <2>7, <2>8 DEF IInv
<1>17. QED
  BY <1>3, <1>11, <1>12, <1>15, <1>16

\* get_buffer takes a free buffer, and ends the process only when there is none.
LEMMA TakeBuffer ==
  ASSUME NEW t \in Threads, NEW next, GetBuffer(t, next)
  PROVE  \/ fatal' = "nobuffer" /\ UNCHANGED <<pc, out, refcount, bufsize>>
            /\ \A b \in Buffers : refcount[b] # 0
         \/ \E b \in Buffers : /\ refcount[b] = 0 /\ out' = b /\ fatal' = fatal
                               /\ refcount' = [refcount EXCEPT ![b] = 1]
                               /\ bufsize' = [bufsize EXCEPT ![b] = 0]
                               /\ pc' = [pc EXCEPT ![t] = next]
<1> DEFINE free == {b \in Buffers : refcount[b] = 0}
<1>1. CASE free = {}
  BY <1>1 DEF GetBuffer
<1>2. CASE free # {}
  <2>1. Min(free) \in free
    <3>1. free \in SUBSET Nat
      BY Basics
    <3>2. QED
      BY <1>2, <3>1, MinIn
  <2>2. /\ out' = Min(free) /\ fatal' = fatal
        /\ refcount' = [refcount EXCEPT ![Min(free)] = 1]
        /\ bufsize' = [bufsize EXCEPT ![Min(free)] = 0]
        /\ pc' = [pc EXCEPT ![t] = next]
    BY <1>2 DEF GetBuffer, Goto
  <2>3. Min(free) \in Buffers /\ refcount[Min(free)] = 0
    BY <2>1
  <2>4. QED
    BY <2>2, <2>3, Zenon
<1>3. QED
  BY <1>1, <1>2

\* Taking a free buffer as stream_out keeps the invariant.
LEMMA NewOutIInv ==
  ASSUME IInv, NEW b \in Buffers, refcount[b] = 0, pc[0] \in {"getloop", "getout"},
         pc' = [pc EXCEPT ![0] = IF pc[0] = "getloop" THEN "loop1" ELSE "ret"],
         out' = b, refcount' = [refcount EXCEPT ![b] = 1], bufsize' = [bufsize EXCEPT ![b] = 0],
         UNCHANGED <<threadVars, slots, indexed, skip, partq, diskVars, applied, fatal>>
  PROVE  IInv'
<1> USE Basics
<1> DEFINE l == IF pc[0] = "getloop" THEN "loop1" ELSE "ret"
<1>1. UNCHANGED <<superPartitions, loopback, total, emitted, outbuf, offset, space, caller, empty,
                  loopbuf, slots, indexed, skip, partq, request, cache, busy,
                  onDisk, written, applied, fatal>>
  BY DEF threadVars, workItem, diskVars
<1>2. /\ pc[0] = "getloop" => Handing /\ Lock({"getloop"}, {"loop1"})
      /\ pc[0] = "getout" => Returning /\ Lock({"getout"}, {"ret"})
      /\ out = NULL
  BY WhichPhase DEF IInv, Handing, Returning, Lock, LoopBufInv
<1>3. pc'[0] = l /\ \A u \in Threads \ {0} : pc'[u] = pc[u] /\ pc'[u] = l
  BY <1>2 DEF IInv, Types, Lock
<1>4. \A u \in Threads : pc'[u] = l /\ pc[u] \in {"getloop", "getout", "loop1", "ret"}
  BY <1>2, <1>3 DEF Lock
<1>19. \A u \in Threads : pc'[u] \in {"loop1", "ret"}
  BY <1>4
<1>5. /\ ~OutHeld /\ (LoopHeld <=> pc[0] = "getloop") /\ ~OutLive
      /\ OutHeld' /\ (LoopHeld' <=> pc[0] = "getloop") /\ (OutLive' <=> pc[0] = "getout")
      /\ (NotApplied <=> pc[0] = "getloop") /\ (NotApplied' <=> pc[0] = "getloop")
      /\ (pc[0] \in LoopPcs <=> pc[0] = "getloop") /\ (pc'[0] \in LoopPcs <=> pc[0] = "getloop")
  BY <1>1, <1>2, <1>3 DEF OutHeld, LoopHeld, OutLive, NotApplied, LoopPcs, Handing
<1>6. /\ b \notin {request, cache} /\ ~indexed[b]
      /\ pc[0] = "getloop" => b # loopbuf[0]
  <2>1. /\ refcount[b] = One(OutHeld /\ b = out) + One(b \in {request, cache})
                          + One(LoopHeld /\ b = loopbuf[0])
        /\ ~indexed[b]
    BY DEF IInv, RefInv
  <2>2. One(OutHeld /\ b = out) \in Nat /\ One(b \in {request, cache}) \in Nat
        /\ One(LoopHeld /\ b = loopbuf[0]) \in Nat
    BY DEF One
  <2>3. One(b \in {request, cache}) = 0 /\ One(LoopHeld /\ b = loopbuf[0]) = 0
    BY <2>1, <2>2
  <2>4. QED
    BY <1>5, <2>1, <2>3 DEF One
<1>7. /\ bufsize'[b] = 0 /\ refcount'[b] = 1
      /\ \A c \in Buffers \ {b} : bufsize'[c] = bufsize[c] /\ refcount'[c] = refcount[c]
  BY DEF IInv, Types, TypeOK
<1>8. Types'
  <2>1. bufsize' \in [Buffers -> 0..Cap] /\ refcount' \in [Buffers -> 0..2]
    BY DEF IInv, Types, TypeOK
  <2>2. pc' \in [Threads -> Pcs]
    BY DEF IInv, Types, Pcs, LoopPcs
  <2>3. QED
    BY <1>1, <2>1, <2>2 DEF IInv, Types, TypeOK
<1>9. Phase'
  <2>1. CASE pc[0] = "getloop"
    <3>1. Handing'
      BY <1>1, <1>2, <1>3, <2>1 DEF Handing, Lock
    <3>2. QED
      BY <3>1 DEF Phase
  <2>2. CASE pc[0] = "getout"
    <3>1. Returning'
      BY <1>1, <1>2, <1>3, <2>2 DEF Returning, Lock
    <3>2. QED
      BY <3>1 DEF Phase
  <2>3. QED
    BY <2>1, <2>2
<1>10. LoopBufInv'
  BY <1>1, <1>4, <1>5, <1>6, <1>7 DEF LoopBufInv, IInv
<1>11. RefInv'
  <2>1. ASSUME NEW c \in Buffers
        PROVE  /\ refcount'[c] = One(OutHeld /\ c = out)' + One(c \in {request, cache})'
                                 + One(LoopHeld /\ c = loopbuf[0])'
               /\ refcount'[c] = 0 => ~indexed'[c]
    <3>1. /\ One(OutHeld /\ c = out)' = One(c = b) /\ One(OutHeld /\ c = out) = 0
          /\ One(c \in {request, cache})' = One(c \in {request, cache})
          /\ One(LoopHeld /\ c = loopbuf[0])' = One(LoopHeld /\ c = loopbuf[0])
      BY <1>1, <1>5 DEF One
    <3>2. CASE c = b
      BY <1>5, <1>6, <1>7, <3>1, <3>2 DEF One
    <3>3. CASE c # b
      <4>1. One(c = b) = 0 /\ One(c \in {request, cache}) \in Nat
            /\ One(LoopHeld /\ c = loopbuf[0]) \in Nat
        BY <3>3 DEF One
      <4>2. refcount'[c] = refcount[c] /\ indexed'[c] = indexed[c]
        BY <1>1, <1>7, <3>3
      <4>3. /\ refcount[c] = One(OutHeld /\ c = out) + One(c \in {request, cache})
                             + One(LoopHeld /\ c = loopbuf[0])
            /\ refcount[c] = 0 => ~indexed[c]
        BY DEF IInv, RefInv
      <4>4. QED
        BY <3>1, <4>1, <4>2, <4>3
    <3>4. QED
      BY <3>2, <3>3
  <2>2. QED
    BY <1>1, <1>6, <2>1 DEF RefInv
<1>12. RequestInv'
  <2>1. pc[0] # "append" /\ pc'[0] # "append"
    BY <1>19
  <2>2. QED
    BY <1>1, <2>1 DEF RequestInv, IInv
<1>13. /\ cache # NULL => cache \in Buffers \ {b}
       /\ busy => request \in Buffers \ {b}
       /\ pc[0] = "getloop" => loopbuf[0] \in Buffers \ {b}
  BY <1>5, <1>6 DEF IInv, Types, TypeOK, RequestInv, LoopBufInv
<1>14. SlotInv'
  <2>1. OutLive' => Placed' = {}
    BY <1>7 DEF Placed
  <2>2. OutLive' => Distinct(out, Placed)'
    BY <2>1 DEF Distinct
  <2>3. cache # NULL => Distinct(cache, 1..bufsize[cache])'
    BY <1>1, <1>7, <1>13 DEF SlotInv, Distinct, IInv
  <2>4. busy => Distinct(request, 1..bufsize[request])'
    BY <1>1, <1>7, <1>13 DEF SlotInv, Distinct, IInv
  <2>5. pc'[0] \in LoopPcs => Distinct(loopbuf[0], 1..bufsize[loopbuf[0]])'
    BY <1>1, <1>5, <1>7, <1>13 DEF SlotInv, Distinct, IInv
  <2>6. QED
    BY <1>1, <1>4, <2>2, <2>3, <2>4, <2>5 DEF SlotInv
<1>15. LoopInv'
  BY <1>3, <1>5 DEF LoopInv
<1>16. ASSUME NEW u \in Threads PROVE ThreadInv(u)'
  <2>1. ThreadInv(u) /\ pc'[u] \in {"loop1", "ret"}
    BY <1>19 DEF IInv
  <2>2. QED
    BY <1>1, <2>1 DEF ThreadInv
<1>17. ASSUME NEW u \in Updates PROVE Accounted(u)'
  <2>1. ~InOut(u) /\ ~InOut(u)'
    BY <1>5, <1>7 DEF InOut, Placed
  <2>2. InCache(u)' <=> InCache(u)
    BY <1>1, <1>7, <1>13 DEF InCache, InBuffer
  <2>3. InRequest(u)' <=> InRequest(u)
    BY <1>1, <1>7, <1>13 DEF InRequest, InBuffer, Dest
  <2>4. InLoop(u)' <=> InLoop(u)
    BY <1>1, <1>5, <1>7, <1>13 DEF InLoop, InBuffer, Dest
  <2>5. Taken(u)' <=> Taken(u)
    BY <1>1 DEF Taken
  <2>6. QED
    BY <1>1, <2>1, <2>2, <2>3, <2>4, <2>5 DEF Accounted, One, IInv
<1>18. QED
  BY <1>8, <1>9, <1>10, <1>11, <1>12, <1>14, <1>15, <1>16, <1>17 DEF IInv

\* get_buffer for the loopback keeps the invariant.
LEMMA GetLoopbackBufferIInv ==
  ASSUME IInv, NEW t \in Threads, GetLoopbackBuffer(t)
  PROVE  IInv'
<1>1. t = 0 /\ pc[0] = "getloop"
  BY WhichPhase DEF IInv, GetLoopbackBuffer, At, Handing, Lock
<1>2. UNCHANGED <<threadVars, slots, indexed, skip, partq, diskVars, applied>> /\ GetBuffer(t, "loop1")
  BY DEF GetLoopbackBuffer
<1>3. CASE fatal' = "nobuffer" /\ UNCHANGED <<pc, out, refcount, bufsize>>
  <2>1. UNCHANGED <<pc, threadVars, out, bufferVars, diskVars, applied>>
    BY <1>2, <1>3 DEF bufferVars
  <2>2. QED
    BY <1>3, <2>1, OnlyFatal
<1>4. ASSUME NEW b \in Buffers, refcount[b] = 0, out' = b, fatal' = fatal,
             refcount' = [refcount EXCEPT ![b] = 1], bufsize' = [bufsize EXCEPT ![b] = 0],
             pc' = [pc EXCEPT ![t] = "loop1"]
      PROVE  IInv'
  BY <1>1, <1>2, <1>4, NewOutIInv
<1>5. QED
  BY <1>2, <1>3, <1>4, TakeBuffer

\* get_buffer at the end of flush_buffer, or force_buffers, keeps the invariant.
LEMMA GetOutBufferIInv ==
  ASSUME IInv, NEW t \in Threads, GetOutBuffer(t)
  PROVE  IInv'
<1> USE Basics
<1>1. t = 0 /\ pc[0] = "getout" /\ Returning /\ Lock({"getout"}, {"ret"}) /\ out = NULL
  BY WhichPhase DEF IInv, GetOutBuffer, At, Returning, Lock, LoopBufInv
<1>2. UNCHANGED <<threadVars, slots, indexed, skip, partq, diskVars, applied>>
  BY DEF GetOutBuffer
<1>3. CASE ~ForceBuffers
  <2>1. GetBuffer(t, "ret")
    BY <1>3 DEF GetOutBuffer
  <2>2. CASE fatal' = "nobuffer" /\ UNCHANGED <<pc, out, refcount, bufsize>>
    <3>1. UNCHANGED <<pc, threadVars, out, bufferVars, diskVars, applied>>
      BY <1>2, <2>2 DEF bufferVars
    <3>2. QED
      BY <2>2, <3>1, OnlyFatal
  <2>3. ASSUME NEW b \in Buffers, refcount[b] = 0, out' = b, fatal' = fatal,
               refcount' = [refcount EXCEPT ![b] = 1], bufsize' = [bufsize EXCEPT ![b] = 0],
               pc' = [pc EXCEPT ![t] = "ret"]
        PROVE  IInv'
    BY <1>1, <1>2, <2>3, NewOutIInv
  <2>4. QED
    BY <2>1, <2>2, <2>3, TakeBuffer
<1>4. CASE ForceBuffers
  <2>1. /\ pc' = [pc EXCEPT ![0] = "ret"] /\ out' = out
        /\ UNCHANGED <<superPartitions, loopback, total, emitted, outbuf, offset, space, caller,
                       empty, loopbuf, bufsize, slots, indexed, refcount, skip, partq, request,
                       cache, busy, onDisk, written, applied, fatal>>
    BY <1>1, <1>2, <1>4 DEF GetOutBuffer, Goto, threadVars, workItem, diskVars
  <2>2. \A u \in Threads : pc'[u] = "ret" /\ pc[u] \in {"getout", "ret"}
    BY <1>1, <2>1 DEF IInv, Types, Lock
  <2>3. Types'
    BY <2>1 DEF IInv, Types, TypeOK, Pcs
  <2>4. Phase'
    <3>1. Returning'
      BY <1>1, <2>1, <2>2 DEF Returning, Lock
    <3>2. QED
      BY <3>1 DEF Phase
  <2>5. LoopBufInv'
    BY <1>1, <2>1, <2>2 DEF LoopBufInv, LoopPcs
  <2>6. ASSUME NEW u \in Threads PROVE ThreadInv(u)'
    <3>1. ThreadInv(u) /\ pc'[u] = "ret"
      BY <2>2 DEF IInv
    <3>2. QED
      BY <2>1, <3>1 DEF ThreadInv
  <2>7. /\ ~OutHeld /\ ~OutHeld' /\ ~LoopHeld /\ ~LoopHeld' /\ ~OutLive /\ ~OutLive'
        /\ ~NotApplied /\ ~NotApplied' /\ pc[0] \notin LoopPcs /\ pc'[0] \notin LoopPcs
    BY <1>1, <2>1, <2>2 DEF OutHeld, LoopHeld, OutLive, NotApplied, LoopPcs
  <2>8. RefInv'
    BY <1>1, <2>1, <2>7 DEF RefInv, IInv, One
  <2>9. RequestInv'
    BY <1>1, <2>1, <2>2 DEF RequestInv, IInv
  <2>10. SlotInv'
    BY <2>1, <2>2, <2>7 DEF SlotInv, Distinct, IInv
  <2>11. LoopInv'
    BY <2>7 DEF LoopInv
  <2>12. ASSUME NEW u \in Updates PROVE Accounted(u)'
    BY <2>1, <2>7, SameAccount DEF IInv, InOut, Taken
  <2>13. QED
    BY <2>3, <2>4, <2>5, <2>6, <2>8, <2>9, <2>10, <2>11, <2>12 DEF IInv
<1>5. QED
  BY <1>3, <1>4

\* Giving both buffers of the loopback back keeps the invariant: their updates
\* are written or applied.
LEMMA ReleaseIInv ==
  ASSUME IInv, NEW t \in Threads, Release(t)
  PROVE  IInv'
<1> USE Basics
<1>1. t = 0 /\ pc[0] = "release" /\ Returning /\ loopback /\ Lock({"release"}, {"ret"})
  BY WhichPhase DEF IInv, Release, At, Returning, Lock
<1>2. /\ pc' = [pc EXCEPT ![0] = "getout"] /\ out' = NULL /\ Dropped({loopbuf[0], out})
      /\ UNCHANGED <<superPartitions, loopback, total, emitted, outbuf, offset, space, caller,
                     empty, loopbuf, bufsize, slots, skip, partq, request, cache, busy, onDisk,
                     written, applied, fatal>>
  BY <1>1 DEF Release, Goto, threadVars, workItem, diskVars
<1>3. /\ pc'[0] = "getout" /\ \A u \in Threads \ {0} : pc[u] = "ret" /\ pc'[u] = "ret"
  BY <1>1, <1>2 DEF IInv, Types, Lock
<1>4. /\ out \in Buffers /\ loopbuf[0] \in Buffers /\ loopbuf[0] # out
      /\ OutHeld /\ LoopHeld /\ ~OutHeld' /\ ~LoopHeld' /\ ~OutLive /\ ~OutLive'
      /\ ~NotApplied /\ ~NotApplied' /\ pc'[0] \notin LoopPcs
      /\ out \notin {request, cache}
  BY <1>1, <1>2, <1>3 DEF IInv, Types, TypeOK, LoopBufInv, RefInv, OutHeld, LoopHeld, OutLive,
                          NotApplied, LoopPcs
<1>5. \A b \in Buffers : /\ refcount[b] = One(b = out) + One(b \in {request, cache})
                                          + One(b = loopbuf[0])
                         /\ refcount[b] = 0 => ~indexed[b]
  BY <1>4 DEF IInv, RefInv, One
<1>6. /\ refcount' \in [Buffers -> 0..2] /\ indexed' \in [Buffers -> BOOLEAN]
      /\ \A b \in Buffers : /\ refcount'[b] = IF b \in {loopbuf[0], out} THEN refcount[b] - 1
                                                                         ELSE refcount[b]
                            /\ refcount'[b] = 0 => ~indexed'[b]
  <2>1. ASSUME NEW b \in {loopbuf[0], out} PROVE refcount[b] > 0
    <3>1. b \in Buffers /\ One(b \in {request, cache}) \in Nat
      BY <1>4 DEF One
    <3>2. One(b = out) + One(b = loopbuf[0]) = 1
      BY <1>4, <2>1 DEF One
    <3>3. One(b = out) \in Nat /\ One(b = loopbuf[0]) \in Nat
      BY DEF One
    <3>4. QED
      BY <1>5, <3>1, <3>2, <3>3
  <2>2. {loopbuf[0], out} \in SUBSET Buffers /\ Dropped({loopbuf[0], out})
    BY <1>2, <1>4
  <2>3. refcount \in [Buffers -> 0..2] /\ indexed \in [Buffers -> BOOLEAN]
    BY DEF IInv, Types, TypeOK
  <2>4. \A b \in Buffers : refcount[b] = 0 => ~indexed[b]
    BY <1>5
  <2>5. QED
    BY <2>1, <2>2, <2>3, <2>4, DroppedRefs
<1>7. Types'
  BY <1>2, <1>6 DEF IInv, Types, TypeOK, Pcs
<1>8. Phase'
  <2>1. Returning'
    BY <1>1, <1>2, <1>3 DEF Returning, Lock
  <2>2. QED
    BY <2>1 DEF Phase
<1>9. LoopBufInv'
  BY <1>2, <1>3 DEF LoopBufInv, LoopPcs
<1>10. RefInv'
  <2>1. ASSUME NEW b \in Buffers PROVE refcount'[b] = One(b \in {request, cache})
    <3>1. One(b \in {request, cache}) \in Nat
      BY DEF One
    <3>2. One(b = out) + One(b = loopbuf[0]) = IF b \in {loopbuf[0], out} THEN 1 ELSE 0
      BY <1>4 DEF One
    <3>3. One(b = out) \in Nat /\ One(b = loopbuf[0]) \in Nat
      BY DEF One
    <3>4. QED
      BY <1>5, <1>6, <3>1, <3>2, <3>3
  <2>2. \A b \in Buffers : One(b \in {request, cache})' = One(b \in {request, cache})
    BY <1>2
  <2>3. QED
    BY <1>2, <1>4, <1>6, <2>1, <2>2 DEF RefInv, One
<1>11. RequestInv'
  BY <1>1, <1>2, <1>3 DEF RequestInv, IInv
<1>12. SlotInv'
  BY <1>2, <1>3, <1>4 DEF SlotInv, Distinct, IInv
<1>13. LoopInv'
  BY <1>4 DEF LoopInv
<1>14. ASSUME NEW u \in Threads PROVE ThreadInv(u)'
  <2>1. ThreadInv(u) /\ pc'[u] \in {"ret", "getout"}
    BY <1>3 DEF IInv
  <2>2. QED
    BY <1>2, <2>1 DEF ThreadInv
<1>15. ASSUME NEW u \in Updates PROVE Accounted(u)'
  <2>1. /\ ~InOut(u) /\ ~InOut(u)' /\ ~InLoop(u) /\ ~InLoop(u)'
    BY <1>4 DEF InOut, InLoop
  <2>2. (InCache(u)' <=> InCache(u)) /\ (InRequest(u)' <=> InRequest(u)) /\ (Taken(u)' <=> Taken(u))
    BY <1>2 DEF InCache, InRequest, InBuffer, Dest, Taken
  <2>3. QED
    BY <1>2, <2>1, <2>2 DEF Accounted, One, IInv
<1>16. QED
  BY <1>7, <1>8, <1>9, <1>10, <1>11, <1>12, <1>13, <1>14, <1>15 DEF IInv

\* Giving the unused output buffer back keeps the invariant.
LEMMA FreeOutIInv ==
  ASSUME IInv, NEW t \in Threads, FreeOut(t)
  PROVE  IInv'
<1> USE Basics
<1>1. t = 0 /\ pc[0] = "freeout" /\ Closing /\ Lock({"freeout"}, {"end"})
  BY WhichPhase DEF IInv, FreeOut, At, Closing, Lock
<1>2. /\ pc' = [pc EXCEPT ![0] = "end"]
      /\ UNCHANGED <<superPartitions, loopback, total, emitted, outbuf, offset, space, caller,
                     empty, loopbuf, out, bufsize, slots, skip, partq, request, cache, busy,
                     onDisk, written, applied, fatal>>
  BY <1>1 DEF FreeOut, Goto, threadVars, workItem, diskVars
<1>3. /\ pc'[0] = "end" /\ \A u \in Threads \ {0} : pc[u] = "end" /\ pc'[u] = "end"
  BY <1>1, <1>2 DEF IInv, Types, Lock
<1>4. /\ out \in Buffers \cup {NULL} /\ (OutHeld <=> out # NULL) /\ ~OutHeld' /\ ~LoopHeld
      /\ ~LoopHeld' /\ ~OutLive' /\ ~NotApplied /\ ~NotApplied' /\ pc'[0] \notin LoopPcs
      /\ out # NULL => out \notin {request, cache} /\ bufsize[out] = 0
  BY <1>1, <1>2, <1>3 DEF IInv, Types, TypeOK, RefInv, OutHeld, LoopHeld, OutLive, Closing,
                          NotApplied, LoopPcs
<1>5. \A b \in Buffers : /\ refcount[b] = One(b = out) + One(b \in {request, cache})
                         /\ refcount[b] = 0 => ~indexed[b]
  BY <1>4 DEF IInv, RefInv, One
<1>6. /\ refcount' \in [Buffers -> 0..2] /\ indexed' \in [Buffers -> BOOLEAN]
      /\ \A b \in Buffers : /\ refcount'[b] = IF b = out THEN refcount[b] - 1 ELSE refcount[b]
                            /\ refcount'[b] = 0 => ~indexed'[b]
  <2>1. CASE out = NULL
    <3>1. UNCHANGED <<refcount, indexed>>
      BY <2>1 DEF FreeOut
    <3>2. \A b \in Buffers : b # out
      BY <2>1
    <3>3. QED
      BY <1>5, <3>1, <3>2 DEF IInv, Types, TypeOK
  <2>2. CASE out # NULL
    <3>1. Dropped({out}) /\ refcount[out] > 0
      BY <1>4, <1>5, <2>2 DEF FreeOut, One
    <3>2. {out} \in SUBSET Buffers /\ \A b \in {out} : refcount[b] > 0
      BY <1>4, <2>2, <3>1
    <3>3. refcount \in [Buffers -> 0..2] /\ indexed \in [Buffers -> BOOLEAN]
      BY DEF IInv, Types, TypeOK
    <3>4. \A b \in Buffers : refcount[b] = 0 => ~indexed[b]
      BY <1>5
    <3>5. QED
      BY <3>1, <3>2, <3>3, <3>4, DroppedRefs
  <2>3. QED
    BY <2>1, <2>2
<1>7. Types'
  BY <1>2, <1>6 DEF IInv, Types, TypeOK, Pcs
<1>8. Phase'
  <2>1. Closing'
    BY <1>1, <1>2, <1>3 DEF Closing, Lock
  <2>2. QED
    BY <2>1 DEF Phase
<1>9. LoopBufInv'
  BY <1>2, <1>3 DEF LoopBufInv, LoopPcs
<1>10. RefInv'
  <2>1. ASSUME NEW b \in Buffers PROVE refcount'[b] = One(b \in {request, cache})
    <3>1. One(b \in {request, cache}) \in Nat
      BY DEF One
    <3>2. One(b = out) = IF b = out THEN 1 ELSE 0
      BY DEF One
    <3>3. QED
      BY <1>5, <1>6, <3>1, <3>2
  <2>2. \A b \in Buffers : One(b \in {request, cache})' = One(b \in {request, cache})
    BY <1>2
  <2>3. pc'[0] \notin FreshPcs
    BY <1>3 DEF FreshPcs, FillPcs
  <2>4. QED
    BY <1>4, <1>6, <2>1, <2>2, <2>3 DEF RefInv, One
<1>11. RequestInv'
  BY <1>1, <1>2, <1>3 DEF RequestInv, IInv
<1>12. SlotInv'
  BY <1>2, <1>3, <1>4 DEF SlotInv, Distinct, IInv
<1>13. LoopInv'
  BY <1>4 DEF LoopInv
<1>14. ASSUME NEW u \in Threads PROVE ThreadInv(u)'
  <2>1. ThreadInv(u) /\ pc'[u] = "end" /\ pc[u] \in {"end", "freeout"}
    BY <1>1, <1>3 DEF IInv
  <2>2. QED
    BY <1>2, <2>1 DEF ThreadInv
<1>15. ASSUME NEW u \in Updates PROVE Accounted(u)'
  <2>1. /\ ~InOut(u) /\ ~InOut(u)' /\ ~InLoop(u) /\ ~InLoop(u)'
    BY <1>4 DEF InOut, InLoop, Placed, OutLive
  <2>2. (InCache(u)' <=> InCache(u)) /\ (InRequest(u)' <=> InRequest(u)) /\ (Taken(u)' <=> Taken(u))
    BY <1>2 DEF InCache, InRequest, InBuffer, Dest, Taken
  <2>3. QED
    BY <1>2, <2>1, <2>2 DEF Accounted, One, IInv
<1>16. QED
  BY <1>7, <1>8, <1>9, <1>10, <1>11, <1>12, <1>13, <1>14, <1>15 DEF IInv

-----------------------------------------------------------------------------
(* The I/O thread *)

\* In a buffer of distinct updates an update is at one position or at none.
LEMMA OneAt ==
  ASSUME NEW b, NEW n \in Nat, Distinct(b, 1..n), NEW u
  PROVE  Cardinality({i \in 1..n : slots[b][i] = u}) = IF \E i \in 1..n : slots[b][i] = u
                                                       THEN 1 ELSE 0
<1>1. CASE \E i \in 1..n : slots[b][i] = u
  <2>1. PICK i \in 1..n : slots[b][i] = u
    BY <1>1
  <2>2. {j \in 1..n : slots[b][j] = u} = {i}
    BY <2>1 DEF Distinct
  <2>3. QED
    BY <1>1, <2>2, FS_Singleton
<1>2. CASE ~\E i \in 1..n : slots[b][i] = u
  <2>1. {j \in 1..n : slots[b][j] = u} = {}
    BY <1>2
  <2>2. QED
    BY <1>2, <2>1, FS_EmptySet
<1>3. QED
  BY <1>1, <1>2

\* The I/O thread's write keeps the invariant: it adds one to the updates of the
\* buffer, except those of the super partition that it skips.
LEMMA IOWriteIInv ==
  ASSUME IInv, IOWrite
  PROVE  IInv'
<1> USE Basics
<1>1. busy /\ request # NULL /\ request \in Buffers
  BY DEF IOWrite, IInv, RequestInv, Types, TypeOK
<1>2. /\ skip' = [skip EXCEPT ![request] = NULL] /\ onDisk' = TRUE /\ busy' = FALSE
      /\ UNCHANGED <<pc, superPartitions, loopback, total, emitted, outbuf, offset, space, caller,
                     empty, loopbuf, out, bufsize, slots, indexed, refcount, partq, request,
                     cache, applied, fatal>>
  BY DEF IOWrite, threadVars, workItem
<1>3. bufsize[request] \in Nat /\ Distinct(request, 1..bufsize[request])
  BY <1>1 DEF IInv, SlotInv, Types, TypeOK
<1>4. \A u \in Updates : written'[u] = written[u] + One(InRequest(u))
  <2> SUFFICES ASSUME NEW u \in Updates PROVE written'[u] = written[u] + One(InRequest(u))
    OBVIOUS
  <2>1. Cardinality({i \in 1..bufsize[request] : slots[request][i] = u}) = One(InBuffer(request, u))
    <3>1. Cardinality({i \in 1..bufsize[request] : slots[request][i] = u})
          = IF \E i \in 1..bufsize[request] : slots[request][i] = u THEN 1 ELSE 0
      BY <1>3, OneAt
    <3>2. InBuffer(request, u) <=> \E i \in 1..bufsize[request] : slots[request][i] = u
      BY <1>1 DEF InBuffer
    <3>3. QED
      BY <3>1, <3>2 DEF One
  <2>2. written[u] \in Nat
    BY DEF IInv, Types
  <2>3. CASE Dest(u) = skip[request]
    BY <2>2, <2>3 DEF IOWrite, InRequest, One
  <2>4. CASE Dest(u) # skip[request]
    <3>1. written'[u] = written[u] + One(InBuffer(request, u))
      BY <2>1, <2>4 DEF IOWrite
    <3>2. InRequest(u) <=> InBuffer(request, u)
      BY <1>1, <2>4 DEF InRequest
    <3>3. QED
      BY <3>1, <3>2 DEF One
  <2>5. QED
    BY <2>3, <2>4
<1>5. \A b \in Buffers : skip'[b] = IF b = request THEN NULL ELSE skip[b]
  BY <1>2 DEF IInv, Types
<1>6. Types'
  <2>1. written' \in [Updates -> Nat]
    <3>1. \A u \in Updates : written[u] \in Nat /\ One(InRequest(u)) \in Nat
      BY DEF IInv, Types, One
    <3>2. \A u \in Updates : written'[u] \in Nat
      BY <1>4, <3>1
    <3>3. QED
      BY <3>2 DEF IOWrite
  <2>2. skip' \in [Buffers -> {Superp, NULL}]
    BY <1>2 DEF IInv, Types
  <2>3. QED
    BY <1>2, <2>1, <2>2 DEF IInv, Types, TypeOK
<1>7. Phase'
  BY <1>2 DEF IInv, Phase, Filling, Testing, Indexing, Handing, Copying, Sorting, Draining,
              Returning, Leaving, NoOutput, Closing, Lock
<1>8. LoopBufInv' /\ RefInv'
  BY <1>2 DEF IInv, LoopBufInv, RefInv, OutHeld, LoopHeld
<1>9. RequestInv'
  <2>1. pc[0] = "append" => out # request
    BY <1>1 DEF IInv, LoopBufInv, RefInv, OutHeld
  <2>2. \A b \in Buffers : skip'[b] = IF loopback /\ pc[0] = "append" /\ b = out
                                      THEN Superp ELSE NULL
    BY <1>1, <1>5, <2>1 DEF IInv, RequestInv
  <2>3. QED
    BY <1>1, <1>2, <2>2 DEF IInv, RequestInv
<1>10. OutLive' = OutLive /\ Placed' = Placed /\ NotApplied' = NotApplied
  BY <1>2 DEF OutLive, Placed, Hole, NotApplied
<1>11. SlotInv'
  BY <1>2, <1>10 DEF IInv, SlotInv, Distinct
<1>12. LoopInv'
  <2>1. pc'[0] \in {"lsteady", "loop3", "loop4"} => partq' = (bufsize[out] > 0)
    BY <1>2 DEF IInv, LoopInv, LoopPcs
  <2>2. QED
    BY <1>2, <2>1, SameLoop DEF IInv
<1>13. \A t \in Threads : ThreadInv(t)'
  BY <1>2 DEF IInv, ThreadInv
<1>14. ASSUME NEW u \in Updates PROVE Accounted(u)'
  <2>1. (InOut(u)' <=> InOut(u)) /\ (InLoop(u)' <=> InLoop(u)) /\ (InCache(u)' <=> InCache(u))
        /\ (Taken(u)' <=> Taken(u)) /\ ~InRequest(u)'
    BY <1>2, <1>10 DEF InOut, InLoop, InCache, InRequest, InBuffer, Dest, Taken
  <2>2. written[u] \in Nat /\ applied[u] \in Nat
    BY DEF IInv, Types
  <2>3. QED
    BY <1>2, <1>4, <2>1, <2>2 DEF Accounted, One, IInv
<1>15. QED
  BY <1>6, <1>7, <1>8, <1>9, <1>11, <1>12, <1>13, <1>14 DEF IInv

-----------------------------------------------------------------------------
(* The loopback *)

\* The positions that processors copy in the loopback: each position with an
\* update for the current super partition belongs to one of them.
LEMMA LoopSets ==
  ASSUME IInv, pc[0] \in LoopPcs
  PROVE  /\ loopbuf[0] \in Buffers /\ \A t \in Threads : loopbuf[t] = loopbuf[0]
         /\ bufsize[loopbuf[0]] \in 0..Cap /\ Distinct(loopbuf[0], 1..bufsize[loopbuf[0]])
         /\ ToLoop \subseteq 1..bufsize[loopbuf[0]] /\ IsFiniteSet(ToLoop)
         /\ \A t \in Threads :
              /\ ToCurrent(t) = ToLoop \cap Slice(loopbuf[0], t)
              /\ IsFiniteSet(ToCurrent(t)) /\ Size(t) \in Nat
<1> USE Basics
<1>1. /\ loopbuf[0] \in Buffers /\ \A t \in Threads : loopbuf[t] = loopbuf[0]
      /\ bufsize[loopbuf[0]] \in 0..Cap /\ Distinct(loopbuf[0], 1..bufsize[loopbuf[0]])
  BY DEF IInv, LoopBufInv, SlotInv, Types, TypeOK
<1>2. ToLoop \subseteq 1..bufsize[loopbuf[0]]
  BY DEF ToLoop
<1>3. IsFiniteSet(ToLoop)
  <2>1. bufsize[loopbuf[0]] \in Nat
    BY <1>1
  <2>2. QED
    BY <1>2, <2>1, InRange
<1>4. ASSUME NEW t \in Threads
      PROVE  /\ ToCurrent(t) = ToLoop \cap Slice(loopbuf[0], t)
             /\ IsFiniteSet(ToCurrent(t)) /\ Size(t) \in Nat
  <2>1. Slice(loopbuf[0], t) \subseteq 1..bufsize[loopbuf[0]]
    <3>1. bufsize[loopbuf[0]] \in Nat
      BY <1>1
    <3>2. QED
      BY <1>1, <3>1, Slices
  <2>2. ToCurrent(t) = ToLoop \cap Slice(loopbuf[0], t)
    BY <1>1, <2>1 DEF ToCurrent, ToLoop
  <2>3. IsFiniteSet(ToCurrent(t))
    <3>1. ToCurrent(t) \subseteq ToLoop
      BY <2>2
    <3>2. QED
      BY <1>3, <3>1, FS_Subset
  <2>4. QED
    BY <2>2, <2>3, FS_CardinalityType DEF Size
<1>5. QED
  BY <1>1, <1>2, <1>3, <1>4

\* get_substream gives each update of the slice for the current super partition once.
LEMMA Substreams ==
  ASSUME IInv, pc[0] \in LoopPcs, NEW t \in Threads
  PROVE  /\ Substream(t) \in Seq(Updates) /\ Len(Substream(t)) = Size(t)
         /\ \A k \in 1..Size(t) : \E p \in ToCurrent(t) : Substream(t)[k] = slots[loopbuf[0]][p]
         /\ \A p \in ToCurrent(t) : \E k \in 1..Size(t) : Substream(t)[k] = slots[loopbuf[0]][p]
         /\ \A j, k \in 1..Size(t) : Substream(t)[j] = Substream(t)[k] => j = k
<1> DEFINE B == loopbuf[0]
           at == SetToSeq(ToCurrent(t))
           sub == [k \in 1..Size(t) |-> slots[B][at[k]]]
<1>1. loopbuf[t] = B /\ Distinct(B, 1..bufsize[B]) /\ ToCurrent(t) \subseteq 1..bufsize[B]
      /\ IsFiniteSet(ToCurrent(t)) /\ Size(t) \in Nat
  BY LoopSets
<1>2. /\ at \in [1..Size(t) -> ToCurrent(t)]
      /\ \A i, j \in 1..Size(t) : at[i] = at[j] => i = j
      /\ \A x \in ToCurrent(t) : \E i \in 1..Size(t) : at[i] = x
  BY <1>1, SetToSeqIsBijection DEF Size
<1>3. Substream(t) = sub
  BY <1>1 DEF Substream, Size
<1> HIDE DEF at
<1>4. \A k \in 1..Size(t) : at[k] \in ToCurrent(t) /\ at[k] \in 1..bufsize[B]
  BY <1>1, <1>2
<1>5. \A k \in 1..Size(t) : sub[k] = slots[B][at[k]] /\ sub[k] \in Updates
  BY <1>1, <1>4 DEF Distinct
<1>6. sub \in Seq(Updates) /\ Len(sub) = Size(t)
  <2>1. sub \in [1..Size(t) -> Updates]
    BY <1>5
  <2>2. QED
    BY <1>1, <2>1, SeqDef
<1> HIDE DEF sub
<1>7. \A k \in 1..Size(t) : \E p \in ToCurrent(t) : sub[k] = slots[B][p]
  BY <1>4, <1>5
<1>8. \A p \in ToCurrent(t) : \E k \in 1..Size(t) : sub[k] = slots[B][p]
  BY <1>2, <1>5
<1>9. ASSUME NEW j \in 1..Size(t), NEW k \in 1..Size(t), sub[j] = sub[k] PROVE j = k
  <2>1. at[j] = at[k]
    BY <1>1, <1>4, <1>5, <1>9 DEF Distinct
  <2>2. QED
    BY <1>2, <2>1
<1>10. QED
  BY <1>3, <1>6, <1>7, <1>8, <1>9

\* A step of the loopback's copying that keeps LoopInv keeps the invariant, and the
\* positions that the other processors copy.
LEMMA LoopFrame ==
  ASSUME IInv, Copying, NEW t \in Threads, NEW l \in {"lcopy", "loop2"},
         pc' = [pc EXCEPT ![t] = l],
         UNCHANGED <<superPartitions, loopback, total, emitted, outbuf, space, caller, empty,
                     loopbuf, out, indexed, refcount, skip, partq, request, cache, busy, onDisk,
                     written, applied, fatal>>,
         offset' \in [Threads -> 0..Cap], bufsize' \in [Buffers -> 0..Cap],
         slots' \in [Buffers -> [1..Cap -> Updates \cup {NULL}]],
         \A b \in Buffers \ {out} : slots'[b] = slots[b] /\ bufsize'[b] = bufsize[b]
  PROVE  /\ LoopInv' => IInv'
         /\ loopbuf[0] \in Buffers \ {out} /\ out \in Buffers
         /\ ToLoop' = ToLoop
         /\ \A u \in Threads : /\ Slice(loopbuf[0], u)' = Slice(loopbuf[0], u)
                               /\ Size(u)' = Size(u) /\ Substream(u)' = Substream(u)
<1> USE Basics
<1>1. /\ \A u \in Threads : pc'[u] = IF u = t THEN l ELSE pc[u]
      /\ \A u \in Threads : pc[u] \in {"lclaim", "lcopy", "loop2"} /\ pc'[u] \in {"lclaim", "lcopy", "loop2"}
      /\ loopback /\ \A u \in Threads : ~empty[u]
  BY DEF IInv, Types, Copying, Lock
<1>2. pc[0] \in LoopPcs \ {"getloop", "loop1", "release"} /\ pc'[0] \in LoopPcs
  BY <1>1 DEF LoopPcs
<1>3. /\ out \in Buffers /\ loopbuf[0] \in Buffers \ {out} /\ \A u \in Threads : loopbuf[u] = loopbuf[0]
      /\ OutHeld /\ OutHeld' /\ LoopHeld /\ LoopHeld' /\ ~OutLive /\ ~OutLive'
      /\ NotApplied /\ NotApplied'
  BY <1>1, <1>2 DEF IInv, LoopBufInv, Types, TypeOK, OutHeld, LoopHeld, OutLive, NotApplied, LoopPcs
<1>4. /\ cache # NULL => cache \in Buffers \ {out}
      /\ busy => request \in Buffers \ {out}
  BY <1>3 DEF IInv, RefInv, RequestInv, Types, TypeOK
<1>5. Types'
  <2>1. pc' \in [Threads -> Pcs]
    BY DEF IInv, Types, Pcs, LoopPcs
  <2>2. QED
    BY <2>1 DEF IInv, Types, TypeOK
<1>6. Phase'
  <2>1. Copying'
    BY <1>1 DEF Copying, Lock
  <2>2. QED
    BY <2>1 DEF Phase
<1>7. LoopBufInv'
  <2>1. pc[0] \notin {"out", "append", "getloop", "getout", "loop1", "ret"}
        /\ pc'[0] \notin {"out", "append", "getloop", "getout", "loop1", "ret"}
    BY <1>1
  <2>2. \A u \in Threads : pc'[u] \notin {"flush", "test", "split", "switch", "index", "steady"}
    BY <1>1
  <2>3. QED
    BY <1>2, <1>3, <2>1, <2>2 DEF LoopBufInv, IInv
<1>8. RefInv'
  <2>1. pc[0] \in FreshPcs
    BY <1>1 DEF FreshPcs
  <2>2. QED
    BY <1>3, <2>1 DEF RefInv, IInv, One
<1>9. RequestInv'
  <2>1. pc[0] # "append" /\ pc'[0] # "append"
    BY <1>1
  <2>2. QED
    BY <2>1 DEF RequestInv, IInv
<1>10. SlotInv'
  <2>1. cache # NULL => Distinct(cache, 1..bufsize[cache])'
    <3>1. cache # NULL => slots'[cache] = slots[cache] /\ cache' = cache /\ bufsize'[cache] = bufsize[cache]
      BY <1>4
    <3>2. cache # NULL => Distinct(cache, 1..bufsize[cache])
      BY DEF SlotInv, IInv
    <3>3. QED
      BY <3>1, <3>2 DEF Distinct
  <2>2. busy => Distinct(request, 1..bufsize[request])'
    <3>1. busy => slots'[request] = slots[request] /\ request' = request /\ bufsize'[request] = bufsize[request]
      BY <1>4
    <3>2. busy => Distinct(request, 1..bufsize[request])
      BY DEF SlotInv, IInv
    <3>3. QED
      BY <3>1, <3>2 DEF Distinct
  <2>3. Distinct(loopbuf[0], 1..bufsize[loopbuf[0]])'
    <3>1. slots'[loopbuf[0]] = slots[loopbuf[0]] /\ loopbuf' = loopbuf
          /\ bufsize'[loopbuf[0]] = bufsize[loopbuf[0]]
      BY <1>3
    <3>2. Distinct(loopbuf[0], 1..bufsize[loopbuf[0]])
      BY <1>2 DEF SlotInv, IInv
    <3>3. QED
      BY <3>1, <3>2 DEF Distinct
  <2>4. \A u \in Threads : pc'[u] # "copy"
    BY <1>1
  <2>5. QED
    BY <1>3, <2>1, <2>2, <2>3, <2>4 DEF SlotInv
<1>11. ASSUME NEW u \in Threads PROVE ThreadInv(u)'
  <2>1. ThreadInv(u) /\ pc'[u] \in {"lclaim", "lcopy", "loop2"}
    BY <1>1 DEF IInv
  <2>2. QED
    BY <2>1 DEF ThreadInv
<1>12. ASSUME NEW u \in Updates PROVE Accounted(u)'
  <2>1. ~InOut(u) /\ ~InOut(u)'
    BY <1>3 DEF InOut
  <2>2. InCache(u)' <=> InCache(u)
    BY <1>4 DEF InCache, InBuffer
  <2>3. InRequest(u)' <=> InRequest(u)
    BY <1>4 DEF InRequest, InBuffer, Dest
  <2>4. InLoop(u)' <=> InLoop(u)
    BY <1>3 DEF InLoop, InBuffer, Dest
  <2>5. Taken(u)' <=> Taken(u)
    BY DEF Taken
  <2>6. QED
    BY <2>1, <2>2, <2>3, <2>4, <2>5 DEF Accounted, One, IInv
<1>13. /\ ToLoop' = ToLoop
       /\ \A u \in Threads : /\ Slice(loopbuf[0], u)' = Slice(loopbuf[0], u)
                             /\ Size(u)' = Size(u) /\ Substream(u)' = Substream(u)
  <2>1. slots'[loopbuf[0]] = slots[loopbuf[0]] /\ bufsize'[loopbuf[0]] = bufsize[loopbuf[0]]
    BY <1>3
  <2>2. ToLoop' = ToLoop /\ \A u \in Threads : Slice(loopbuf[0], u)' = Slice(loopbuf[0], u)
    BY <2>1 DEF ToLoop, Slice, Dest
  <2>3. ASSUME NEW u \in Threads
        PROVE  Size(u)' = Size(u) /\ Substream(u)' = Substream(u)
    <3>1. loopbuf[u] = loopbuf[0] /\ loopbuf'[u] = loopbuf[u]
      BY <1>3
    <3>2. slots'[loopbuf[u]] = slots[loopbuf[u]] /\ Slice(loopbuf[u], u)' = Slice(loopbuf[u], u)
      BY <2>1, <2>2, <3>1
    <3>3. ToCurrent(u)' = ToCurrent(u)
      BY <3>1, <3>2 DEF ToCurrent, Dest
    <3>4. QED
      BY <3>1, <3>2, <3>3 DEF Size, Substream
  <2>4. QED
    BY <2>2, <2>3
<1>14. QED
  BY <1>3, <1>5, <1>6, <1>7, <1>8, <1>9, <1>10, <1>11, <1>12, <1>13 DEF IInv

\* The atomic addition to bufsize reserves room for a processor's substream.
LEMMA LoopClaimIInv ==
  ASSUME IInv, NEW t \in Threads, LoopClaim(t)
  PROVE  IInv'
<1> USE Basics
<1> DEFINE B == loopbuf[0]
           n == bufsize[out]
<1>1. pc[t] = "lclaim" /\ Copying
  BY WhichPhase DEF IInv, LoopClaim, At
<1>2. pc[0] \in LoopPcs \ {"getloop", "loop1", "release"}
  BY <1>1 DEF Copying, Lock, LoopPcs
<1>3. /\ offset' = [offset EXCEPT ![t] = n]
      /\ bufsize' = [bufsize EXCEPT ![out] = @ + Size(t)]
      /\ pc' = [pc EXCEPT ![t] = "lcopy"]
      /\ UNCHANGED <<superPartitions, loopback, total, emitted, outbuf, space, caller, empty,
                     loopbuf, out, slots, indexed, refcount, skip, partq, request, cache, busy,
                     onDisk, written, applied, fatal>>
  BY DEF LoopClaim, Goto, Size, workItem, diskVars
<1>4. out \in Buffers /\ n \in 0..Cap
  BY <1>2 DEF IInv, Types, TypeOK, LoopBufInv, LoopPcs
<1>5. /\ B \in Buffers /\ bufsize[B] \in 0..Cap /\ ToLoop \subseteq 1..bufsize[B] /\ IsFiniteSet(ToLoop)
      /\ \A u \in Threads : /\ ToCurrent(u) = ToLoop \cap Slice(B, u)
                            /\ IsFiniteSet(ToCurrent(u)) /\ Size(u) \in Nat
  BY <1>2, LoopSets
<1>6. /\ n = Cardinality(Looped)
      /\ \A u \in Claimed : offset[u] + Size(u) <= n
      /\ \A u, v \in Claimed : u # v => offset[u] + Size(u) <= offset[v] \/ offset[v] + Size(v) <= offset[u]
      /\ \A i \in 1..n : \E u \in Claimed : i \in offset[u] + 1..offset[u] + Size(u)
      /\ \A u \in Claimed : pc[u] # "lcopy" =>
             \A k \in 1..Size(u) : slots[out][offset[u] + k] = Substream(u)[k]
  BY <1>2 DEF IInv, LoopInv
<1> HIDE DEF B
<1>7. Looped \cup ToCurrent(t) \subseteq 1..bufsize[B] /\ Looped \cap ToCurrent(t) = {} /\ IsFiniteSet(Looped)
  <2>1. \A u \in Claimed : u \in Threads /\ u # t
    BY <1>1 DEF Claimed
  <2>2. \A u \in Claimed : Slice(B, u) \cap Slice(B, t) = {}
    <3>1. bufsize[B] \in Nat
      BY <1>5
    <3>2. QED
      BY <1>5, <2>1, <3>1, Slices
  <2>3. Looped \cap ToCurrent(t) = {}
    BY <1>5, <2>2 DEF Looped, B
  <2>4. Looped \subseteq ToLoop
    BY DEF Looped
  <2>5. IsFiniteSet(Looped)
    BY <1>5, <2>4, FS_Subset
  <2>6. QED
    BY <1>5, <2>3, <2>4, <2>5
<1>8. Cardinality(Looped \cup ToCurrent(t)) = n + Size(t) /\ n + Size(t) \in 0..Cap
  <2>1. Looped \cap ToCurrent(t) = {} /\ IsFiniteSet(Looped) /\ IsFiniteSet(ToCurrent(t))
    BY <1>5, <1>7
  <2>2. Cardinality(Looped \cup ToCurrent(t))
          = Cardinality(Looped) + Cardinality(ToCurrent(t)) - Cardinality(Looped \cap ToCurrent(t))
    BY <2>1, FS_Union
  <2>3. Cardinality(Looped \cap ToCurrent(t)) = 0
    BY <2>1, FS_EmptySet
  <2>4. Cardinality(Looped \cup ToCurrent(t)) = n + Size(t)
    BY <1>4, <1>5, <1>6, <2>2, <2>3 DEF Size
  <2>5. bufsize[B] \in Nat /\ bufsize[B] <= Cap
    BY <1>5
  <2>6. Cardinality(Looped \cup ToCurrent(t)) <= bufsize[B]
    BY <1>7, <2>5, InRange
  <2>7. QED
    BY <1>4, <1>5, <2>4, <2>5, <2>6
<1>9. /\ offset'[t] = n /\ bufsize'[out] = n + Size(t) /\ pc'[t] = "lcopy"
      /\ \A u \in Threads \ {t} : offset'[u] = offset[u] /\ pc'[u] = pc[u]
      /\ \A b \in Buffers \ {out} : bufsize'[b] = bufsize[b]
  BY <1>3, <1>4 DEF IInv, Types, TypeOK
<1>10. /\ offset' \in [Threads -> 0..Cap] /\ bufsize' \in [Buffers -> 0..Cap]
       /\ slots' \in [Buffers -> [1..Cap -> Updates \cup {NULL}]]
       /\ \A u \in Threads : offset[u] \in Nat
  <2>1. /\ offset \in [Threads -> 0..Cap] /\ bufsize \in [Buffers -> 0..Cap]
        /\ slots \in [Buffers -> [1..Cap -> Updates \cup {NULL}]]
    BY DEF IInv, Types, TypeOK
  <2>2. bufsize[out] + Size(t) \in 0..Cap
    BY <1>8
  <2>3. bufsize' \in [Buffers -> 0..Cap]
    BY <1>3, <2>1, <2>2
  <2>4. offset' \in [Threads -> 0..Cap] /\ \A u \in Threads : offset[u] \in Nat
    BY <1>3, <1>4, <2>1
  <2>5. QED
    BY <1>3, <2>1, <2>3, <2>4
<1>11. /\ LoopInv' => IInv'
       /\ ToLoop' = ToLoop
       /\ \A u \in Threads : /\ Slice(B, u)' = Slice(B, u)
                             /\ Size(u)' = Size(u) /\ Substream(u)' = Substream(u)
  <2>1. \A b \in Buffers \ {out} : slots'[b] = slots[b] /\ bufsize'[b] = bufsize[b]
    BY <1>3, <1>9
  <2>2. pc' = [pc EXCEPT ![t] = "lcopy"]
        /\ UNCHANGED <<superPartitions, loopback, total, emitted, outbuf, space, caller, empty,
                       loopbuf, out, indexed, refcount, skip, partq, request, cache, busy, onDisk,
                       written, applied, fatal>>
    BY <1>3
  <2>3. /\ LoopInv' => IInv'
        /\ ToLoop' = ToLoop
        /\ \A u \in Threads : /\ Slice(loopbuf[0], u)' = Slice(loopbuf[0], u)
                              /\ Size(u)' = Size(u) /\ Substream(u)' = Substream(u)
    BY <1>1, <1>10, <2>1, <2>2, LoopFrame
  <2>4. B' = B
    BY <2>2 DEF B
  <2>5. QED
    BY <2>3 DEF B
<1>12. LoopInv'
  <2>1. Claimed' = Claimed \cup {t} /\ t \notin Claimed /\ Claimed \subseteq Threads
    BY <1>1, <1>9 DEF Claimed
  <2>2. Looped' = Looped \cup ToCurrent(t)
    BY <1>3, <1>5, <1>11, <2>1 DEF Looped, B
  <2>3. ASSUME NEW u \in Claimed \cup {t} PROVE offset'[u] + Size(u) <= bufsize'[out]
    <3>1. CASE u = t
      BY <1>4, <1>5, <1>9, <3>1
    <3>2. CASE u # t
      <4>1. offset[u] + Size(u) <= n /\ offset'[u] = offset[u]
        BY <1>6, <1>9, <2>1, <2>3, <3>2
      <4>2. offset[u] \in Nat /\ Size(u) \in Nat /\ Size(t) \in Nat /\ n \in Nat
        BY <1>4, <1>5, <1>10, <2>1, <2>3
      <4>3. QED
        BY <1>9, <4>1, <4>2
    <3>3. QED
      BY <3>1, <3>2
  <2>4. ASSUME NEW u \in Claimed \cup {t}, NEW v \in Claimed \cup {t}, u # v
        PROVE  offset'[u] + Size(u) <= offset'[v] \/ offset'[v] + Size(v) <= offset'[u]
    <3>1. CASE u = t
      BY <1>6, <1>9, <2>1, <2>4, <3>1
    <3>2. CASE v = t
      BY <1>6, <1>9, <2>1, <2>4, <3>2
    <3>3. CASE u # t /\ v # t
      BY <1>6, <1>9, <2>1, <2>4, <3>3
    <3>4. QED
      BY <3>1, <3>2, <3>3
  <2>5. ASSUME NEW i \in 1..n + Size(t)
        PROVE  \E u \in Claimed \cup {t} : i \in offset'[u] + 1..offset'[u] + Size(u)
    <3>1. CASE i <= n
      <4>1. PICK u \in Claimed : i \in offset[u] + 1..offset[u] + Size(u)
        BY <1>4, <1>5, <1>6, <2>5, <3>1
      <4>2. QED
        BY <1>9, <2>1, <4>1
    <3>2. CASE i > n
      BY <1>4, <1>5, <1>9, <2>5, <3>2
    <3>3. QED
      BY <1>4, <1>5, <3>1, <3>2
  <2>6. ASSUME NEW u \in Claimed \cup {t}, pc'[u] # "lcopy", NEW k \in 1..Size(u)
        PROVE  slots'[out][offset'[u] + k] = Substream(u)[k]
    BY <1>3, <1>6, <1>9, <2>1, <2>6
  <2>7. pc'[0] \notin {"lsteady", "loop3", "loop4"} /\ out' = out /\ loopbuf' = loopbuf
    BY <1>1, <1>3, <1>9 DEF Copying, Lock
  <2> HIDE DEF n
  <2>8. QED
    BY <1>8, <1>9, <1>11, <2>1, <2>2, <2>3, <2>4, <2>5, <2>6, <2>7 DEF LoopInv, B
<1>13. QED
  BY <1>11, <1>12

\* The loopback's memcpy fills that room.
LEMMA LoopCopyIInv ==
  ASSUME IInv, NEW t \in Threads, LoopCopy(t)
  PROVE  IInv'
<1> USE Basics
<1> DEFINE B == loopbuf[0]
           n == bufsize[out]
<1>1. pc[t] = "lcopy" /\ Copying
  BY WhichPhase DEF IInv, LoopCopy, At
<1>2. pc[0] \in LoopPcs \ {"getloop", "loop1", "release"}
  BY <1>1 DEF Copying, Lock, LoopPcs
<1>3. /\ slots' = Filled(out, offset[t], Substream(t))
      /\ pc' = [pc EXCEPT ![t] = "loop2"]
      /\ UNCHANGED <<superPartitions, loopback, total, emitted, outbuf, offset, space, caller,
                     empty, loopbuf, out, bufsize, indexed, refcount, skip, partq, request, cache,
                     busy, onDisk, written, applied, fatal>>
  BY DEF LoopCopy, Goto, threadVars, workItem, diskVars
<1>4. /\ out \in Buffers /\ n \in 0..Cap /\ \A u \in Threads : offset[u] \in Nat /\ Size(u) \in Nat
      /\ offset[t] \in Nat /\ slots \in [Buffers -> [1..Cap -> Updates \cup {NULL}]]
  <2>1. out \in Buffers /\ n \in 0..Cap
    BY <1>2 DEF IInv, Types, TypeOK, LoopBufInv, LoopPcs
  <2>2. \A u \in Threads : offset[u] \in Nat
    BY DEF IInv, Types, TypeOK
  <2>3. \A u \in Threads : Size(u) \in Nat
    BY <1>2, LoopSets
  <2>4. slots \in [Buffers -> [1..Cap -> Updates \cup {NULL}]]
    BY DEF IInv, Types
  <2>5. QED
    BY <2>1, <2>2, <2>3, <2>4
<1>5. Substream(t) \in Seq(Updates) /\ Len(Substream(t)) = Size(t)
  BY <1>2, Substreams
<1>6. /\ slots' \in [Buffers -> [1..Cap -> Updates \cup {NULL}]]
      /\ \A b \in Buffers \ {out} : slots'[b] = slots[b]
      /\ \A i \in 1..Cap : slots'[out][i] = IF i - offset[t] \in 1..Size(t)
                                            THEN Substream(t)[i - offset[t]] ELSE slots[out][i]
  <2>1. slots' = Filled(out, offset[t], Substream(t))
    BY <1>3
  <2>2. offset[t] \in Nat /\ slots \in [Buffers -> [1..Cap -> Updates \cup {NULL}]] /\ out \in Buffers
    BY <1>4
  <2>3. Substream(t) \in Seq(Updates)
    BY <1>5
  <2>4. /\ slots' \in [Buffers -> [1..Cap -> Updates \cup {NULL}]]
        /\ \A b \in Buffers \ {out} : slots'[b] = slots[b]
        /\ \A i \in 1..Cap : slots'[out][i] = IF i - offset[t] \in 1..Len(Substream(t))
                                              THEN Substream(t)[i - offset[t]] ELSE slots[out][i]
    BY <2>1, <2>2, <2>3, FilledSlots, SMTT(20)
  <2>5. QED
    BY <1>5, <2>4
<1>7. /\ LoopInv' => IInv'
      /\ ToLoop' = ToLoop
      /\ \A u \in Threads : /\ Slice(B, u)' = Slice(B, u)
                            /\ Size(u)' = Size(u) /\ Substream(u)' = Substream(u)
  <2>1. offset' \in [Threads -> 0..Cap] /\ bufsize' \in [Buffers -> 0..Cap]
    BY <1>3 DEF IInv, Types, TypeOK
  <2>2. QED
    BY <1>1, <1>3, <1>6, <2>1, LoopFrame
<1>8. /\ n = Cardinality(Looped)
      /\ \A u \in Claimed : offset[u] + Size(u) <= n
      /\ \A u, v \in Claimed : u # v => offset[u] + Size(u) <= offset[v] \/ offset[v] + Size(v) <= offset[u]
      /\ \A i \in 1..n : \E u \in Claimed : i \in offset[u] + 1..offset[u] + Size(u)
      /\ \A u \in Claimed : pc[u] # "lcopy" =>
             \A k \in 1..Size(u) : slots[out][offset[u] + k] = Substream(u)[k]
  BY <1>2 DEF IInv, LoopInv
<1>9. pc'[t] = "loop2" /\ \A u \in Threads \ {t} : pc'[u] = pc[u]
  BY <1>3 DEF IInv, Types
<1>10. Claimed' = Claimed /\ t \in Claimed /\ Claimed \subseteq Threads
  BY <1>1, <1>9 DEF Claimed
<1> HIDE DEF B, n
<1>11. ASSUME NEW u \in Claimed, pc'[u] # "lcopy", NEW k \in 1..Size(u)
       PROVE  slots'[out][offset[u] + k] = Substream(u)[k]
  <2>1. offset[u] + k \in 1..Cap /\ offset[u] \in Nat /\ Size(u) \in Nat /\ k \in Nat
        /\ k >= 1 /\ k <= Size(u)
    <3>1. offset[u] \in Nat /\ Size(u) \in Nat /\ n \in 0..Cap
      BY <1>4, <1>10
    <3>2. offset[u] + Size(u) <= n
      BY <1>8
    <3>3. QED
      BY <3>1, <3>2
  <2>2. CASE u = t
    <3>1. (offset[t] + k) - offset[t] = k
      BY <1>4, <2>1
    <3>2. QED
      BY <1>6, <2>1, <2>2, <3>1
  <2>3. CASE u # t
    <3>1. slots[out][offset[u] + k] = Substream(u)[k]
      BY <1>8, <1>9, <1>10, <1>11, <2>3
    <3>2. offset[u] + Size(u) <= offset[t] \/ offset[t] + Size(t) <= offset[u]
      BY <1>8, <1>10, <2>3
    <3>3. (offset[u] + k) - offset[t] \notin 1..Size(t)
      <4>1. offset[t] \in Nat /\ Size(t) \in Nat
        BY <1>4
      <4>2. QED
        BY <2>1, <3>2, <4>1
    <3>4. QED
      BY <1>6, <2>1, <3>1, <3>3
  <2>4. QED
    BY <2>2, <2>3
<1>12. LoopInv'
  <2>1. pc'[0] \notin {"lsteady", "loop3", "loop4"} /\ out' = out /\ loopbuf' = loopbuf
        /\ offset' = offset /\ bufsize' = bufsize
    BY <1>1, <1>3, <1>9 DEF Copying, Lock
  <2>2. Looped' = Looped
    BY <1>3, <1>7, <1>10 DEF Looped, B
  <2>3. QED
    BY <1>7, <1>8, <1>10, <1>11, <2>1, <2>2 DEF LoopInv, n
<1>13. QED
  BY <1>7, <1>12

\* When all processors have copied, the target has each update for the current
\* super partition once, and no other.
LEMMA LoopedBack ==
  ASSUME IInv, pc[0] \in LoopPcs \ {"getloop", "loop1", "release"},
         \A t \in Threads : pc[t] \notin {"lclaim", "lcopy"}
  PROVE  /\ out # NULL /\ bufsize[out] \in 0..Cap /\ Distinct(out, 1..bufsize[out])
         /\ \A u \in Updates : (\E i \in 1..bufsize[out] : slots[out][i] = u)
                               <=> InBuffer(loopbuf[0], u) /\ Dest(u) = Superp
<1> USE Basics
<1> DEFINE B == loopbuf[0]
           n == bufsize[out]
           m == bufsize[B]
<1>1. /\ out # NULL /\ n \in 0..Cap /\ \A t \in Threads : offset[t] \in Nat
  BY DEF IInv, Types, TypeOK, LoopBufInv, LoopPcs
<1>2. /\ B \in Buffers /\ m \in 0..Cap /\ Distinct(B, 1..m)
      /\ \A t \in Threads : /\ ToCurrent(t) = ToLoop \cap Slice(B, t)
                            /\ Size(t) \in Nat
  BY LoopSets
<1>3. /\ \A t \in Threads : offset[t] + Size(t) <= n
      /\ \A i \in 1..n : \E t \in Threads : i \in offset[t] + 1..offset[t] + Size(t)
      /\ \A t \in Threads : \A k \in 1..Size(t) : slots[out][offset[t] + k] = Substream(t)[k]
  BY DEF IInv, LoopInv, Claimed
<1>4. \A t \in Threads :
         /\ \A k \in 1..Size(t) : \E p \in ToCurrent(t) : Substream(t)[k] = slots[B][p]
         /\ \A p \in ToCurrent(t) : \E k \in 1..Size(t) : Substream(t)[k] = slots[B][p]
         /\ \A j, k \in 1..Size(t) : Substream(t)[j] = Substream(t)[k] => j = k
  BY Substreams
<1>5. /\ \A t \in Threads : Slice(B, t) \subseteq 1..m
      /\ \A t, u \in Threads : t # u => Slice(B, t) \cap Slice(B, u) = {}
      /\ \A i \in 1..m : \E t \in Threads : i \in Slice(B, t)
  <2>1. bufsize[B] \in Nat
    BY <1>2
  <2>2. QED
    BY <1>2, <2>1, Slices
<1>6. \A p \in ToLoop : p \in 1..m /\ Dest(slots[B][p]) = Superp
  BY DEF ToLoop
<1>7. \A p \in 1..m : Dest(slots[B][p]) = Superp => p \in ToLoop
  BY DEF ToLoop
<1> HIDE DEF B, n, m
<1>8. ASSUME NEW i \in 1..n
      PROVE  \E t \in Threads : \E k \in 1..Size(t), p \in ToCurrent(t) :
                i = offset[t] + k /\ slots[out][i] = Substream(t)[k] /\ Substream(t)[k] = slots[B][p]
  <2>1. PICK t \in Threads : i \in offset[t] + 1..offset[t] + Size(t)
    BY <1>3
  <2>2. offset[t] \in Nat /\ Size(t) \in Nat /\ i \in Nat
    BY <1>1, <1>2
  <2>3. i - offset[t] \in 1..Size(t) /\ i = offset[t] + (i - offset[t])
    BY <2>1, <2>2
  <2>4. PICK k \in 1..Size(t) : i = offset[t] + k
    BY <2>3
  <2>5. slots[out][i] = Substream(t)[k]
    BY <1>3, <2>4
  <2>6. PICK p \in ToCurrent(t) : Substream(t)[k] = slots[B][p]
    BY <1>4
  <2>7. QED
    BY <2>4, <2>5, <2>6
<1>9. ASSUME NEW i \in 1..n, NEW j \in 1..n
      PROVE  slots[out][i] \in Updates /\ (slots[out][i] = slots[out][j] => i = j)
  <2>1. PICK t \in Threads : \E k \in 1..Size(t), p \in ToCurrent(t) :
          i = offset[t] + k /\ slots[out][i] = Substream(t)[k] /\ Substream(t)[k] = slots[B][p]
    BY <1>8
  <2>8. PICK k \in 1..Size(t), p \in ToCurrent(t) :
          i = offset[t] + k /\ slots[out][i] = Substream(t)[k] /\ Substream(t)[k] = slots[B][p]
    BY <2>1
  <2>2. PICK v \in Threads : \E l \in 1..Size(v), q \in ToCurrent(v) :
          j = offset[v] + l /\ slots[out][j] = Substream(v)[l] /\ Substream(v)[l] = slots[B][q]
    BY <1>8
  <2>9. PICK l \in 1..Size(v), q \in ToCurrent(v) :
          j = offset[v] + l /\ slots[out][j] = Substream(v)[l] /\ Substream(v)[l] = slots[B][q]
    BY <2>2
  <2>3. p \in 1..m /\ q \in 1..m /\ p \in Slice(B, t) /\ q \in Slice(B, v)
    BY <1>2, <1>6
  <2>4. slots[out][i] \in Updates
    BY <1>2, <2>8, <2>3 DEF Distinct
  <2>5. ASSUME slots[out][i] = slots[out][j] PROVE i = j
    <3>1. p = q
      BY <1>2, <2>8, <2>9, <2>3, <2>5 DEF Distinct
    <3>2. t = v
      BY <1>5, <2>3, <3>1
    <3>3. k = l
      <4>1. l \in 1..Size(t) /\ Substream(t)[k] = Substream(t)[l]
        BY <2>8, <2>9, <2>5, <3>2
      <4>2. QED
        BY <1>4, <4>1
    <3>4. QED
      BY <2>8, <2>9, <3>2, <3>3
  <2>6. QED
    BY <2>4, <2>5
<1>10. ASSUME NEW u \in Updates, NEW i \in 1..n, slots[out][i] = u
       PROVE  InBuffer(B, u) /\ Dest(u) = Superp
  <2>1. PICK t \in Threads : \E k \in 1..Size(t), p \in ToCurrent(t) :
          i = offset[t] + k /\ slots[out][i] = Substream(t)[k] /\ Substream(t)[k] = slots[B][p]
    BY <1>8
  <2>8. PICK k \in 1..Size(t), p \in ToCurrent(t) :
          i = offset[t] + k /\ slots[out][i] = Substream(t)[k] /\ Substream(t)[k] = slots[B][p]
    BY <2>1
  <2>2. p \in 1..m /\ slots[B][p] = u /\ Dest(slots[B][p]) = Superp
    BY <1>2, <1>6, <1>10, <2>8
  <2>3. QED
    BY <1>2, <2>2 DEF InBuffer, m
<1>11. ASSUME NEW u \in Updates, InBuffer(B, u), Dest(u) = Superp
       PROVE  \E i \in 1..n : slots[out][i] = u
  <2>1. PICK p \in 1..m : slots[B][p] = u
    BY <1>11 DEF InBuffer, m
  <2>2. p \in ToLoop
    BY <1>7, <1>11, <2>1
  <2>3. PICK t \in Threads : p \in ToCurrent(t)
    BY <1>2, <1>5, <2>1, <2>2
  <2>4. PICK k \in 1..Size(t) : Substream(t)[k] = slots[B][p]
    BY <1>4, <2>3
  <2>5. slots[out][offset[t] + k] = u
    BY <1>3, <2>1, <2>4
  <2>6. offset[t] + k \in 1..n
    <3>1. offset[t] \in Nat /\ Size(t) \in Nat /\ offset[t] + Size(t) <= n /\ n \in Nat
      BY <1>1, <1>2, <1>3
    <3>2. QED
      BY <3>1
  <2>7. QED
    BY <2>5, <2>6
<1>12. QED
  BY <1>1, <1>9, <1>10, <1>11 DEF Distinct, B, n

\* The drain of the loopback's queue keeps the invariant: the updates are applied once.
LEMMA DrainIInv ==
  ASSUME IInv, NEW t \in Threads, Drain(t)
  PROVE  IInv'
<1> USE Basics
<1>1. pc[t] = "drain" /\ Draining
  BY WhichPhase DEF IInv, Drain, At
<1>2. /\ \A u \in Threads : pc[u] \in {"drain", "loop5"} /\ (pc[u] = "loop5" => ~partq)
      /\ pc[0] \in LoopPcs \ {"getloop", "loop1", "release"} /\ loopback
      /\ \A u \in Threads : ~empty[u]
  BY <1>1 DEF Draining, Lock, LoopPcs
<1>3. UNCHANGED <<superPartitions, loopback, total, emitted, outbuf, offset, space, caller, empty,
                  loopbuf, out, bufsize, slots, indexed, refcount, skip, request, cache, busy,
                  onDisk, written, fatal>>
  BY DEF Drain, threadVars, workItem, diskVars
<1>4. PICK l \in {"drain", "loop5"} :
        /\ pc' = [pc EXCEPT ![t] = l] /\ partq' = FALSE
        /\ IF partq
           THEN /\ l = "drain"
                /\ applied' = [u \in Updates |-> applied[u]
                                 + Cardinality({i \in 1..bufsize[out] : slots[out][i] = u})]
           ELSE l = "loop5" /\ applied' = applied
  <2>1. CASE partq
    <3>1. pc' = [pc EXCEPT ![t] = "drain"]
      BY <1>1, <2>1 DEF Drain, IInv, Types
    <3>2. QED
      BY <2>1, <3>1 DEF Drain
  <2>2. CASE ~partq
    <3>1. pc' = [pc EXCEPT ![t] = "loop5"] /\ partq' = partq /\ applied' = applied
      BY <2>2 DEF Drain, Goto
    <3>2. partq' = FALSE
      BY <2>2, <3>1 DEF IInv, Types
    <3>3. QED
      BY <2>2, <3>1, <3>2
  <2>3. QED
    BY <2>1, <2>2
<1>5. /\ \A u \in Threads : pc'[u] = IF u = t THEN l ELSE pc[u]
      /\ \A u \in Threads : pc'[u] \in {"drain", "loop5"}
      /\ pc'[0] \in LoopPcs
  BY <1>2, <1>4 DEF IInv, Types, LoopPcs
<1>6. NotApplied <=> partq
  BY <1>2 DEF NotApplied, LoopPcs
<1>7. ~NotApplied'
  BY <1>4, <1>5 DEF NotApplied, LoopPcs
<1>8. /\ out # NULL /\ bufsize[out] \in Nat /\ Distinct(out, 1..bufsize[out])
      /\ \A u \in Updates : (\E i \in 1..bufsize[out] : slots[out][i] = u)
                               <=> InBuffer(loopbuf[0], u) /\ Dest(u) = Superp
  <2>1. \A u \in Threads : pc[u] \notin {"lclaim", "lcopy"}
    BY <1>2
  <2>2. QED
    BY <1>2, <2>1, LoopedBack
<1>9. ASSUME NEW u \in Updates PROVE applied'[u] = applied[u] + One(InLoop(u))
  <2>1. applied[u] \in Nat
    BY DEF IInv, Types
  <2>2. CASE partq
    <3>1. applied'[u] = applied[u] + Cardinality({i \in 1..bufsize[out] : slots[out][i] = u})
      BY <1>4, <2>2
    <3>2. Cardinality({i \in 1..bufsize[out] : slots[out][i] = u})
          = IF \E i \in 1..bufsize[out] : slots[out][i] = u THEN 1 ELSE 0
      <4>1. bufsize[out] \in Nat /\ Distinct(out, 1..bufsize[out])
        BY <1>8
      <4>2. QED
        BY <4>1, OneAt
    <3>3. InLoop(u) <=> \E i \in 1..bufsize[out] : slots[out][i] = u
      BY <1>6, <1>8, <2>2 DEF InLoop
    <3>4. QED
      BY <3>1, <3>2, <3>3 DEF One
  <2>3. CASE ~partq
    <3>1. ~InLoop(u)
      BY <1>6, <2>3 DEF InLoop
    <3>2. QED
      BY <1>4, <2>1, <2>3, <3>1 DEF One
  <2>4. QED
    BY <2>2, <2>3
<1>10. Types'
  <2>1. pc' \in [Threads -> Pcs]
    BY <1>4 DEF IInv, Types, Pcs, LoopPcs
  <2>2. applied' \in [Updates -> Nat]
    <3>1. \A u \in Updates : applied'[u] \in Nat
      <4>1. \A u \in Updates : applied[u] \in Nat /\ One(InLoop(u)) \in Nat
        BY DEF IInv, Types, One
      <4>2. QED
        BY <1>9, <4>1
    <3>2. QED
      BY <1>4, <3>1 DEF IInv, Types
  <2>3. QED
    BY <1>3, <1>4, <2>1, <2>2 DEF IInv, Types, TypeOK
<1>11. Phase'
  <2>1. Draining'
    BY <1>2, <1>3, <1>4, <1>5 DEF Draining, Lock
  <2>2. QED
    BY <2>1 DEF Phase
<1>12. LoopBufInv'
  <2>1. pc[0] \notin {"out", "append", "getloop", "getout", "loop1", "ret"}
        /\ pc'[0] \notin {"out", "append", "getloop", "getout", "loop1", "ret"}
    BY <1>2, <1>5
  <2>2. \A u \in Threads : pc'[u] \notin {"flush", "test", "split", "switch", "index", "steady"}
    BY <1>5
  <2>3. QED
    BY <1>2, <1>3, <1>5, <1>8, <2>1, <2>2 DEF LoopBufInv, IInv
<1>13. RefInv'
  <2>1. /\ (OutHeld' <=> OutHeld) /\ (LoopHeld' <=> LoopHeld)
    BY <1>2, <1>3, <1>5 DEF OutHeld, LoopHeld
  <2>2. pc'[0] \notin FreshPcs
    BY <1>5 DEF FreshPcs, FillPcs
  <2>3. QED
    BY <1>3, <2>1, <2>2 DEF RefInv, IInv, One
<1>14. RequestInv'
  <2>1. pc[0] # "append" /\ pc'[0] # "append"
    BY <1>2, <1>5
  <2>2. QED
    BY <1>3, <2>1 DEF RequestInv, IInv
<1>15. ~OutLive /\ ~OutLive'
  BY <1>2, <1>5 DEF OutLive
<1>16. SlotInv'
  <2>1. \A u \in Threads : pc'[u] # "copy"
    BY <1>5
  <2>2. QED
    BY <1>2, <1>3, <1>15, <2>1, SameSlots DEF IInv
<1>17. LoopInv'
  <2>1. \A u \in Threads : pc[u] \notin {"lclaim", "lcopy"} /\ pc'[u] \notin {"lclaim", "lcopy"}
    BY <1>2, <1>5
  <2>2. pc'[0] \notin {"lsteady", "loop3", "loop4"}
    BY <1>5
  <2>3. QED
    BY <1>2, <1>3, <2>1, <2>2, SameLoop DEF IInv
<1>18. ASSUME NEW u \in Threads PROVE ThreadInv(u)'
  <2>1. ThreadInv(u) /\ pc'[u] \in {"drain", "loop5"}
    BY <1>5 DEF IInv
  <2>2. QED
    BY <1>3, <2>1 DEF ThreadInv
<1>19. ASSUME NEW u \in Updates PROVE Accounted(u)'
  <2>1. ~InOut(u) /\ ~InOut(u)' /\ ~InLoop(u)'
    BY <1>7, <1>15 DEF InOut, InLoop
  <2>2. (InCache(u)' <=> InCache(u)) /\ (InRequest(u)' <=> InRequest(u)) /\ (Taken(u)' <=> Taken(u))
    BY <1>3 DEF InCache, InRequest, InBuffer, Dest, Taken
  <2>3. written[u] \in Nat /\ applied[u] \in Nat
    BY DEF IInv, Types
  <2>4. QED
    BY <1>3, <1>9, <2>1, <2>2, <2>3 DEF Accounted, One, IInv
<1>20. QED
  BY <1>10, <1>11, <1>12, <1>13, <1>14, <1>16, <1>17, <1>18, <1>19 DEF IInv

-----------------------------------------------------------------------------
(* Barriers *)

\* No thread is at a barrier that another takes for a later one.
LEMMA Matching ==
  ASSUME IInv
  PROVE  BarriersMatch
<1> SUFFICES ASSUME NEW t \in Threads, NEW u \in Threads, pc[t] \in Sites, pc[u] \in Sites
             PROVE  pc[t] = pc[u]
  BY DEF BarriersMatch
<1> USE DEF Sites, Lock
<1>1. CASE Filling
  BY <1>1 DEF Filling, FillPcs
<1>2. CASE Testing
  <2>1. bufsize[out] \in Nat
    BY <1>2 DEF Testing, IInv, Types, TypeOK
  <2>2. QED
    BY <1>2, <2>1 DEF Testing
<1>3. CASE Indexing
  BY <1>3 DEF Indexing
<1>4. CASE Handing
  BY <1>4 DEF Handing
<1>5. CASE Copying
  BY <1>5 DEF Copying
<1>6. CASE Sorting
  BY <1>6 DEF Sorting
<1>7. CASE Draining
  BY <1>7 DEF Draining
<1>8. CASE Returning
  BY <1>8 DEF Returning
<1>9. CASE Leaving
  BY <1>9 DEF Leaving
<1>10. CASE NoOutput
  BY <1>10 DEF NoOutput
<1>11. CASE Closing
  BY <1>11 DEF Closing
<1>12. QED
  BY <1>1, <1>2, <1>3, <1>4, <1>5, <1>6, <1>7, <1>8, <1>9, <1>10, <1>11 DEF IInv, Phase

\* Opening a barrier keeps the invariant: it leads from one phase to the next.
LEMMA BarrierOpensIInv ==
  ASSUME IInv, BarrierOpens
  PROVE  IInv'
<1> USE Basics
<1> DEFINE s == pc[0]
<1>1. /\ s \in Sites \ {"early"} /\ \A t \in Threads : pc[t] = s /\ pc'[t] = After(t, s)
      /\ pc' \in [Threads -> Pcs]
  <2>1. \A t \in Threads : pc[t] = s /\ s \in Sites /\ s # "early"
    BY Matching, WhichPhase DEF BarrierOpens, BarriersMatch, IInv
  <2>2. pc' = [t \in Threads |-> After(t, s)]
    BY <2>1 DEF BarrierOpens
  <2>3. \A t \in Threads : After(t, s) \in Pcs
    BY <2>1 DEF After, Pcs, FillPcs, LoopPcs, Sites
  <2>4. QED
    BY <2>1, <2>2, <2>3
<1>2. UNCHANGED <<superPartitions, loopback, total, emitted, outbuf, offset, space, caller, empty,
                  loopbuf, out, bufsize, slots, indexed, refcount, skip, partq, request,
                  cache, busy, onDisk, written, applied, fatal>>
  BY DEF BarrierOpens, threadVars, workItem, bufferVars, diskVars
<1>3. /\ pc'[0] = After(0, s) /\ \A t \in Threads : pc[t] # "copy" /\ pc'[t] # "copy"
      /\ s \in LoopPcs => out # NULL
      /\ s = "loop2" => ~indexed[out]
  <2>1. \A t \in Threads : pc[t] # "copy" /\ pc'[t] # "copy"
    BY <1>1 DEF After, Sites
  <2>2. s \in LoopPcs => out # NULL
    BY <1>1 DEF IInv, LoopBufInv, Sites, LoopPcs
  <2>3. s = "loop2" => ~indexed[out]
    BY <2>2 DEF IInv, RefInv, LoopPcs, FreshPcs
  <2>4. QED
    BY <1>1, <2>1, <2>2, <2>3
<1>5. /\ (pc'[0] \in LoopPcs <=> pc[0] \in LoopPcs)
      /\ pc[0] # "append" /\ pc'[0] # "append"
      /\ (pc'[0] \in {"end", "stopped"} <=> pc[0] \in {"end", "stopped"})
      /\ pc'[0] \in FreshPcs => pc[0] \in FreshPcs
  BY <1>1, <1>3 DEF After, Sites, LoopPcs, FillPcs, FreshPcs
<1>6. /\ (OutHeld' <=> OutHeld) /\ (LoopHeld' <=> LoopHeld) /\ (OutLive' <=> OutLive)
  BY <1>2, <1>5 DEF OutHeld, LoopHeld, OutLive
<1>7. Types'
  BY <1>1, <1>2 DEF IInv, Types, TypeOK
<1>8. RefInv'
  BY <1>2, <1>5, <1>6 DEF RefInv, IInv, One
<1>9. RequestInv'
  BY <1>2, <1>5 DEF RequestInv, IInv
<1>10. Placed' = Placed
  BY <1>2, <1>3 DEF Placed, Hole
<1>11. SlotInv'
  BY <1>2, <1>3, <1>5, <1>6, <1>10, SameSlots DEF IInv
<1>12. ASSUME NEW t \in Threads PROVE ThreadInv(t)'
  <2>1. /\ ThreadInv(t) /\ pc[t] = s /\ pc'[t] = After(t, s) /\ s \in Sites
        /\ pc'[t] \notin {"emit", "reserve", "cas", "copy", "finalflush", "flush"}
        /\ pc'[t] = "test" => pc[t] = "flush"
        /\ pc'[t] \in {"final", "freeout", "end", "stopped"} => pc[t] \in {"final", "end"}
    BY <1>1 DEF IInv, After, Sites
  <2>2. QED
    BY <1>2, <2>1 DEF ThreadInv
<1>13. s # "loop4" => (NotApplied' <=> NotApplied)
  BY <1>1, <1>2, <1>3 DEF NotApplied, After, Sites, LoopPcs
<1>14. ASSUME NEW u \in Updates PROVE Accounted(u)'
  <2>1. (InOut(u)' <=> InOut(u)) /\ (Taken(u)' <=> Taken(u))
    BY <1>2, <1>6, <1>10 DEF InOut, Taken
  <2>2. CASE s # "loop4"
    BY <1>2, <1>13, <2>1, <2>2, SameAccount DEF IInv
  <2>3. CASE s = "loop4"
    <3>1. pc'[0] = "drain" /\ NotApplied /\ (NotApplied' <=> partq)
      BY <1>2, <1>3, <2>3 DEF NotApplied, After, LoopPcs
    <3>2. partq \/ ~InLoop(u)
      <4>1. /\ bufsize[out] > 0 => partq
            /\ bufsize[out] \in Nat
            /\ InBuffer(loopbuf[0], u) /\ Dest(u) = Superp => \E i \in 1..bufsize[out] : slots[out][i] = u
        <5>1. pc[0] \in LoopPcs \ {"getloop", "loop1", "release"}
          BY <2>3 DEF LoopPcs
        <5>2. \A t \in Threads : pc[t] \notin {"lclaim", "lcopy"}
          BY <1>1, <2>3
        <5>3. bufsize[out] > 0 => partq
          BY <2>3, <5>1 DEF IInv, LoopInv, Types
        <5>4. QED
          BY <5>1, <5>2, <5>3, LoopedBack
      <4>2. QED
        BY <4>1 DEF InLoop
    <3>3. InLoop(u)' <=> InLoop(u)
      BY <1>2, <3>1, <3>2 DEF InLoop, InBuffer, Dest
    <3>4. (InCache(u)' <=> InCache(u)) /\ (InRequest(u)' <=> InRequest(u))
      BY <1>2 DEF InCache, InRequest, InBuffer, Dest
    <3>5. QED
      BY <1>2, <2>1, <3>3, <3>4 DEF Accounted, One, IInv
  <2>4. QED
    BY <2>2, <2>3
<1>15. /\ s = "flush" => Filling
       /\ s \in {"split", "ret"} => Testing \/ Returning
       /\ s = "split" => Testing
       /\ s \in {"switch", "steady"} => Indexing
       /\ s = "loop1" => Handing
       /\ s = "loop2" => Copying
       /\ s \in {"lsplit", "lswitch", "lsteady", "loop3", "loop4"} => Sorting
       /\ s = "loop5" => Draining
       /\ s = "final" => Leaving \/ NoOutput
       /\ s = "end" => Closing
  BY WhichPhase DEF IInv
<1>16. /\ s = "flush" => Testing'
       /\ s = "split" => Indexing'
       /\ s = "switch" => Indexing'
       /\ s = "steady" => IF loopback THEN Handing' ELSE Returning'
       /\ s = "loop1" => Copying'
       /\ s \in {"loop2", "lsplit", "lswitch", "lsteady", "loop3"} => Sorting'
       /\ s = "loop4" => Draining'
       /\ s = "loop5" => Returning'
       /\ s = "ret" => Leaving' \/ Filling' \/ NoOutput'
       /\ s = "final" => Closing'
       /\ s = "end" => Closing'
  <2>1. CASE s = "flush"
    <3>1. Filling /\ \A t \in Threads : pc[t] = "flush" /\ pc'[t] = "test" /\ ~empty[t]
      BY <1>1, <1>15, <2>1 DEF After, Filling
    <3>2. QED
      BY <1>2, <2>1, <3>1 DEF Filling, Testing, Lock
  <2>2. CASE s = "split"
    BY <1>1, <1>2, <1>15, <2>2 DEF After, Testing, Indexing, Lock
  <2>3. CASE s = "switch"
    BY <1>1, <1>2, <1>15, <2>3 DEF After, Indexing, Lock
  <2>4. CASE s = "steady"
    BY <1>1, <1>2, <1>15, <2>4 DEF After, Indexing, Handing, Returning, Lock
  <2>5. CASE s = "loop1"
    BY <1>1, <1>2, <1>15, <2>5 DEF After, Handing, Copying, Lock
  <2>6. CASE s = "loop2"
    BY <1>1, <1>2, <1>3, <1>15, <2>6 DEF After, Copying, Sorting, Lock
  <2>7. CASE s \in {"lsplit", "lswitch", "lsteady", "loop3"}
    BY <1>1, <1>2, <1>15, <2>7 DEF After, Sorting, Lock
  <2>8. CASE s = "loop4"
    BY <1>1, <1>2, <1>15, <2>8 DEF After, Sorting, Draining, Lock
  <2>9. CASE s = "loop5"
    BY <1>1, <1>2, <1>15, <2>9 DEF After, Draining, Returning, Lock
  <2>10. CASE s = "ret"
    <3>1. \A t \in Threads : pc[t] = "ret" /\ pc'[t] = "return"
      BY <1>1, <2>10 DEF After
    <3>2. CASE Testing
      <4>1. Leaving'
        BY <1>2, <3>1, <3>2 DEF Testing, Leaving, Lock
      <4>2. QED
        BY <2>10, <4>1
    <3>3. CASE Returning /\ out # NULL
      <4>1. Filling'
        BY <1>2, <3>1, <3>3 DEF Returning, Filling, FillPcs, Lock
      <4>2. QED
        BY <2>10, <4>1
    <3>4. CASE Returning /\ out = NULL
      <4>1. NoOutput'
        BY <1>2, <3>1, <3>4 DEF NoOutput, Lock
      <4>2. QED
        BY <2>10, <4>1
    <3>5. QED
      BY <1>15, <2>10, <3>2, <3>3, <3>4
  <2>11. CASE s = "final"
    BY <1>1, <1>2, <1>15, <2>11 DEF After, Leaving, NoOutput, Closing, Lock
  <2>12. CASE s = "end"
    BY <1>1, <1>2, <1>15, <2>12 DEF After, Closing, Lock
  <2>13. QED
    BY <1>1, <2>1, <2>2, <2>3, <2>4, <2>5, <2>6, <2>7, <2>8, <2>9, <2>10, <2>11, <2>12 DEF Sites
<1>17. Phase'
  BY <1>1, <1>16 DEF Phase, Sites
<1>18. LoopBufInv'
  <2>1. /\ pc'[0] \notin {"append", "getloop", "getout", "loop1", "ret"}
        /\ pc'[0] = "out" => s = "steady"
        /\ \A t \in Threads : pc'[t] \in {"flush", "test", "split", "switch", "index", "steady"}
                              => pc[t] \in {"flush", "split", "switch"}
    BY <1>1, <1>3 DEF After, Sites
  <2>2. s = "steady" => out # NULL /\ \A t \in Threads : loopbuf[t] = out
    BY <1>1, <1>15 DEF Indexing, IInv, LoopBufInv
  <2>3. QED
    BY <1>2, <1>3, <1>5, <2>1, <2>2 DEF LoopBufInv, IInv
<1>19. LoopInv'
  <2>1. CASE s = "loop1"
    <3>1. \A t \in Threads : pc'[t] = "lclaim"
      BY <1>1, <2>1 DEF After
    <3>2. Claimed' = {} /\ Looped' = {}
      BY <3>1 DEF Claimed, Looped
    <3>3. bufsize[out] = 0
      BY <1>3, <2>1 DEF IInv, LoopBufInv, LoopPcs
    <3>4. Cardinality(Looped') = 0
      BY <3>2, FS_EmptySet
    <3>5. 1..bufsize'[out'] = {}
      BY <1>2, <3>3
    <3>6. QED
      BY <1>2, <3>1, <3>2, <3>3, <3>4, <3>5 DEF LoopInv
  <2>2. CASE s # "loop1"
    <3>1. pc'[0] \in LoopPcs \ {"getloop", "loop1", "release"} =>
            /\ pc[0] \in LoopPcs \ {"getloop", "loop1", "release"}
            /\ \A t \in Threads : pc[t] \notin {"lclaim", "lcopy"} /\ pc'[t] \notin {"lclaim", "lcopy"}
            /\ pc'[0] \in {"lsteady", "loop3", "loop4"} => pc[0] \in {"lsteady", "loop3", "loop4"}
      BY <1>1, <1>3, <1>5, <2>2 DEF After, Sites, LoopPcs
    <3>2. pc[0] \in {"lsteady", "loop3", "loop4"} => partq = (bufsize[out] > 0)
      BY DEF IInv, LoopInv, LoopPcs
    <3>3. QED
      BY <1>2, <3>1, <3>2, SameLoop DEF IInv
  <2>3. QED
    BY <2>1, <2>2
<1>20. QED
  BY <1>7, <1>8, <1>9, <1>11, <1>12, <1>14, <1>17, <1>18, <1>19 DEF IInv

-----------------------------------------------------------------------------
(* The theorems *)

\* Every step keeps the invariant.
LEMMA StepIInv ==
  ASSUME IInv, [Next]_vars
  PROVE  IInv'
<1>1. CASE UNCHANGED vars
  <2>1. fatal' \in {"no", "null", "nobuffer"}
    BY <1>1 DEF IInv, Types, TypeOK, vars
  <2>2. QED
    BY <1>1, <2>1, OnlyFatal DEF vars
<1>2. ASSUME NEW t \in Threads, ThreadStep(t) PROVE IInv'
  <2>1. CASE Emit(t)
    BY <2>1, EmitIInv
  <2>2. CASE Reserve(t)
    BY <2>2, ReserveIInv
  <2>3. CASE Claim(t)
    BY <2>3, ClaimIInv
  <2>4. CASE Copy(t)
    BY <2>4, CopyIInv
  <2>5. CASE Test(t)
    BY <2>5, TestIInv
  <2>6. CASE SetIndexed(t)
    BY <2>6, SetIndexedIInv
  <2>7. CASE HandOver(t)
    BY <2>7, HandOverIInv
  <2>8. CASE AppendBuffer(t)
    BY <2>8, AppendBufferIInv
  <2>9. CASE GetLoopbackBuffer(t)
    BY <2>9, GetLoopbackBufferIInv
  <2>10. CASE GetOutBuffer(t)
    BY <2>10, GetOutBufferIInv
  <2>11. CASE LoopClaim(t)
    BY <2>11, LoopClaimIInv
  <2>12. CASE LoopCopy(t)
    BY <2>12, LoopCopyIInv
  <2>13. CASE Drain(t)
    BY <2>13, DrainIInv
  <2>14. CASE Release(t)
    BY <2>14, ReleaseIInv
  <2>15. CASE Return(t)
    BY <2>15, ReturnIInv
  <2>16. CASE StartFinalFlush(t)
    BY <2>16, StartFinalFlushIInv
  <2>17. CASE FreeOut(t)
    BY <2>17, FreeOutIInv
  <2>18. QED
    BY <1>2, <2>1, <2>2, <2>3, <2>4, <2>5, <2>6, <2>7, <2>8, <2>9, <2>10, <2>11, <2>12, <2>13,
       <2>14, <2>15, <2>16, <2>17 DEF ThreadStep
<1>3. QED
  BY <1>1, <1>2, BarrierOpensIInv, IOWriteIInv DEF Next

\* The invariant holds in every state of the work item, for any number of
\* processors, updates, buffers and files.
THEOREM Inductive == Spec => []IInv
<1>1. IInv /\ [Next]_vars => IInv'
  BY StepIInv
<1>2. QED
  BY InitIInv, <1>1, PTL DEF Spec

\* In a state of the invariant a flush has the buffer for itself.
LEMMA Exclusive ==
  ASSUME IInv
  PROVE  FlushIsExclusive
<1> SUFFICES ASSUME NEW t \in Threads, pc[t] \in {"index", "out", "append", "getloop", "getout"},
                    NEW u \in Threads
             PROVE  pc[u] \notin {"reserve", "cas", "copy", "emit"}
  BY DEF FlushIsExclusive
<1>1. Indexing \/ Handing \/ Returning
  BY WhichPhase DEF IInv
<1>2. QED
  BY <1>1 DEF Indexing, Handing, Returning, Lock

\* When flush_buffer asks for a buffer it has given stream_out away, and at most
\* one other is in use: the looped back, cached or queued one.
LEMMA Spare ==
  ASSUME IInv, NumBuffers >= 2, pc[0] \in {"getloop", "getout"}
  PROVE  \E b \in Buffers : refcount[b] = 0
<1> USE Basics
<1>1. out = NULL /\ ~OutHeld
  BY DEF IInv, LoopBufInv, OutHeld
<1> DEFINE held == IF pc[0] = "getloop" THEN loopbuf[0]
                  ELSE IF cache # NULL THEN cache ELSE request
<1>2. ASSUME NEW b \in Buffers, b # held
      PROVE  b \notin {request, cache} /\ (LoopHeld => b # loopbuf[0])
  <2>1. CASE pc[0] = "getloop"
    <3>1. loopback
      BY <2>1, WhichPhase DEF IInv, Handing
    <3>2. cache = NULL /\ request \in {NULL, loopbuf[0]}
      BY <2>1, <3>1 DEF IInv, RequestInv, LoopBufInv, LoopPcs
    <3>3. b # loopbuf[0]
      BY <1>2, <2>1
    <3>4. QED
      BY <3>2, <3>3
  <2>2. CASE pc[0] = "getout"
    <3>1. ~LoopHeld
      BY <2>2 DEF LoopHeld, LoopPcs
    <3>2. cache # NULL => request \in {NULL, cache}
      BY DEF IInv, RequestInv
    <3>3. b # NULL
      BY <1>2
    <3>4. b \notin {request, cache}
      BY <1>2, <2>2, <3>2, <3>3
    <3>5. QED
      BY <3>1, <3>4
  <2>3. QED
    BY <2>1, <2>2
<1>3. PICK b \in Buffers : b # held
  <2>1. 1 \in Buffers /\ 2 \in Buffers
    BY DEF Buffers
  <2>2. QED
    BY <2>1
<1> HIDE DEF held
<1>4. b \notin {request, cache} /\ (LoopHeld => b # loopbuf[0])
  BY <1>2, <1>3
<1>5. refcount[b] = 0
  <2>1. One(OutHeld /\ b = out) = 0
    BY <1>1 DEF One
  <2>2. One(b \in {request, cache}) = 0
    BY <1>4 DEF One
  <2>3. One(LoopHeld /\ b = loopbuf[0]) = 0
    BY <1>4 DEF One
  <2>4. QED
    BY <2>1, <2>2, <2>3 DEF IInv, RefInv
<1>6. QED
  BY <1>5

\* get_buffer finds a buffer, if there are two of them for output.
LEMMA BuffersSuffice ==
  ASSUME IInv, NumBuffers >= 2, NeverOutOfBuffers, [Next]_vars
  PROVE  NeverOutOfBuffers'
<1> SUFFICES ASSUME fatal' = "nobuffer" PROVE FALSE
  BY DEF NeverOutOfBuffers
<1>1. ASSUME NEW t \in Threads, NEW next, GetBuffer(t, next), pc[t] \in {"getloop", "getout"}
      PROVE  FALSE
  <2>1. t = 0
    BY <1>1, WhichPhase DEF IInv, Handing, Returning, Lock
  <2>2. PICK b \in Buffers : refcount[b] = 0
    BY <1>1, <2>1, Spare
  <2>3. fatal' = fatal
    BY <1>1, <2>2, TakeBuffer
  <2>4. QED
    BY <2>3 DEF NeverOutOfBuffers
<1>2. ASSUME NEW t \in Threads, ThreadStep(t) PROVE FALSE
  <2>1. fatal' \in {fatal, "null"} \/ GetLoopbackBuffer(t) \/ GetOutBuffer(t)
    BY <1>2 DEF ThreadStep, Emit, Reserve, Claim, Copy, Test, SetIndexed, HandOver, AppendBuffer,
                LoopClaim, LoopCopy, Drain, Release, Return, StartFinalFlush, FreeOut
  <2>2. CASE GetLoopbackBuffer(t)
    BY <1>1, <2>2 DEF GetLoopbackBuffer, At
  <2>3. CASE GetOutBuffer(t)
    BY <1>1, <2>3 DEF GetOutBuffer, At, NeverOutOfBuffers
  <2>4. QED
    BY <2>1, <2>2, <2>3 DEF NeverOutOfBuffers
<1>3. QED
  BY <1>2 DEF Next, BarrierOpens, IOWrite, vars, NeverOutOfBuffers

\* Barriers match, a flush is exclusive and get_buffer never exits in
\* work::flush_buffer and append_buffer, when two of the buffers are left for
\* output, as of sg_driver's four: stream_in takes at most the other two.
THEOREM WorkInvariant ==
  ASSUME NumBuffers >= 2
  PROVE  Spec => []WorkInv
<1>1. Init => IInv /\ NeverOutOfBuffers
  BY InitIInv DEF Init, NeverOutOfBuffers
<1>2. IInv /\ NeverOutOfBuffers /\ [Next]_vars => IInv' /\ NeverOutOfBuffers'
  BY StepIInv, BuffersSuffice
<1>3. IInv /\ NeverOutOfBuffers => WorkInv
  BY Matching, Exclusive DEF WorkInv, IInv, Types
<1>4. QED
  BY <1>1, <1>2, <1>3, PTL DEF Spec

\* Every update that execute_callback makes is written to its file, kept in the
\* cached buffer or applied by loopback exactly once when all workers have
\* reached the last barrier, and at no time twice. It takes no assumption on the
\* number of buffers: running out of them ends the process.
THEOREM UpdatesOnce == Spec => []EveryUpdateOnce
<1>1. ASSUME IInv PROVE EveryUpdateOnce
  <2> USE Basics
  <2>1. ASSUME NEW u \in Updates
        PROVE  /\ Copies(u) + One(InOut(u)) + One(InLoop(u)) = One(Taken(u))
               /\ Copies(u) \in Nat
    <3>1. written[u] \in Nat /\ applied[u] \in Nat
      BY <1>1 DEF IInv, Types
    <3>2. Copies(u) = written[u] + applied[u] + One(InCache(u)) + One(InRequest(u))
      BY <3>1 DEF Copies, One, InCache, InRequest
    <3>3. QED
      BY <1>1, <3>1, <3>2 DEF IInv, Accounted, One
  <2>2. \A u \in Updates : Copies(u) <= 1
    BY <2>1 DEF One
  <2>3. ASSUME Stopped, NEW t \in Threads, NEW k \in 1..total[t]
        PROVE  Copies(<<t, k>>) = 1
    <3>1. total[t] \in 0..MaxEmit
      BY <1>1 DEF IInv, Types, TypeOK
    <3>2. <<t, k>> \in Updates
      BY <3>1 DEF Updates
    <3>3. ~InOut(<<t, k>>) /\ ~InLoop(<<t, k>>)
      BY <2>3 DEF Stopped, InOut, OutLive, InLoop, NotApplied, LoopPcs
    <3>4. emitted[t] = total[t] /\ outbuf[t] = <<>>
      BY <1>1, <2>3 DEF IInv, ThreadInv, Stopped
    <3>5. Taken(<<t, k>>)
      BY <3>1, <3>4 DEF Taken
    <3>6. QED
      BY <2>1, <3>2, <3>3, <3>5 DEF One
  <2>4. QED
    BY <2>2, <2>3 DEF EveryUpdateOnce
<1>2. QED
  BY <1>1, Inductive, PTL
====
