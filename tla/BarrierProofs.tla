--------------------------- MODULE BarrierProofs ---------------------------
(* Proofs about Barrier, for every finite set of threads and every number  *)
(* of rounds: the inductive invariant IInv, the safety properties the      *)
(* model checker checks on three threads, and the refinement of            *)
(* AbstractBarrier.                                                        *)
EXTENDS Barrier, FiniteSetTheorems, TLAPS

\* The count that a set of arrivals stands for is a number between 0 and
\* expected, and is expected only when every thread is in the set.
LEMMA ArrivedCardinality ==
  ASSUME NEW s \in Senses
  PROVE  /\ IsFiniteSet(ArrivedWith(s))
         /\ Cardinality(ArrivedWith(s)) \in 0..expected
         /\ Cardinality(ArrivedWith(s)) = expected <=> ArrivedWith(s) = Threads
         /\ expected \in Nat \ {0}
<1>1. ArrivedWith(s) \in SUBSET Threads
  BY DEF ArrivedWith, Arrived
<1>2. /\ IsFiniteSet(ArrivedWith(s))
      /\ Cardinality(ArrivedWith(s)) <= Cardinality(Threads)
      /\ Cardinality(Threads) = Cardinality(ArrivedWith(s)) => Threads = ArrivedWith(s)
  BY <1>1, ThreadsAssumption, FS_Subset
<1>3. Cardinality(ArrivedWith(s)) \in Nat /\ Cardinality(Threads) \in Nat
  BY <1>2, ThreadsAssumption, FS_CardinalityType
<1>4. Cardinality(Threads) # 0
  BY ThreadsAssumption, FS_EmptySet
<1>5. QED
  BY <1>2, <1>3, <1>4 DEF expected

\* Init establishes the invariant: nobody has arrived and both counts are 0.
LEMMA InitIInv == Init => IInv
<1> SUFFICES ASSUME Init PROVE IInv
  OBVIOUS
<1>2. expected \in Nat \ {0} /\ 0 \in Senses
  BY ArrivedCardinality DEF Senses
<1>3. TypeOK
  BY <1>2, MaxRoundAssumption DEF Init, TypeOK, Senses
<1>4. \A t \in Threads : ThreadInv(t)
  BY <1>2 DEF Init, ThreadInv
<1>5. CountInv
  <2>1. ArrivedWith(sense) = {} /\ ~Releasing
    BY DEF Init, ArrivedWith, Arrived, Releasing
  <2>2. Cardinality(ArrivedWith(sense)) = 0
    BY <2>1, FS_EmptySet
  <2>3. count[sense] = 0 /\ count[1 - sense] = 0
    BY DEF Init, Senses
  <2>4. QED
    BY <1>2, <2>1, <2>2, <2>3 DEF CountInv
<1>6. QED
  BY <1>3, <1>4, <1>5 DEF IInv

\* A thread that reads sense joins nobody's round yet.
LEMMA ReadSenseIInv ==
  ASSUME IInv, NEW t \in Threads, ReadSense(t)
  PROVE  IInv'
<1> USE DEF IInv, ReadSense
<1>1. TypeOK'
  BY DEF TypeOK
<1>2. ASSUME NEW u \in Threads PROVE ThreadInv(u)'
  BY DEF TypeOK, ThreadInv
<1>3. CountInv'
  <2>1. ArrivedWith(sense)' = ArrivedWith(sense)
    BY DEF ArrivedWith, Arrived, TypeOK
  <2>2. Releasing' <=> Releasing
    BY DEF Releasing, TypeOK
  <2>3. (\E u \in Threads : pc[u] = "flip") => \E u \in Threads : pc'[u] = "flip"
    BY DEF TypeOK
  <2>4. QED
    BY <2>1, <2>2, <2>3 DEF CountInv, TypeOK
<1>4. QED
  BY <1>1, <1>2, <1>3

\* An arrival is counted under the sense it read; the one that completes the
\* count finds everybody else spinning on that sense.
LEMMA ArriveIInv ==
  ASSUME IInv, NEW t \in Threads, Arrive(t)
  PROVE  IInv'
<1> USE DEF IInv, Arrive
<1>1. used[t] = sense /\ sense \in Senses /\ pc[t] = "arrive"
  BY DEF ThreadInv, TypeOK
<1>2. t \notin ArrivedWith(sense)
  BY DEF ArrivedWith, Arrived
<1>3. ArrivedWith(sense)' = ArrivedWith(sense) \cup {t}
  BY <1>1 DEF ArrivedWith, Arrived, TypeOK
<1>4. Cardinality(ArrivedWith(sense)') = Cardinality(ArrivedWith(sense)) + 1
  BY <1>1, <1>2, <1>3, ArrivedCardinality, FS_AddElement
<1>5. count[sense] \in 0..expected - 1 /\ expected \in Nat \ {0}
  <2>1. ArrivedWith(sense) # Threads
    BY <1>2
  <2>2. QED
    BY <1>1, <2>1, ArrivedCardinality DEF CountInv
<1>6. TypeOK'
  BY <1>1, <1>5 DEF TypeOK, Senses
<1>7. ~Releasing /\ \A u \in Threads : pc[u] # "flip"
  BY <1>1 DEF Releasing, ThreadInv
<1>8. ASSUME count[sense] = expected - 1
      PROVE  \A u \in Threads \ {t} : pc[u] = "spin" /\ used[u] = sense
  <2>1. Cardinality(ArrivedWith(sense) \cup {t}) = expected
    BY <1>3, <1>4, <1>5, <1>8 DEF CountInv
  <2>2. ArrivedWith(sense) \cup {t} \in SUBSET Threads
    BY DEF ArrivedWith, Arrived
  <2>3. ArrivedWith(sense) \cup {t} = Threads
    BY <2>1, <2>2, ThreadsAssumption, FS_Subset DEF expected
  <2>4. \A u \in Threads \ {t} : u \in ArrivedWith(sense)
    BY <2>3
  <2>5. QED
    BY <1>7, <2>4 DEF ArrivedWith, Arrived, Releasing
<1>9. ASSUME NEW u \in Threads PROVE ThreadInv(u)'
  BY <1>1, <1>7, <1>8 DEF TypeOK, ThreadInv, Releasing
<1>10. CountInv'
  <2>1. ~Releasing'
    BY <1>7 DEF Releasing, TypeOK
  <2>2. count'[sense] = count[sense] + 1 /\ count'[1 - sense] = count[1 - sense]
    BY <1>1 DEF TypeOK, Senses
  <2>3. count[1 - sense] = 0 /\ count[sense] = Cardinality(ArrivedWith(sense))
    BY <1>7 DEF CountInv
  <2>4. count'[sense] = expected => pc'[t] = "flip"
    BY <1>1, <1>5, <2>2 DEF TypeOK
  <2>5. QED
    BY <1>4, <2>1, <2>2, <2>3, <2>4 DEF CountInv
<1>11. QED
  BY <1>6, <1>9, <1>10

\* Reversing sense opens the next round with an empty count, while the round
\* just completed keeps its full one.
LEMMA FlipIInv ==
  ASSUME IInv, NEW t \in Threads, Flip(t)
  PROVE  IInv'
<1> USE DEF IInv, Flip
<1>1. /\ used[t] = sense /\ sense \in Senses /\ pc[t] = "flip"
      /\ sense' = 1 - sense /\ 1 - sense' = sense /\ sense' # sense
      /\ \A u \in Threads \ {t} : pc[u] = "spin" /\ used[u] = sense
  BY DEF ThreadInv, TypeOK, Senses
<1>2. TypeOK'
  BY <1>1 DEF TypeOK, Senses
<1>3. ASSUME NEW u \in Threads PROVE ThreadInv(u)'
  <2>1. CASE u = t
    BY <1>1, <2>1 DEF TypeOK, ThreadInv
  <2>2. CASE u # t
    <3>1. /\ pc[u] = "spin" /\ pc'[u] = "spin"
          /\ used[u] = sense /\ used'[u] = 1 - sense'
      BY <1>1, <2>2 DEF TypeOK
    <3>2. round[u] = episode /\ round[u] < MaxRound
      BY <1>1, <3>1 DEF ThreadInv, Senses
    <3>3. QED
      BY <1>1, <3>1, <3>2 DEF TypeOK, ThreadInv
  <2>3. QED
    BY <2>1, <2>2
<1>4. CountInv'
  <2>1. ArrivedWith(sense) = Threads
    BY <1>1 DEF ArrivedWith, Arrived
  <2>2. count[sense] = expected /\ expected \in Nat \ {0}
    BY <1>1, <2>1, ArrivedCardinality DEF CountInv
  <2>3. count[1 - sense] = 0
    BY <1>1 DEF CountInv, Releasing
  <2>4. ArrivedWith(sense)' = {}
    BY <1>1 DEF ArrivedWith, Arrived, TypeOK
  <2>5. Cardinality(ArrivedWith(sense)') = 0
    BY <2>4, FS_EmptySet
  <2>6. Releasing'
    BY DEF Releasing, TypeOK
  <2>7. QED
    BY <1>1, <2>2, <2>3, <2>5, <2>6 DEF CountInv
<1>5. QED
  BY <1>2, <1>3, <1>4

\* Resetting the count releases the finished round and touches no other.
LEMMA ResetIInv ==
  ASSUME IInv, NEW t \in Threads, Reset(t)
  PROVE  IInv'
<1> USE DEF IInv, Reset
<1>1. /\ used[t] = 1 - sense /\ sense \in Senses /\ pc[t] = "reset" /\ sense # 1 - sense
      /\ 1 - sense \in Senses
      /\ \A u \in Threads \ {t} : pc[u] = "spin" /\ used[u] = 1 - sense
  BY DEF ThreadInv, TypeOK, Senses
<1>2. TypeOK'
  BY <1>1, ArrivedCardinality DEF TypeOK
<1>3. ASSUME NEW u \in Threads PROVE ThreadInv(u)'
  BY <1>1 DEF TypeOK, ThreadInv
<1>4. CountInv'
  <2>1. ArrivedWith(sense)' = ArrivedWith(sense)
    BY <1>1 DEF ArrivedWith, Arrived, TypeOK
  <2>2. ~Releasing'
    BY <1>1 DEF Releasing, TypeOK
  <2>3. count'[sense] = count[sense] /\ count'[1 - sense] = 0
    BY <1>1 DEF TypeOK
  <2>4. count[sense] # expected
    BY <1>1 DEF CountInv
  <2>5. QED
    BY <2>1, <2>2, <2>3, <2>4 DEF CountInv
<1>5. QED
  BY <1>2, <1>3, <1>4

\* Only a thread of the finished round can leave: the count of the current
\* round includes every thread that spins on it.
LEMMA LeaveFinishedRound ==
  ASSUME IInv, NEW t \in Threads, Leave(t)
  PROVE  /\ used[t] = 1 - sense /\ round[t] + 1 = episode
         /\ ~Releasing
<1> USE DEF IInv, Leave
<1>1. sense \in Senses /\ pc[t] = "spin" /\ count[used[t]] = 0
  BY DEF TypeOK
<1>2. expected \in Nat \ {0}
  BY <1>1, ArrivedCardinality
<1>3. used[t] # sense
  <2>1. SUFFICES ASSUME used[t] = sense PROVE FALSE
    OBVIOUS
  <2>2. t \in ArrivedWith(sense)
    BY <1>1, <2>1 DEF ArrivedWith, Arrived
  <2>3. Cardinality(ArrivedWith(sense)) # 0
    BY <1>1, <2>2, ArrivedCardinality, FS_EmptySet
  <2>4. QED
    BY <1>1, <2>1, <2>3 DEF CountInv
<1>4. used[t] = 1 - sense /\ round[t] + 1 = episode
  BY <1>1, <1>3 DEF ThreadInv
<1>5. count[1 - sense] = 0 /\ count[1 - sense] # expected
  BY <1>1, <1>2, <1>4
<1>6. ~Releasing
  BY <1>5 DEF CountInv, Releasing
<1>7. QED
  BY <1>4, <1>6

\* A thread that leaves is back in step with the current episode.
LEMMA LeaveIInv ==
  ASSUME IInv, NEW t \in Threads, Leave(t)
  PROVE  IInv'
<1>0. used[t] = 1 - sense /\ round[t] + 1 = episode /\ ~Releasing
  BY LeaveFinishedRound
<1> USE DEF IInv, Leave
<1>1. /\ used[t] = 1 - sense /\ round[t] + 1 = episode /\ ~Releasing
      /\ sense \in Senses /\ sense # 1 - sense /\ pc[t] = "spin"
  BY <1>0 DEF TypeOK, Senses
<1>2. TypeOK'
  BY <1>1, MaxRoundAssumption DEF TypeOK, ThreadInv
<1>3. ASSUME NEW u \in Threads PROVE ThreadInv(u)'
  <2>1. pc[u] # "reset"
    BY <1>1 DEF Releasing
  <2>2. pc[u] # "flip"
    BY <1>1, <2>1 DEF ThreadInv
  <2>3. QED
    BY <1>1, <2>1, <2>2 DEF TypeOK, ThreadInv
<1>4. CountInv'
  <2>1. ArrivedWith(sense)' = ArrivedWith(sense)
    BY <1>1 DEF ArrivedWith, Arrived, TypeOK
  <2>2. ~Releasing'
    BY <1>1 DEF Releasing, TypeOK
  <2>3. (\E u \in Threads : pc[u] = "flip") => \E u \in Threads : pc'[u] = "flip"
    BY <1>1 DEF TypeOK
  <2>4. QED
    BY <1>1, <2>1, <2>2, <2>3 DEF CountInv
<1>5. QED
  BY <1>2, <1>3, <1>4

\* IInv is an inductive invariant of the barrier.
THEOREM InductiveInvariant == Spec => []IInv
<1>1. IInv /\ [Next]_vars => IInv'
  <2> SUFFICES ASSUME IInv, [Next]_vars PROVE IInv'
    OBVIOUS
  <2>2. ASSUME NEW t \in Threads, Step(t) PROVE IInv'
    BY <2>2, ReadSenseIInv, ArriveIInv, FlipIInv, ResetIInv, LeaveIInv DEF Step
  <2>3. CASE UNCHANGED vars
    BY <2>3 DEF vars, IInv, TypeOK, ThreadInv, CountInv, Releasing, ArrivedWith, Arrived
  <2>4. QED
    BY <2>2, <2>3 DEF Next
<1>2. QED
  BY InitIInv, <1>1, PTL DEF Spec

\* Type correctness of the barrier's state.
THEOREM TypeCorrect == Spec => []TypeOK
<1>1. IInv => TypeOK
  BY DEF IInv
<1>2. QED
  BY InductiveInvariant, <1>1, PTL

\* x_barrier::wait() returns to nobody before everybody has called it.
THEOREM BarrierSafety == Spec => []NobodyLeavesEarly
<1>1. IInv => NobodyLeavesEarly
  <2>1. SUFFICES ASSUME IInv, NEW t \in Threads, NEW u \in Threads
                 PROVE  round[t] <= Entries(u)
    BY DEF NobodyLeavesEarly
  <2>2. round[t] <= episode /\ round[t] \in Nat /\ episode \in Nat /\ round[u] \in Nat
    BY <2>1 DEF IInv, TypeOK, ThreadInv
  <2>3. episode <= Entries(u)
    BY <2>1, <2>2 DEF IInv, TypeOK, ThreadInv, Entries, Arrived
  <2>4. QED
    BY <2>2, <2>3 DEF Entries
<1>2. QED
  BY InductiveInvariant, <1>1, PTL

\* The sense a thread read is still current when it increments the count.
THEOREM SenseStable == Spec => []ReadSenseIsCurrent
<1>1. IInv => ReadSenseIsCurrent
  BY DEF IInv, ThreadInv, ReadSenseIsCurrent
<1>2. QED
  BY InductiveInvariant, <1>1, PTL

\* Two threads never reset the barrier in the same round.
THEOREM UniqueReleaser == Spec => []OneReleaser
<1>1. IInv => OneReleaser
  BY DEF IInv, ThreadInv, OneReleaser
<1>2. QED
  BY InductiveInvariant, <1>1, PTL

----------------------------------------------------------------------------
(* Refinement of AbstractBarrier *)

\* The initial states of the barrier are initial states of its promise.
LEMMA RefinementInit == Init => Abstract!AbsInit
<1> SUFFICES ASSUME Init PROVE Abstract!AbsInit
  OBVIOUS
<1>1. Arrived = {}
  BY DEF Init, Arrived
<1>2. QED
  BY <1>1 DEF Init, Abstract!AbsInit

\* The increment of the count is the abstract Enter, the exit from the loop the
\* abstract Leave; reading and reversing sense and the reset are stuttering.
LEMMA RefinementStep ==
  ASSUME IInv, [Next]_vars
  PROVE  [Abstract!AbsNext]_(Abstract!absVars)
<1> USE DEF Abstract!absVars
<1>1. ASSUME NEW t \in Threads, ReadSense(t)
      PROVE  UNCHANGED Abstract!absVars
  BY <1>1 DEF ReadSense, Arrived, IInv, TypeOK
<1>2. ASSUME NEW t \in Threads, Arrive(t)
      PROVE  Abstract!AbsEnter(t)
  <2>1. pc[t] = "arrive" /\ round[t] < MaxRound
    BY <1>2 DEF Arrive, IInv, ThreadInv
  <2>2. t \notin Arrived /\ Arrived' = Arrived \cup {t}
    BY <1>2, <2>1 DEF Arrive, Arrived, IInv, TypeOK
  <2>3. QED
    BY <1>2, <2>1, <2>2 DEF Arrive, Abstract!AbsEnter
<1>3. ASSUME NEW t \in Threads, Flip(t) \/ Reset(t)
      PROVE  UNCHANGED Abstract!absVars
  BY <1>3 DEF Flip, Reset, Arrived, IInv, TypeOK
<1>4. ASSUME NEW t \in Threads, Leave(t)
      PROVE  Abstract!AbsLeave(t)
  <2>1. round[t] + 1 = episode /\ ~Releasing
    BY <1>4, LeaveFinishedRound
  <2>2. t \in Arrived /\ Arrived' = Arrived \ {t}
    BY <1>4 DEF Leave, Arrived, IInv, TypeOK
  <2>3. ASSUME NEW u \in Threads PROVE Abstract!Entered(u) >= round[t] + 1
    BY <2>1 DEF IInv, TypeOK, ThreadInv, Releasing, Arrived, Abstract!Entered
  <2>4. QED
    BY <1>4, <2>2, <2>3 DEF Leave, Abstract!AbsLeave
<1>5. CASE UNCHANGED vars
  BY <1>5 DEF vars, Arrived
<1>6. QED
  BY <1>1, <1>2, <1>3, <1>4, <1>5 DEF Next, Step, Abstract!AbsNext

\* The barrier of utils/barrier.h implements its promise.
THEOREM Refinement == Spec => ImplementsAbstractBarrier
<1>1. IInv /\ [Next]_vars => [Abstract!AbsNext]_(Abstract!absVars)
  BY RefinementStep
<1>2. QED
  BY InductiveInvariant, RefinementInit, <1>1, PTL
     DEF Spec, ImplementsAbstractBarrier, Abstract!AbsSpec
============================================================================
