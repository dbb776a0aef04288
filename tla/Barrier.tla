------------------------------ MODULE Barrier ------------------------------
(* The sense-reversing barrier of utils/barrier.h (class x_barrier), one   *)
(* action per shared-memory access of wait():                              *)
(*                                                                         *)
(*   ReadSense   sense_used = sense                                        *)
(*   Arrive      arrived = __sync_fetch_and_add(&count[sense_used], 1)     *)
(*   Flip        sense = 1 - sense_used          (the last arrival only)   *)
(*   Reset       count[sense_used] = 0           (the last arrival only)   *)
(*   Leave       while(count[sense_used] != 0);                            *)
(*                                                                         *)
(* count and sense are volatile and the stores of one thread reach memory  *)
(* in program order (x86), so the interleaving of these steps is the       *)
(* behaviour of the class.                                                 *)
EXTENDS Naturals, FiniteSets

CONSTANTS Threads,    \* the worker threads; expected = Cardinality(Threads)
          MaxRound    \* wait() calls each thread makes before it stops

ASSUME ThreadsAssumption == IsFiniteSet(Threads) /\ Threads # {}
ASSUME MaxRoundAssumption == MaxRound \in Nat

VARIABLES count,      \* count[0], count[1]: arrivals per sense
          sense,      \* the sense the next wait() will use
          pc,         \* where each thread is in wait()
          used,       \* used[t]: t's local sense_used
          round,      \* history: wait() calls t has returned from
          episode     \* history: how often sense has been reversed

vars == <<count, sense, pc, used, round, episode>>

expected == Cardinality(Threads)
Senses == {0, 1}

Init == /\ count = [s \in Senses |-> 0]
        /\ sense = 0
        /\ pc = [t \in Threads |-> "outside"]
        /\ used = [t \in Threads |-> 0]
        /\ round = [t \in Threads |-> 0]
        /\ episode = 0

ReadSense(t) == /\ pc[t] = "outside"
                /\ round[t] < MaxRound
                /\ used' = [used EXCEPT ![t] = sense]
                /\ pc' = [pc EXCEPT ![t] = "arrive"]
                /\ UNCHANGED <<count, sense, round, episode>>

\* Mutant of Arrive: the last but one arrival already takes itself for the last.
ArriveOffByOne(t) ==
    /\ pc[t] = "arrive"
    /\ count' = [count EXCEPT ![used[t]] = @ + 1]
    /\ pc' = [pc EXCEPT ![t] =
                IF count[used[t]] + 2 >= expected THEN "flip" ELSE "spin"]
    /\ UNCHANGED <<sense, used, round, episode>>

Arrive(t) == /\ pc[t] = "arrive"
             /\ count' = [count EXCEPT ![used[t]] = @ + 1]
             /\ pc' = [pc EXCEPT ![t] =
                         IF count[used[t]] = expected - 1 THEN "flip" ELSE "spin"]
             /\ UNCHANGED <<sense, used, round, episode>>

Flip(t) == /\ pc[t] = "flip"
           /\ sense' = 1 - used[t]
           /\ episode' = episode + 1
           /\ pc' = [pc EXCEPT ![t] = "reset"]
           /\ UNCHANGED <<count, used, round>>

\* Mutant of Reset: the last arrival forgets to reset the count.
ResetForgotten(t) == /\ pc[t] = "reset"
                     /\ pc' = [pc EXCEPT ![t] = "spin"]
                     /\ UNCHANGED <<count, sense, used, round, episode>>

Reset(t) == /\ pc[t] = "reset"
            /\ count' = [count EXCEPT ![used[t]] = 0]
            /\ pc' = [pc EXCEPT ![t] = "spin"]
            /\ UNCHANGED <<sense, used, round, episode>>

Leave(t) == /\ pc[t] = "spin"
            /\ count[used[t]] = 0
            /\ round' = [round EXCEPT ![t] = @ + 1]
            /\ pc' = [pc EXCEPT ![t] = "outside"]
            /\ UNCHANGED <<count, sense, used, episode>>

Step(t) == ReadSense(t) \/ Arrive(t) \/ Flip(t) \/ Reset(t) \/ Leave(t)

Next == \E t \in Threads : Step(t)

Spec == Init /\ [][Next]_vars

\* Every worker is an OS thread of its own, so each of them keeps running.
FairSpec == Spec /\ \A t \in Threads : WF_vars(Step(t))

----------------------------------------------------------------------------
(* Properties *)

TypeOK == /\ count \in [Senses -> 0..expected]
          /\ sense \in Senses
          /\ pc \in [Threads -> {"outside", "arrive", "flip", "reset", "spin"}]
          /\ used \in [Threads -> Senses]
          /\ round \in [Threads -> 0..MaxRound]
          /\ episode \in Nat

\* The threads whose fetch-and-add is done and whose wait() has not returned.
Arrived == {t \in Threads : pc[t] \in {"flip", "reset", "spin"}}
ArrivedWith(s) == {t \in Arrived : used[t] = s}
Entries(t) == IF t \in Arrived THEN round[t] + 1 ELSE round[t]

\* Nobody has returned from its k-th wait() while some thread has not yet
\* arrived at its own: the loop on count[sense_used] releases nobody early.
NobodyLeavesEarly == \A t, u \in Threads : round[t] <= Entries(u)

\* A thread between its read of sense and its fetch-and-add holds a sense that
\* is still the current one, so its arrival is counted in the right round.
ReadSenseIsCurrent == \A t \in Threads : pc[t] = "arrive" => used[t] = sense

\* Of any round's arrivals exactly one reverses sense and resets the count.
OneReleaser ==
    \A t, u \in Threads :
        pc[t] \in {"flip", "reset"} /\ pc[u] \in {"flip", "reset"} => t = u

\* The strengthening that makes the three of them inductive: where a thread is
\* in wait() fixes its sense and its round relative to the current episode, the
\* releaser finds everybody else spinning on its own round, and each count is
\* the number of arrivals it stands for.
Releasing == \E t \in Threads : pc[t] = "reset"

ThreadInv(t) ==
    /\ pc[t] # "outside" => round[t] < MaxRound
    /\ pc[t] \in {"outside", "arrive"} => round[t] = episode
    /\ pc[t] = "arrive" => used[t] = sense
    /\ pc[t] = "spin" => \/ used[t] = sense /\ round[t] = episode
                         \/ used[t] = 1 - sense /\ round[t] + 1 = episode
    /\ pc[t] = "flip" => /\ used[t] = sense
                         /\ round[t] = episode
    /\ pc[t] = "reset" => /\ used[t] = 1 - sense
                          /\ round[t] + 1 = episode
    /\ pc[t] \in {"flip", "reset"} =>
           \A u \in Threads \ {t} : pc[u] = "spin" /\ used[u] = used[t]

CountInv ==
    /\ count[sense] = Cardinality(ArrivedWith(sense))
    /\ count[1 - sense] = IF Releasing THEN expected ELSE 0
    /\ count[sense] = expected => \E t \in Threads : pc[t] = "flip"

IInv == TypeOK /\ (\A t \in Threads : ThreadInv(t)) /\ CountInv

\* Every thread gets through all of its wait() calls: no reuse of the barrier
\* leaves a thread spinning on a count that has already started to grow again.
EveryWaitReturns == <>(\A t \in Threads : round[t] = MaxRound)

\* Refinement: who has arrived and who has returned is all a user can see.
Abstract == INSTANCE AbstractBarrier WITH inside <- Arrived
ImplementsAbstractBarrier == Abstract!AbsSpec
============================================================================
