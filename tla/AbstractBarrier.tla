-------------------------- MODULE AbstractBarrier --------------------------
(* What utils/barrier.h promises to the worker threads of core/x-lib.hpp:  *)
(* wait() is entered and left, and nobody leaves its k-th wait() before    *)
(* everybody has entered theirs.  No counters and no sense: only who is    *)
(* inside and how many rounds each thread has completed.                   *)
EXTENDS Naturals

CONSTANTS Threads,    \* the worker threads that share the barrier
          MaxRound    \* how many times each of them calls wait()

VARIABLES round,      \* round[t]: calls of wait() that t has returned from
          inside      \* the threads inside wait(), counted as arrived

absVars == <<round, inside>>

\* The number of wait() calls t has arrived at.
Entered(t) == IF t \in inside THEN round[t] + 1 ELSE round[t]

AbsInit == /\ round = [t \in Threads |-> 0]
           /\ inside = {}

AbsEnter(t) == /\ t \notin inside
               /\ round[t] < MaxRound
               /\ inside' = inside \cup {t}
               /\ UNCHANGED round

AbsLeave(t) == /\ t \in inside
               /\ \A u \in Threads : Entered(u) >= round[t] + 1
               /\ inside' = inside \ {t}
               /\ round' = [round EXCEPT ![t] = @ + 1]

AbsNext == \E t \in Threads : AbsEnter(t) \/ AbsLeave(t)

AbsSpec == AbsInit /\ [][AbsNext]_absVars
============================================================================
