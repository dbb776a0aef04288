------------------------------- MODULE Filter -------------------------------
(* The lock-free partition queues of core/x-splitter.hpp (class filter).   *)
(* Worker threads first fill the queues with the ids of partitions that    *)
(* have input, then, on the other side of a barrier, drain a copy of them, *)
(* stealing from each other.  A partition's vertices are updated without   *)
(* any lock by whoever dequeues it, so each queued id must be handed out   *)
(* exactly once per pass.                                                  *)
(*                                                                         *)
(* The callers separate the phases by x_barrier (see Barrier), here one    *)
(* step Go that needs every thread at the end of its phase: reset_index    *)
(* (done) and x_split (q) in make_index, prep_dq and dq in                 *)
(* work::operator() of core/x-lib.hpp.                                     *)
EXTENDS Naturals

CONSTANTS Items,       \* partition ids, 0 .. items - 1
          Processors,  \* number of worker threads and of queues, a power of two
          MaxPass,     \* bound: passes over the queues explored
          NULL         \* the end of a chain

ASSUME ItemsAssumption == Items \subseteq Nat
ASSUME ProcessorsAssumption == Processors \in Nat \ {0}
ASSUME NullAssumption == NULL \notin Items
ASSUME MaxPassAssumption == MaxPass \in Nat

Threads == 0..Processors - 1
Entries == Items \cup {NULL}

VARIABLES next,     \* work_items[i].next; next[i] = i means "not queued"
          work_q,   \* the head of each queue
          visible,  \* work_q_visible: the heads that dq pops from
          phase,    \* which side of the barriers the threads are on
          pc,       \* where each thread is in its operation
          itm,      \* the entry a thread pushes or pops
          prev,     \* the value its compare-and-swap expects or installs
          steal,    \* to_steal_from
          queued,   \* history: ids q() was called with since the last done()
          given,    \* history: given[i], how often dq returned i in this pass
          pass      \* passes so far

shared == <<next, work_q, visible>>
locals == <<pc, itm, prev, steal>>
vars == <<next, work_q, visible, phase, pc, itm, prev, steal, queued, given, pass>>

\* id & (num_queues - 1), num_queues being a power of two
Queue(id) == id % Processors

Init == /\ next = [i \in Items |-> i]
        /\ work_q = [t \in Threads |-> NULL]
        /\ visible = [t \in Threads |-> NULL]
        /\ phase = "fill"
        /\ pc = [t \in Threads |-> "idle"]
        /\ itm = [t \in Threads |-> NULL]
        /\ prev = [t \in Threads |-> NULL]
        /\ steal = [t \in Threads |-> t]
        /\ queued = {}
        /\ given = [i \in Items |-> 0]
        /\ pass = 0

-----------------------------------------------------------------------------
(* q(id): claim the entry, then push it *)

\* CAS(&itm->next, itm, NULL): of the threads that queue id one goes on.
Claim(t, id) ==
    /\ phase = "fill" /\ pc[t] = "idle"
    /\ queued' = queued \cup {id}
    /\ IF next[id] = id
       THEN /\ next' = [next EXCEPT ![id] = NULL]
            /\ itm' = [itm EXCEPT ![t] = id]
            /\ pc' = [pc EXCEPT ![t] = "link"]
       ELSE UNCHANGED <<next, itm, pc>>
    /\ UNCHANGED <<work_q, visible, phase, prev, steal, given, pass>>

\* Mutant of Link: the entry is pushed without the chain below it.
LinkDropsChain(t) ==
    /\ pc[t] = "link"
    /\ prev' = [prev EXCEPT ![t] = work_q[Queue(itm[t])]]
    /\ pc' = [pc EXCEPT ![t] = "push"]
    /\ UNCHANGED <<next, work_q, visible, phase, itm, steal, queued, given, pass>>

\* prev = itm->next = work_q[q].work_q
Link(t) ==
    /\ pc[t] = "link"
    /\ LET head == work_q[Queue(itm[t])]
       IN /\ next' = [next EXCEPT ![itm[t]] = head]
          /\ prev' = [prev EXCEPT ![t] = head]
    /\ pc' = [pc EXCEPT ![t] = "push"]
    /\ UNCHANGED <<work_q, visible, phase, itm, steal, queued, given, pass>>

\* Mutant of Push: a plain store of the head instead of the CAS.
PushWithoutCAS(t) ==
    /\ pc[t] = "push"
    /\ work_q' = [work_q EXCEPT ![Queue(itm[t])] = itm[t]]
    /\ pc' = [pc EXCEPT ![t] = "idle"]
    /\ UNCHANGED <<next, visible, phase, itm, prev, steal, queued, given, pass>>

\* CAS(&work_q[q].work_q, prev, itm), back to Link when somebody pushed first
Push(t) ==
    /\ pc[t] = "push"
    /\ IF work_q[Queue(itm[t])] = prev[t]
       THEN /\ work_q' = [work_q EXCEPT ![Queue(itm[t])] = itm[t]]
            /\ pc' = [pc EXCEPT ![t] = "idle"]
       ELSE /\ pc' = [pc EXCEPT ![t] = "link"]
            /\ UNCHANGED work_q
    /\ UNCHANGED <<next, visible, phase, itm, prev, steal, queued, given, pass>>

\* The thread has no further id to queue.
EndFill(t) ==
    /\ phase = "fill" /\ pc[t] = "idle"
    /\ pc' = [pc EXCEPT ![t] = "barrier"]
    /\ UNCHANGED <<shared, phase, itm, prev, steal, queued, given, pass>>

-----------------------------------------------------------------------------
(* prep_dq and dq *)

\* prep_dq(t): work_q_visible[t] = work_q[t]
PrepDq(t) ==
    /\ phase = "prep" /\ pc[t] = "idle"
    /\ visible' = [visible EXCEPT ![t] = work_q[t]]
    /\ pc' = [pc EXCEPT ![t] = "barrier"]
    /\ UNCHANGED <<next, work_q, phase, itm, prev, steal, queued, given, pass>>

\* Mutant of Avail: the search for work stops only when it finds some.
AvailForever(t) ==
    /\ phase = "drain" /\ pc[t] = "idle"
    /\ IF visible[steal[t]] # NULL
       THEN /\ itm' = [itm EXCEPT ![t] = visible[steal[t]]]
            /\ pc' = [pc EXCEPT ![t] = "next"]
            /\ UNCHANGED steal
       ELSE /\ steal' = [steal EXCEPT ![t] = (@ + 1) % Processors]
            /\ UNCHANGED <<itm, pc>>
    /\ UNCHANGED <<shared, phase, prev, queued, given, pass>>

\* while((avail = work_q_visible[to_steal_from].work_q) != NULL) ... else the
\* next queue, until the round is complete and dq returns "no work"
Avail(t) ==
    /\ phase = "drain" /\ pc[t] = "idle"
    /\ IF visible[steal[t]] # NULL
       THEN /\ itm' = [itm EXCEPT ![t] = visible[steal[t]]]
            /\ pc' = [pc EXCEPT ![t] = "next"]
            /\ UNCHANGED steal
       ELSE LET s == (steal[t] + 1) % Processors
            IN /\ steal' = [steal EXCEPT ![t] = s]
               /\ pc' = [pc EXCEPT ![t] = IF s = t THEN "barrier" ELSE "idle"]
               /\ UNCHANGED itm
    /\ UNCHANGED <<shared, phase, prev, queued, given, pass>>

\* avail->next, read before the compare-and-swap that uses it
ReadNext(t) ==
    /\ pc[t] = "next"
    /\ prev' = [prev EXCEPT ![t] = next[itm[t]]]
    /\ pc' = [pc EXCEPT ![t] = "pop"]
    /\ UNCHANGED <<shared, phase, itm, steal, queued, given, pass>>

\* Mutant of Pop: the head is overwritten without comparing it first.
PopWithoutCAS(t) ==
    /\ pc[t] = "pop"
    /\ visible' = [visible EXCEPT ![steal[t]] = prev[t]]
    /\ given' = [given EXCEPT ![itm[t]] = @ + 1]
    /\ steal' = [steal EXCEPT ![t] = t]
    /\ pc' = [pc EXCEPT ![t] = "idle"]
    /\ UNCHANGED <<next, work_q, phase, itm, prev, queued, pass>>

\* CAS(&work_q_visible[..], avail, avail->next); on success dq returns the id,
\* the caller processes the partition and calls dq again from its own queue.
Pop(t) ==
    /\ pc[t] = "pop"
    /\ IF visible[steal[t]] = itm[t]
       THEN /\ visible' = [visible EXCEPT ![steal[t]] = prev[t]]
            /\ given' = [given EXCEPT ![itm[t]] = @ + 1]
            /\ steal' = [steal EXCEPT ![t] = t]
       ELSE UNCHANGED <<visible, given, steal>>
    /\ pc' = [pc EXCEPT ![t] = "idle"]
    /\ UNCHANGED <<next, work_q, phase, itm, prev, queued, pass>>

-----------------------------------------------------------------------------
(* done(t) and the barriers *)

\* The entries of the chain that starts at head, if it is not NULL: the smallest
\* set that has it and the successor of each of its entries.
Closed(n, S) == \A i \in S : n[i] \in Items => n[i] \in S
Chain(n, head) ==
    {i \in Items : \A S \in SUBSET Items : Closed(n, S) /\ (head \in Items => head \in S) => i \in S}

\* Walk the own chain, make each entry point to itself, empty both heads.
\* Nobody else looks at them in this phase, so the walk is one step.
Done(t) ==
    /\ phase = "done" /\ pc[t] = "idle"
    /\ next' = [i \in Items |-> IF i \in Chain(next, work_q[t]) THEN i ELSE next[i]]
    /\ work_q' = [work_q EXCEPT ![t] = NULL]
    /\ visible' = [visible EXCEPT ![t] = NULL]
    /\ pc' = [pc EXCEPT ![t] = "barrier"]
    /\ UNCHANGED <<phase, itm, prev, steal, queued, given, pass>>

AllAtBarrier == \A t \in Threads : pc[t] = "barrier"

\* After a drain the same queue contents may be drained again for the next
\* buffer of edges (the driver's scatter_filter is prepared anew by each
\* do_stream), or done() empties it (a buffer's own work_queues, and
\* scatter_filter in the post-scatter callback).
Follows(p) == CASE p = "fill"  -> {"prep"}
                [] p = "prep"  -> {"drain"}
                [] p = "drain" -> {"prep", "done"}
                [] p = "done"  -> {"fill"}

Go == /\ AllAtBarrier
      /\ \E p \in Follows(phase) :
           /\ phase' = p
           /\ p = "prep" => pass < MaxPass
           /\ pass' = IF p = "prep" THEN pass + 1 ELSE pass
           /\ queued' = IF p = "fill" THEN {} ELSE queued
           /\ given' = IF p \in {"prep", "fill"} THEN [i \in Items |-> 0] ELSE given
      /\ pc' = [t \in Threads |-> "idle"]
      /\ UNCHANGED <<shared, itm, prev, steal>>

ThreadStep(t) == \/ \E id \in Items : Claim(t, id)
                 \/ Link(t) \/ Push(t) \/ EndFill(t)
                 \/ PrepDq(t)
                 \/ Avail(t) \/ ReadNext(t) \/ Pop(t)
                 \/ Done(t)

Next == (\E t \in Threads : ThreadStep(t)) \/ Go

Spec == Init /\ [][Next]_vars

\* A thread runs on, and stops queueing ids once its input is read.
FairSpec == /\ Spec
            /\ WF_vars(Go)
            /\ \A t \in Threads :
                 /\ WF_vars(Link(t) \/ Push(t))
                 /\ WF_vars(PrepDq(t) \/ Avail(t) \/ ReadNext(t) \/ Pop(t) \/ Done(t))
                 /\ WF_vars(EndFill(t))

-----------------------------------------------------------------------------
(* Properties *)

TypeOK == /\ next \in [Items -> Entries]
          /\ work_q \in [Threads -> Entries]
          /\ visible \in [Threads -> Entries]
          /\ phase \in {"fill", "prep", "drain", "done"}
          /\ pc \in [Threads -> {"idle", "link", "push", "next", "pop", "barrier"}]
          /\ itm \in [Threads -> Entries]
          /\ prev \in [Threads -> Entries]
          /\ steal \in [Threads -> Threads]
          /\ queued \subseteq Items
          /\ given \in [Items -> Nat]
          /\ pass \in 0..MaxPass

\* No partition is ever handed out twice in one pass: its vertex
\* states are updated by one thread, without a lock.
ExclusivePartition == \A i \in Items : given[i] <= 1

\* When every thread has found "no work", each queued partition has been handed
\* out and no other has: no update is left behind in a buffer.
PassComplete ==
    phase = "drain" /\ AllAtBarrier =>
        \A i \in Items : given[i] > 0 <=> i \in queued

\* Once the pushes are over, the queues hold exactly the queued entries, each
\* in the queue of its own id, and an entry is marked free iff it is in none.
QueuesExact ==
    phase \in {"prep", "drain"} =>
        /\ \A t \in Threads : Chain(next, work_q[t]) = {i \in queued : Queue(i) = t}
        /\ \A i \in Items : next[i] = i <=> i \notin queued

\* A retried compare-and-swap fails only because another thread succeeded, so
\* every pass ends: all threads meet at the barrier.
PassEnds == phase = "drain" ~> AllAtBarrier

\* The queues hold what was queued and no partition has two workers, in every state.
FilterInv == TypeOK /\ QueuesExact /\ ExclusivePartition
=============================================================================
