---------------------------- MODULE FilterProofs ----------------------------
(* Proofs about Filter, for any number of threads, partitions and passes:  *)
(* the queues are exact, no partition is handed out twice in a pass and     *)
(* none is left behind when every thread has found no work.                 *)
(*                                                                          *)
(* The inductive invariant says that the entries that are claimed but not   *)
(* pushed belong to one thread each, that the others are linked into chains *)
(* without cycles, one per queue, that during a drain exactly the entries   *)
(* below a visible head are still to be given out, and that a thread has    *)
(* seen every queue empty that it went past.                                *)
EXTENDS Filter, TLAPS

-----------------------------------------------------------------------------
(* Chains *)

\* An entry of a chain is in every closed set that has the head.
LEMMA ChainLeast ==
    ASSUME NEW n, NEW head, NEW S \in SUBSET Items, Closed(n, S), head \in Items => head \in S
    PROVE  Chain(n, head) \subseteq S
BY DEF Chain

LEMMA ChainEmpty ==
    ASSUME NEW n
    PROVE  Chain(n, NULL) = {}
<1>1. Closed(n, {})
  BY DEF Closed
<1>2. QED
  BY <1>1, ChainLeast, NullAssumption

\* A chain is its head and the chain that goes on behind it.
LEMMA ChainUnfold ==
    ASSUME NEW n \in [Items -> Entries], NEW head \in Items
    PROVE  Chain(n, head) = {head} \cup Chain(n, n[head])
<1> DEFINE rest == Chain(n, n[head])
<1>1. rest \in SUBSET Items
  BY DEF Chain
<1>2. Closed(n, rest)
  BY DEF Chain, Closed
<1>3. n[head] \in Items => n[head] \in rest
  BY DEF Chain
<1>4. Chain(n, head) \subseteq {head} \cup rest
  <2> HIDE DEF rest
  <2>1. Closed(n, {head} \cup rest)
    BY <1>2, <1>3 DEF Closed
  <2>2. QED
    BY <1>1, <2>1, ChainLeast
<1>5. head \in Chain(n, head)
  BY DEF Chain
<1>6. rest \subseteq Chain(n, head)
  <2>1. Chain(n, head) \in SUBSET Items /\ Closed(n, Chain(n, head))
    BY DEF Chain, Closed
  <2>2. n[head] \in Items => n[head] \in Chain(n, head)
    BY <1>5, <2>1 DEF Closed
  <2>3. QED
    BY <2>1, <2>2, ChainLeast
<1>7. QED
  BY <1>4, <1>5, <1>6

\* A chain inside a closed set does not change when only entries outside do.
LEMMA ChainFrame ==
    ASSUME NEW n, NEW m, NEW S \in SUBSET Items, Closed(n, S), \A i \in S : n[i] = m[i],
           NEW head, head \in Items => head \in S
    PROVE  Chain(n, head) = Chain(m, head)
<1>1. Closed(m, S)
  BY DEF Closed
<1>2. ASSUME NEW T \in SUBSET Items, head \in Items => head \in T
      PROVE  /\ Closed(m, T) => Closed(n, T \cap S)
             /\ Closed(n, T) => Closed(m, T \cap S)
  BY DEF Closed
<1>3. Chain(n, head) \subseteq Chain(m, head)
  <2> SUFFICES ASSUME NEW i \in Chain(n, head), NEW T \in SUBSET Items,
                      Closed(m, T), head \in Items => head \in T
               PROVE  i \in T
    BY DEF Chain
  <2>1. Closed(n, T \cap S)
    BY <1>2
  <2>2. QED
    BY <2>1, ChainLeast
<1>4. Chain(m, head) \subseteq Chain(n, head)
  <2> SUFFICES ASSUME NEW i \in Chain(m, head), NEW T \in SUBSET Items,
                      Closed(n, T), head \in Items => head \in T
               PROVE  i \in T
    BY DEF Chain
  <2>1. Closed(m, T \cap S)
    BY <1>2
  <2>2. QED
    BY <2>1, ChainLeast
<1>5. QED
  BY <1>3, <1>4

-----------------------------------------------------------------------------
(* The inductive invariant *)

Pending(t) == pc[t] \in {"link", "push"}
Linked == {i \in Items : next[i] # i /\ \A t \in Threads : Pending(t) => itm[t] # i}
InQueue(t) == {i \in Linked : Queue(i) = t}
OrNull(S) == S \cup {NULL}

\* A claimed entry belongs to one thread until it is pushed.
Claimed(t) ==
    /\ phase = "fill"
    /\ itm[t] \in Items /\ next[itm[t]] # itm[t]
    /\ \A u \in Threads \ {t} : Pending(u) => itm[u] # itm[t]
    /\ pc[t] = "push" => prev[t] = next[itm[t]] /\ prev[t] \in OrNull(InQueue(Queue(itm[t])))
PendingInv == \A t \in Threads : Pending(t) => Claimed(t)

\* One chain per queue, without cycles, that has all linked entries of the queue.
ChainInv ==
    /\ \A i \in Linked : next[i] \in OrNull(InQueue(Queue(i))) /\ i \notin Chain(next, next[i])
    /\ \A t \in Threads : work_q[t] \in OrNull(InQueue(t)) /\ InQueue(t) \subseteq Chain(next, work_q[t])

\* What was queued is marked, until done() empties the queues one by one.
QueuedInv ==
    /\ phase # "done" => \A i \in Items : next[i] # i <=> i \in queued
    /\ phase = "done" => \A t \in Threads : pc[t] = "barrier" => work_q[t] = NULL

\* Prepared queues are visible whole; what is no longer visible was given once.
GivenInv ==
    /\ \A i \in Items : given[i] \in {0, 1}
    /\ phase \in {"fill", "prep"} => \A i \in Items : given[i] = 0
    /\ phase = "prep" => \A t \in Threads : pc[t] = "barrier" => visible[t] = work_q[t]
    /\ phase = "drain" =>
         /\ \A t \in Threads : visible[t] \in OrNull(InQueue(t))
         /\ \A i \in Items : given[i] = 1 <=> i \in Linked /\ i \notin Chain(next, visible[Queue(i)])

\* The queues a thread has gone past since it began with its own one.
Passed(t) == {q \in Threads : IF t <= steal[t] THEN t <= q /\ q < steal[t] ELSE t <= q \/ q < steal[t]}

DrainInv ==
    \A t \in Threads :
        /\ pc[t] \in {"next", "pop"} => phase = "drain" /\ itm[t] \in InQueue(steal[t])
        /\ pc[t] = "pop" => prev[t] = next[itm[t]]
        /\ phase # "drain" \/ pc[t] = "barrier" => steal[t] = t
        /\ phase = "drain" => \A q \in Passed(t) : visible[q] = NULL
        /\ phase = "drain" /\ pc[t] = "barrier" => \A q \in Threads : visible[q] = NULL

IInv == TypeOK /\ PendingInv /\ ChainInv /\ QueuedInv /\ GivenInv /\ DrainInv

-----------------------------------------------------------------------------
(* What the steps have in common *)

LEMMA QueueType ==
    ASSUME NEW id \in Items
    PROVE  Queue(id) \in Threads
<1>1. id \in Nat /\ Processors \in Nat \ {0}
  BY ItemsAssumption, ProcessorsAssumption
<1>2. id % Processors \in 0..Processors - 1
  BY <1>1
<1>3. QED
  BY <1>2 DEF Queue, Threads

\* The search for work goes round.
LEMMA NextQueue ==
    ASSUME NEW s \in Threads
    PROVE  (s + 1) % Processors = IF s + 1 = Processors THEN 0 ELSE s + 1
<1>1. s \in Nat /\ s + 1 <= Processors /\ Processors \in Nat \ {0}
  BY ProcessorsAssumption DEF Threads
<1>2. QED
  BY <1>1

LEMMA LinkedClosed ==
    ASSUME ChainInv
    PROVE  Closed(next, Linked) /\ Linked \in SUBSET Items /\ NULL \notin Items
<1>1. Linked \in SUBSET Items
  BY DEF Linked
<1>2. \A i \in Linked : next[i] \in OrNull(Linked)
  BY DEF ChainInv, InQueue, OrNull
<1>3. QED
  BY <1>1, <1>2, NullAssumption DEF Closed, OrNull

\* The entries of a queue and its chain are the same.
LEMMA ChainIsQueue ==
    ASSUME ChainInv, NEW t \in Threads
    PROVE  Chain(next, work_q[t]) = InQueue(t)
<1>1. Closed(next, InQueue(t))
  <2>1. \A i \in InQueue(t) : next[i] \in OrNull(InQueue(t))
    BY DEF ChainInv, InQueue
  <2>2. QED
    BY <2>1, NullAssumption DEF Closed, OrNull
<1>2. work_q[t] \in OrNull(InQueue(t)) /\ InQueue(t) \subseteq Chain(next, work_q[t])
  BY DEF ChainInv
<1>3. InQueue(t) \in SUBSET Items
  BY DEF InQueue, Linked
<1>4. work_q[t] \in Items => work_q[t] \in InQueue(t)
  BY <1>2, NullAssumption DEF OrNull
<1>5. QED
  BY <1>1, <1>2, <1>3, <1>4, ChainLeast

\* A step that changes no linked entry changes no chain.
LEMMA SameChains ==
    ASSUME ChainInv, Linked' = Linked, work_q' = work_q, \A i \in Linked : next'[i] = next[i]
    PROVE  /\ ChainInv'
           /\ \A t \in Threads : InQueue(t)' = InQueue(t)
           /\ \A h \in OrNull(Linked) : Chain(next', h) = Chain(next, h)
<1>1. \A t : InQueue(t)' = InQueue(t)
  BY DEF InQueue, Queue
<1>2. ASSUME NEW h \in OrNull(Linked)
      PROVE  Chain(next', h) = Chain(next, h)
  <2>1. h \in Items => h \in Linked
    BY LinkedClosed DEF OrNull
  <2>2. QED
    BY <2>1, LinkedClosed, ChainFrame
<1>3. ASSUME NEW i \in Linked
      PROVE  next'[i] \in OrNull(InQueue(Queue(i))) /\ i \notin Chain(next', next'[i])
  <2>1. next[i] \in OrNull(InQueue(Queue(i))) /\ i \notin Chain(next, next[i])
    BY DEF ChainInv
  <2>2. next[i] \in OrNull(Linked)
    BY <2>1 DEF OrNull, InQueue
  <2>3. QED
    BY <1>2, <2>1, <2>2
<1>4. ASSUME NEW t \in Threads
      PROVE  work_q[t] \in OrNull(InQueue(t)) /\ InQueue(t) \subseteq Chain(next', work_q[t])
  <2>1. work_q[t] \in OrNull(InQueue(t)) /\ InQueue(t) \subseteq Chain(next, work_q[t])
    BY DEF ChainInv
  <2>2. work_q[t] \in OrNull(Linked)
    BY <2>1 DEF OrNull, InQueue
  <2>3. QED
    BY <1>2, <2>1, <2>2
<1>5. ChainInv'
  BY <1>1, <1>3, <1>4 DEF ChainInv, OrNull, Queue
<1>6. QED
  BY <1>1, <1>2, <1>5

-----------------------------------------------------------------------------
(* The first state *)

LEMMA InitIInv == Init => IInv
<1> SUFFICES ASSUME Init PROVE IInv
  OBVIOUS
<1>1. TypeOK
  BY ProcessorsAssumption, MaxPassAssumption DEF Init, TypeOK, Entries, Threads
<1>2. Linked = {} /\ \A t \in Threads : InQueue(t) = {}
  BY DEF Init, Linked, InQueue
<1>3. PendingInv /\ QueuedInv
  BY DEF Init, PendingInv, Pending, QueuedInv
<1>4. ChainInv
  BY <1>2 DEF Init, ChainInv, OrNull
<1>5. GivenInv /\ DrainInv
  BY DEF Init, GivenInv, DrainInv
<1>6. QED
  BY <1>1, <1>3, <1>4, <1>5 DEF IInv

-----------------------------------------------------------------------------
(* The steps *)

LEMMA TypeStep ==
    ASSUME IInv, [Next]_vars
    PROVE  TypeOK'
<1>0. TypeOK
  BY DEF IInv
<1> USE <1>0 DEF TypeOK, shared, locals
<1>1. ASSUME NEW t \in Threads, NEW id \in Items, Claim(t, id) PROVE TypeOK'
  BY <1>1 DEF Claim, Entries
<1>2. ASSUME NEW t \in Threads, Link(t) PROVE TypeOK'
  <2>1. itm[t] \in Items
    BY <1>2 DEF Link, IInv, PendingInv, Claimed, Pending
  <2>2. work_q[Queue(itm[t])] \in Entries
    BY <2>1, QueueType
  <2>3. QED
    BY <1>2, <2>2 DEF Link
<1>3. ASSUME NEW t \in Threads, Push(t) PROVE TypeOK'
  BY <1>3 DEF Push
<1>4. ASSUME NEW t \in Threads, EndFill(t) \/ PrepDq(t) PROVE TypeOK'
  BY <1>4 DEF EndFill, PrepDq
<1>5. ASSUME NEW t \in Threads, Avail(t) PROVE TypeOK'
  <2>1. (steal[t] + 1) % Processors \in Threads
    <3>1. steal[t] \in Threads
      OBVIOUS
    <3>2. QED
      BY <3>1, NextQueue, ProcessorsAssumption DEF Threads
  <2>2. QED
    BY <1>5, <2>1 DEF Avail
<1>6. ASSUME NEW t \in Threads, ReadNext(t) PROVE TypeOK'
  <2>1. itm[t] \in Items
    BY <1>6 DEF ReadNext, IInv, DrainInv, InQueue, Linked
  <2>2. QED
    BY <1>6, <2>1 DEF ReadNext
<1>7. ASSUME NEW t \in Threads, Pop(t) PROVE TypeOK'
  BY <1>7 DEF Pop
<1>8. ASSUME NEW t \in Threads, Done(t) PROVE TypeOK'
  BY <1>8 DEF Done, Entries
<1>9. ASSUME Go PROVE TypeOK'
  BY <1>9, MaxPassAssumption DEF Go, Follows
<1>10. CASE UNCHANGED vars
  BY <1>10 DEF vars
<1>11. QED
  BY <1>1, <1>2, <1>3, <1>4, <1>5, <1>6, <1>7, <1>8, <1>9, <1>10 DEF Next, ThreadStep

\* Claiming an entry that is marked changes nothing but the history; an entry that
\* is free is in no chain, and becomes the thread's own.
LEMMA ClaimIInv ==
    ASSUME IInv, TypeOK', NEW t \in Threads, NEW id \in Items, Claim(t, id)
    PROVE  IInv'
<1> USE DEF IInv
<1>1. /\ phase = "fill" /\ phase' = "fill" /\ pc[t] = "idle" /\ queued' = queued \cup {id}
      /\ UNCHANGED <<work_q, visible, prev, steal, given>>
  BY DEF Claim
<1>2. CASE next[id] # id
  <2>1. next' = next /\ itm' = itm /\ pc' = pc
    BY <1>2 DEF Claim
  <2>2. Linked' = Linked
    BY <2>1 DEF Linked, Pending
  <2>3. ChainInv' /\ \A u \in Threads : InQueue(u)' = InQueue(u)
    BY <1>1, <2>1, <2>2, SameChains
  <2>4. PendingInv'
    <3>1. ASSUME NEW u \in Threads, Pending(u)
          PROVE  itm[u] \in Items /\ InQueue(Queue(itm[u]))' = InQueue(Queue(itm[u]))
      BY <2>1, <2>3, <3>1, QueueType DEF PendingInv, Claimed
    <3>2. QED
      BY <1>1, <2>1, <3>1 DEF PendingInv, Claimed, Pending, OrNull
  <2>5. QueuedInv'
    BY <1>1, <1>2, <2>1 DEF QueuedInv
  <2>6. GivenInv' /\ DrainInv'
    BY <1>1, <2>1, <2>3 DEF GivenInv, DrainInv
  <2>7. QED
    BY <2>3, <2>4, <2>5, <2>6
<1>3. CASE next[id] = id
  <2>1. /\ next' = [next EXCEPT ![id] = NULL] /\ itm' = [itm EXCEPT ![t] = id]
        /\ pc' = [pc EXCEPT ![t] = "link"] /\ NULL # id
    BY <1>3, NullAssumption DEF Claim
  <2>2. \A u \in Threads : Pending(u)' <=> (u = t \/ Pending(u))
    BY <2>1 DEF Pending, TypeOK
  <2>3. /\ \A u \in Threads \ {t} : itm'[u] = itm[u] /\ pc'[u] = pc[u]
        /\ itm'[t] = id /\ ~Pending(t)
        /\ \A i \in Items \ {id} : next'[i] = next[i]
        /\ next'[id] = NULL
    BY <1>1, <2>1 DEF TypeOK, Pending
  <2>4. \A u \in Threads : Pending(u) => itm[u] \in Items \ {id}
    BY <1>3 DEF PendingInv, Claimed
  <2>5. Linked' = Linked
    <3>1. ASSUME NEW i \in Items PROVE i \in Linked' <=> i \in Linked
      <4>1. CASE i = id
        BY <1>3, <2>2, <2>3, <4>1 DEF Linked
      <4>2. CASE i # id
        BY <2>2, <2>3, <4>2 DEF Linked
      <4>3. QED
        BY <4>1, <4>2
    <3>2. QED
      BY <3>1 DEF Linked
  <2>6. id \notin Linked
    BY <1>3 DEF Linked
  <2>7. ChainInv' /\ \A u \in Threads : InQueue(u)' = InQueue(u)
    <3>1. \A i \in Linked : next'[i] = next[i]
      BY <2>3, <2>6 DEF Linked
    <3>2. QED
      BY <1>1, <2>5, <3>1, SameChains
  <2>8. PendingInv'
    <3>1. ASSUME NEW u \in Threads, Pending(u)'
          PROVE  Claimed(u)'
      <4>1. CASE u = t
        BY <1>1, <2>1, <2>2, <2>3, <2>4, <4>1 DEF TypeOK, Claimed
      <4>2. CASE u # t
        <5>1. Pending(u) /\ itm'[u] = itm[u] /\ pc'[u] = pc[u] /\ itm[u] \in Items \ {id}
          BY <2>2, <2>3, <2>4, <3>1, <4>2
        <5>2. next'[itm[u]] = next[itm[u]] /\ Queue(itm[u]) \in Threads
          BY <2>3, <5>1, QueueType
        <5>3. \A w \in Threads \ {u} : Pending(w)' => itm'[w] # itm'[u]
          BY <2>2, <2>3, <5>1 DEF PendingInv, Claimed
        <5>4. InQueue(Queue(itm[u]))' = InQueue(Queue(itm[u]))
          BY <2>7, <5>1, <5>2
        <5>5. QED
          BY <1>1, <5>1, <5>2, <5>3, <5>4 DEF PendingInv, Claimed, OrNull
      <4>3. QED
        BY <4>1, <4>2
    <3>2. QED
      BY <3>1 DEF PendingInv
  <2>9. QueuedInv'
    BY <1>1, <2>1, <2>3 DEF QueuedInv
  <2>10. GivenInv' /\ DrainInv'
    BY <1>1, <2>1, <2>3 DEF GivenInv, DrainInv
  <2>11. QED
    BY <2>7, <2>8, <2>9, <2>10
<1>4. QED
  BY <1>2, <1>3

\* A claimed entry may point anywhere: it is in no chain yet.
LEMMA LinkIInv ==
    ASSUME IInv, TypeOK', NEW t \in Threads, Link(t)
    PROVE  IInv'
<1> USE DEF IInv
<1> DEFINE x == itm[t]
           head == work_q[Queue(x)]
<1>1. /\ pc[t] = "link" /\ prev' = [prev EXCEPT ![t] = head] /\ next' = [next EXCEPT ![x] = head]
      /\ pc' = [pc EXCEPT ![t] = "push"]
      /\ UNCHANGED <<work_q, visible, phase, itm, steal, queued, given>>
  BY DEF Link
<1>2. /\ phase = "fill" /\ x \in Items /\ next[x] # x /\ x \notin Linked
      /\ \A u \in Threads \ {t} : Pending(u) => itm[u] # x
  BY <1>1 DEF PendingInv, Claimed, Pending, Linked
<1>3. Queue(x) \in Threads /\ head \in OrNull(InQueue(Queue(x))) /\ head # x
  <2>1. Queue(x) \in Threads
    BY <1>2, QueueType
  <2>2. head \in OrNull(InQueue(Queue(x)))
    BY <2>1 DEF ChainInv
  <2>3. QED
    BY <1>2, <2>1, <2>2, NullAssumption DEF OrNull, InQueue
<1> HIDE DEF x, head
<1>4. \A u \in Threads : Pending(u)' <=> Pending(u)
  BY <1>1 DEF Pending, TypeOK
<1>5. \A i \in Items : next'[i] = IF i = x THEN head ELSE next[i]
  BY <1>1 DEF TypeOK
<1>6. Linked' = Linked
  BY <1>1, <1>2, <1>3, <1>4, <1>5 DEF Linked
<1>7. ChainInv' /\ \A u \in Threads : InQueue(u)' = InQueue(u)
  <2>1. \A i \in Linked : next'[i] = next[i]
    BY <1>2, <1>5 DEF Linked
  <2>2. QED
    BY <1>1, <1>6, <2>1, SameChains
<1>8. PendingInv'
  <2>1. ASSUME NEW u \in Threads, Pending(u)
        PROVE  /\ itm[u] \in Items /\ next'[itm[u]] # itm[u]
               /\ pc'[u] = "push" => /\ prev'[u] = next'[itm[u]]
                                     /\ prev'[u] \in OrNull(InQueue(Queue(itm[u])))'
    <3>1. itm[u] \in Items /\ Queue(itm[u]) \in Threads
      BY <2>1, QueueType DEF PendingInv, Claimed
    <3>2. InQueue(Queue(itm[u]))' = InQueue(Queue(itm[u]))
      BY <1>7, <3>1, <1>1 DEF Queue
    <3>3. CASE u = t
      <4>1. itm[u] = x /\ prev'[u] = head
        BY <1>1, <3>3 DEF x, TypeOK
      <4>2. QED
        BY <1>2, <1>3, <1>5, <3>2, <4>1 DEF OrNull
    <3>4. CASE u # t
      <4>1. prev'[u] = prev[u] /\ pc'[u] = pc[u] /\ next'[itm[u]] = next[itm[u]]
        BY <1>1, <1>2, <1>5, <2>1, <3>1, <3>4 DEF TypeOK
      <4>2. QED
        BY <2>1, <3>1, <3>2, <4>1 DEF PendingInv, Claimed, OrNull
    <3>5. QED
      BY <3>3, <3>4
  <2>2. QED
    BY <1>1, <1>2, <1>4, <2>1 DEF PendingInv, Claimed
<1>9. QueuedInv'
  BY <1>1, <1>2, <1>3, <1>5 DEF QueuedInv
<1>10. GivenInv' /\ DrainInv'
  BY <1>1, <1>2 DEF GivenInv, DrainInv, TypeOK
<1>11. QED
  BY <1>7, <1>8, <1>9, <1>10

\* A push that succeeds puts the entry on top of the chain it was linked to.
LEMMA PushIInv ==
    ASSUME IInv, TypeOK', NEW t \in Threads, Push(t)
    PROVE  IInv'
<1> USE DEF IInv
<1> DEFINE x == itm[t]
           q == Queue(x)
<1>1. pc[t] = "push" /\ UNCHANGED <<next, visible, phase, itm, prev, steal, queued, given>>
  BY DEF Push
<1>2. /\ phase = "fill" /\ x \in Items /\ next[x] # x /\ x \notin Linked /\ q \in Threads
      /\ \A u \in Threads \ {t} : Pending(u) => itm[u] # x
      /\ prev[t] = next[x] /\ prev[t] \in OrNull(InQueue(q))
  BY <1>1, QueueType DEF PendingInv, Claimed, Pending, Linked
<1>3. QueuedInv' /\ GivenInv'
  BY <1>1, <1>2 DEF QueuedInv, GivenInv
<1>4. DrainInv'
  <2>1. pc' \in [Threads -> {"idle", "link", "push", "next", "pop", "barrier"}]
        /\ \A u \in Threads : pc'[u] = pc[u] \/ pc'[u] \in {"idle", "link"}
    BY DEF Push, TypeOK
  <2>2. QED
    BY <1>1, <1>2, <2>1 DEF DrainInv
<1>5. CASE work_q[q] # prev[t]
  <2>1. work_q' = work_q /\ pc' = [pc EXCEPT ![t] = "link"]
    BY <1>5 DEF Push
  <2>2. \A u \in Threads : (Pending(u)' <=> Pending(u)) /\ (pc'[u] = "push" => pc[u] = "push")
    BY <1>1, <2>1 DEF Pending, TypeOK
  <2>3. Linked' = Linked
    BY <1>1, <2>2 DEF Linked
  <2>4. ChainInv' /\ \A u \in Threads : InQueue(u)' = InQueue(u)
    BY <1>1, <2>1, <2>3, SameChains
  <2>5. PendingInv'
    <3>1. ASSUME NEW u \in Threads, Pending(u)
          PROVE  InQueue(Queue(itm[u]))' = InQueue(Queue(itm[u]))
      BY <1>1, <2>4, <3>1, QueueType DEF PendingInv, Claimed
    <3>2. QED
      BY <1>1, <2>2, <3>1 DEF PendingInv, Claimed, OrNull
  <2>6. QED
    BY <1>3, <1>4, <2>4, <2>5
<1>6. CASE work_q[q] = prev[t]
  <2> HIDE DEF x, q
  <2>1. work_q' = [work_q EXCEPT ![q] = x] /\ pc' = [pc EXCEPT ![t] = "idle"]
    BY <1>6 DEF Push, x, q
  <2>2. /\ \A u \in Threads : Pending(u)' <=> (u # t /\ Pending(u))
        /\ \A u \in Threads \ {t} : pc'[u] = pc[u]
    BY <1>1, <2>1 DEF Pending, TypeOK
  <2>3. Linked' = Linked \cup {x}
    <3>1. ASSUME NEW i \in Items PROVE i \in Linked' <=> i \in Linked \cup {x}
      <4>1. CASE i = x
        BY <1>1, <1>2, <2>2, <4>1 DEF Linked
      <4>2. CASE i # x
        BY <1>1, <2>2, <4>2 DEF Linked, x
      <4>3. QED
        BY <4>1, <4>2
    <3>2. Linked' \in SUBSET Items /\ Linked \in SUBSET Items
      BY DEF Linked
    <3>3. QED
      BY <1>2, <3>1, <3>2
  <2>4. \A u : InQueue(u)' = IF u = q THEN InQueue(u) \cup {x} ELSE InQueue(u)
    BY <2>3 DEF InQueue, q, Queue
  <2>5. Chain(next, x) = {x} \cup Chain(next, work_q[q])
    BY <1>2, <1>6, ChainUnfold DEF TypeOK
  <2>6. Chain(next, work_q[q]) = InQueue(q)
    BY <1>2, ChainIsQueue
  <2>7. ASSUME NEW i \in Linked'
        PROVE  (next[i] \in OrNull(InQueue(Queue(i))))' /\ i \notin Chain(next', next'[i])
    <3>1. CASE i = x
      BY <1>1, <1>2, <1>6, <2>4, <2>6, <3>1 DEF OrNull, InQueue, q
    <3>2. CASE i # x
      <4>1. i \in Linked
        BY <2>3, <3>2
      <4>2. next[i] \in OrNull(InQueue(Queue(i))) /\ i \notin Chain(next, next[i])
        BY <4>1 DEF ChainInv
      <4>3. QED
        BY <1>1, <2>4, <4>2 DEF OrNull, Queue
    <3>3. QED
      BY <3>1, <3>2
  <2>8. ASSUME NEW u \in Threads
        PROVE  (work_q[u] \in OrNull(InQueue(u)))' /\ InQueue(u)' \subseteq Chain(next', work_q'[u])
    <3>1. CASE u = q
      <4>1. work_q'[u] = x
        BY <1>2, <2>1, <3>1 DEF TypeOK
      <4>2. QED
        BY <1>1, <2>4, <2>5, <2>6, <3>1, <4>1 DEF OrNull
    <3>2. CASE u # q
      <4>1. work_q'[u] = work_q[u] /\ InQueue(u)' = InQueue(u)
        BY <2>1, <2>4, <3>2 DEF TypeOK
      <4>2. QED
        BY <1>1, <4>1 DEF ChainInv, OrNull
    <3>3. QED
      BY <3>1, <3>2
  <2>9. ChainInv'
    BY <2>7, <2>8 DEF ChainInv
  <2>10. PendingInv'
    <3>1. ASSUME NEW u \in Threads, Pending(u)'
          PROVE  Claimed(u)'
      <4>1. u # t /\ Pending(u) /\ pc'[u] = pc[u] /\ Claimed(u)
        BY <2>2, <3>1 DEF PendingInv
      <4>2. InQueue(Queue(itm[u])) \subseteq InQueue(Queue(itm[u]))'
        BY <1>1, <2>4
      <4>3. QED
        BY <1>1, <2>2, <4>1, <4>2 DEF Claimed, OrNull
    <3>2. QED
      BY <3>1 DEF PendingInv
  <2>11. QED
    BY <1>3, <1>4, <2>9, <2>10
<1>7. QED
  BY <1>5, <1>6

\* A step that touches neither chains nor heads, of a thread that owns no entry
\* before or after it.
LEMMA QuietStep ==
    ASSUME IInv, UNCHANGED <<next, work_q, phase>>,
           \A u \in Threads : \/ pc'[u] = pc[u] /\ itm'[u] = itm[u] /\ prev'[u] = prev[u]
                              \/ ~Pending(u) /\ ~Pending(u)'
    PROVE  /\ PendingInv' /\ ChainInv' /\ Linked' = Linked
           /\ \A u \in Threads : InQueue(u)' = InQueue(u)
<1> USE DEF IInv
<1>1. \A u \in Threads : /\ Pending(u)' <=> Pending(u)
                         /\ Pending(u) => /\ itm'[u] = itm[u] /\ prev'[u] = prev[u]
                                          /\ pc'[u] = pc[u]
  BY DEF Pending
<1>2. Linked' = Linked
  BY <1>1 DEF Linked
<1>3. ChainInv' /\ \A u \in Threads : InQueue(u)' = InQueue(u)
  BY <1>2, SameChains
<1>4. PendingInv'
  <2>1. ASSUME NEW u \in Threads, Pending(u)'
        PROVE  Claimed(u)'
    <3>1. Pending(u) /\ Claimed(u) /\ Queue(itm[u]) \in Threads
      BY <1>1, <2>1, QueueType DEF PendingInv, Claimed
    <3>2. InQueue(Queue(itm[u]))' = InQueue(Queue(itm[u]))
      BY <1>1, <1>3, <3>1
    <3>3. QED
      BY <1>1, <3>1, <3>2 DEF Claimed, OrNull
  <2>2. QED
    BY <2>1 DEF PendingInv
<1>5. QED
  BY <1>2, <1>3, <1>4

LEMMA EndFillIInv ==
    ASSUME IInv, TypeOK', NEW t \in Threads, EndFill(t)
    PROVE  IInv'
<1> USE DEF IInv
<1>1. /\ phase = "fill" /\ pc[t] = "idle" /\ pc' = [pc EXCEPT ![t] = "barrier"]
      /\ UNCHANGED <<next, work_q, visible, phase, itm, prev, steal, queued, given>>
  BY DEF EndFill, shared
<1>2. PendingInv' /\ ChainInv'
  BY <1>1, QuietStep DEF Pending, TypeOK
<1>3. QueuedInv' /\ GivenInv'
  BY <1>1 DEF QueuedInv, GivenInv
<1>4. DrainInv'
  BY <1>1 DEF DrainInv, TypeOK
<1>5. QED
  BY <1>2, <1>3, <1>4

LEMMA PrepDqIInv ==
    ASSUME IInv, TypeOK', NEW t \in Threads, PrepDq(t)
    PROVE  IInv'
<1> USE DEF IInv
<1>1. /\ phase = "prep" /\ pc[t] = "idle" /\ pc' = [pc EXCEPT ![t] = "barrier"]
      /\ visible' = [visible EXCEPT ![t] = work_q[t]]
      /\ UNCHANGED <<next, work_q, phase, itm, prev, steal, queued, given>>
  BY DEF PrepDq
<1>2. PendingInv' /\ ChainInv'
  BY <1>1, QuietStep DEF Pending, TypeOK
<1>3. QueuedInv' /\ GivenInv'
  BY <1>1 DEF QueuedInv, GivenInv, TypeOK
<1>4. DrainInv'
  BY <1>1 DEF DrainInv, TypeOK
<1>5. QED
  BY <1>2, <1>3, <1>4

\* A thread finds a head, or goes on to the next queue; back at its own one it has
\* seen all queues empty.
LEMMA AvailIInv ==
    ASSUME IInv, TypeOK', NEW t \in Threads, Avail(t)
    PROVE  IInv'
<1> USE DEF IInv
<1> DEFINE q == steal[t]
           s == (q + 1) % Processors
<1>1. /\ phase = "drain" /\ pc[t] = "idle" /\ q \in Threads
      /\ UNCHANGED <<next, work_q, visible, phase, prev, queued, given>>
  BY DEF Avail, shared, TypeOK
<1>2. /\ \A u \in Threads \ {t} : pc'[u] = pc[u] /\ itm'[u] = itm[u] /\ steal'[u] = steal[u]
      /\ pc'[t] \in {"next", "idle", "barrier"}
  BY DEF Avail, TypeOK
<1>3. PendingInv' /\ ChainInv' /\ Linked' = Linked /\ \A u \in Threads : InQueue(u)' = InQueue(u)
  BY <1>1, <1>2, QuietStep DEF Pending
<1>4. QueuedInv' /\ GivenInv'
  BY <1>1, <1>3 DEF QueuedInv, GivenInv, OrNull
<1>5. CASE visible[q] # NULL
  <2>1. /\ itm' = [itm EXCEPT ![t] = visible[q]] /\ pc' = [pc EXCEPT ![t] = "next"]
        /\ steal' = steal
    BY <1>5 DEF Avail
  <2>2. visible[q] \in InQueue(q)
    BY <1>1, <1>5 DEF GivenInv, OrNull
  <2>3. DrainInv'
    <3>1. ASSUME NEW u \in Threads
          PROVE  /\ pc'[u] \in {"next", "pop"} => itm'[u] \in InQueue(steal[u])'
                 /\ pc'[u] = "pop" => prev'[u] = next'[itm'[u]]
                 /\ pc'[u] = "barrier" => steal'[u] = u
                 /\ \A p \in Passed(u)' : visible'[p] = NULL
                 /\ pc'[u] = "barrier" => \A p \in Threads : visible'[p] = NULL
      <4>1. steal[u] \in Threads /\ InQueue(steal[u])' = InQueue(steal[u]) /\ Passed(u)' = Passed(u)
        BY <1>3, <2>1 DEF TypeOK, Passed
      <4>2. CASE u = t
        BY <1>1, <2>1, <2>2, <4>1, <4>2 DEF DrainInv, TypeOK
      <4>3. CASE u # t
        BY <1>1, <1>2, <2>1, <4>1, <4>3 DEF DrainInv
      <4>4. QED
        BY <4>2, <4>3
    <3>2. QED
      BY <1>1, <3>1 DEF DrainInv
  <2>4. QED
    BY <1>3, <1>4, <2>3
<1>6. CASE visible[q] = NULL
  <2>1. /\ steal' = [steal EXCEPT ![t] = s] /\ itm' = itm
        /\ pc' = [pc EXCEPT ![t] = IF s = t THEN "barrier" ELSE "idle"]
    BY <1>6 DEF Avail
  <2>2. s = IF q + 1 = Processors THEN 0 ELSE q + 1
    BY <1>1, NextQueue
  <2> HIDE DEF s
  <2>3. steal'[t] = s /\ pc'[t] = IF s = t THEN "barrier" ELSE "idle"
    BY <2>1 DEF TypeOK
  <2>4. \A p \in Passed(t) \cup {q} : visible[p] = NULL
    BY <1>1, <1>6 DEF DrainInv
  <2>5. Processors \in Nat \ {0} /\ t \in 0..Processors - 1 /\ q \in 0..Processors - 1
    BY <1>1, ProcessorsAssumption DEF Threads
  <2>6. Passed(t)' \subseteq Passed(t) \cup {q}
    <3>1. ASSUME NEW p \in Threads, IF t <= s THEN t <= p /\ p < s ELSE t <= p \/ p < s
          PROVE  p = q \/ IF t <= q THEN t <= p /\ p < q ELSE t <= p \/ p < q
      <4> HIDE DEF q
      <4>1. p \in 0..Processors - 1
        BY DEF Threads
      <4>2. QED
        BY <2>2, <2>5, <3>1, <4>1
    <3>2. QED
      BY <2>3, <3>1 DEF Passed
  <2>7. s = t => Threads \subseteq Passed(t) \cup {q}
    <3>1. ASSUME NEW p \in Threads, s = t
          PROVE  p = q \/ IF t <= q THEN t <= p /\ p < q ELSE t <= p \/ p < q
      <4> HIDE DEF q
      <4>1. p \in 0..Processors - 1
        BY DEF Threads
      <4>2. QED
        BY <2>2, <2>5, <3>1, <4>1
    <3>2. QED
      BY <3>1 DEF Passed
  <2>8. DrainInv'
    <3>1. ASSUME NEW u \in Threads
          PROVE  /\ pc'[u] \in {"next", "pop"} => itm'[u] \in InQueue(steal[u])'
                 /\ pc'[u] = "pop" => prev'[u] = next'[itm'[u]]
                 /\ pc'[u] = "barrier" => steal'[u] = u
                 /\ \A p \in Passed(u)' : visible'[p] = NULL
                 /\ pc'[u] = "barrier" => \A p \in Threads : visible'[p] = NULL
      <4>1. CASE u = t
        BY <1>1, <2>3, <2>4, <2>6, <2>7, <4>1
      <4>2. CASE u # t
        <5>1. steal'[u] = steal[u] /\ steal[u] \in Threads /\ Passed(u)' = Passed(u)
          BY <1>2, <4>2 DEF TypeOK, Passed
        <5>2. InQueue(steal[u])' = InQueue(steal[u])
          BY <1>3, <5>1
        <5>3. QED
          BY <1>1, <1>2, <4>2, <5>1, <5>2 DEF DrainInv
      <4>3. QED
        BY <4>1, <4>2
    <3>2. QED
      BY <1>1, <3>1 DEF DrainInv
  <2>9. QED
    BY <1>3, <1>4, <2>8
<1>7. QED
  BY <1>5, <1>6

LEMMA ReadNextIInv ==
    ASSUME IInv, TypeOK', NEW t \in Threads, ReadNext(t)
    PROVE  IInv'
<1> USE DEF IInv
<1>1. /\ pc[t] = "next" /\ pc' = [pc EXCEPT ![t] = "pop"] /\ prev' = [prev EXCEPT ![t] = next[itm[t]]]
      /\ UNCHANGED <<next, work_q, visible, phase, itm, steal, queued, given>>
  BY DEF ReadNext, shared
<1>2. phase = "drain"
  BY <1>1 DEF DrainInv
<1>3. PendingInv' /\ ChainInv' /\ Linked' = Linked /\ \A u \in Threads : InQueue(u)' = InQueue(u)
  BY <1>1, QuietStep DEF Pending, TypeOK
<1>4. QueuedInv' /\ GivenInv'
  BY <1>1, <1>2, <1>3 DEF QueuedInv, GivenInv, OrNull
<1>5. DrainInv'
  <2>1. ASSUME NEW u \in Threads
        PROVE  InQueue(steal[u])' = InQueue(steal[u]) /\ Passed(u)' = Passed(u)
    BY <1>1, <1>3 DEF TypeOK, Passed
  <2>2. \A u \in Threads : /\ pc'[u] = IF u = t THEN "pop" ELSE pc[u]
                           /\ prev'[u] = IF u = t THEN next[itm[t]] ELSE prev[u]
    BY <1>1 DEF TypeOK
  <2>3. QED
    BY <1>1, <1>2, <2>1, <2>2 DEF DrainInv
<1>6. QED
  BY <1>3, <1>4, <1>5

\* A pop that succeeds takes the head off: it is above everything that is left, so
\* it had not been given out before.
LEMMA PopIInv ==
    ASSUME IInv, TypeOK', NEW t \in Threads, Pop(t)
    PROVE  IInv'
<1> USE DEF IInv
<1> DEFINE q == steal[t]
           x == itm[t]
<1>1. /\ pc[t] = "pop" /\ pc' = [pc EXCEPT ![t] = "idle"]
      /\ UNCHANGED <<next, work_q, phase, itm, prev, queued>>
  BY DEF Pop
<1>2. phase = "drain" /\ q \in Threads /\ x \in InQueue(q) /\ x \in Items /\ prev[t] = next[x]
  BY <1>1 DEF DrainInv, TypeOK, InQueue, Linked
<1>3. PendingInv' /\ ChainInv' /\ Linked' = Linked /\ \A u \in Threads : InQueue(u)' = InQueue(u)
  BY <1>1, QuietStep DEF Pending, TypeOK
<1>4. QueuedInv'
  BY <1>1, <1>2 DEF QueuedInv
<1>5. CASE visible[q] # x
  <2>1. UNCHANGED <<visible, given, steal>>
    BY <1>5 DEF Pop
  <2>2. GivenInv'
    BY <1>1, <1>2, <1>3, <2>1 DEF GivenInv, OrNull
  <2>3. DrainInv'
    <3>1. ASSUME NEW u \in Threads
          PROVE  InQueue(steal[u])' = InQueue(steal[u]) /\ Passed(u)' = Passed(u)
      BY <1>3, <2>1 DEF TypeOK, Passed
    <3>2. \A u \in Threads : pc'[u] = IF u = t THEN "idle" ELSE pc[u]
      BY <1>1 DEF TypeOK
    <3>3. QED
      BY <1>1, <1>2, <2>1, <3>1, <3>2 DEF DrainInv
  <2>4. QED
    BY <1>3, <1>4, <2>2, <2>3
<1>6. CASE visible[q] = x
  <2>1. /\ visible' = [visible EXCEPT ![q] = next[x]] /\ given' = [given EXCEPT ![x] = @ + 1]
        /\ steal' = [steal EXCEPT ![t] = t]
    BY <1>2, <1>6 DEF Pop
  <2> HIDE DEF x, q
  <2>2. /\ Chain(next, x) = {x} \cup Chain(next, next[x])
        /\ x \in Linked /\ x \notin Chain(next, next[x]) /\ next[x] \in OrNull(InQueue(q))
        /\ Queue(x) = q
    <3>1. x \in Linked /\ Queue(x) = q
      BY <1>2 DEF InQueue
    <3>2. Chain(next, x) = {x} \cup Chain(next, next[x])
      BY <1>2, ChainUnfold DEF TypeOK
    <3>3. QED
      BY <3>1, <3>2 DEF ChainInv
  <2>3. /\ visible'[q] = next[x] /\ \A u \in Threads \ {q} : visible'[u] = visible[u]
        /\ given'[x] = given[x] + 1 /\ \A i \in Items \ {x} : given'[i] = given[i]
        /\ steal'[t] = t /\ \A u \in Threads \ {t} : steal'[u] = steal[u]
    BY <1>2, <2>1 DEF TypeOK
  <2>4. given[x] = 0
    BY <1>2, <1>6, <2>2 DEF GivenInv
  <2>5. ASSUME NEW i \in Items
        PROVE  given'[i] \in {0, 1}
               /\ (given'[i] = 1 <=> i \in Linked /\ i \notin Chain(next, visible'[Queue(i)]))
    <3>1. CASE i = x
      BY <2>2, <2>3, <2>4, <3>1
    <3>2. CASE i # x /\ Queue(i) = q
      <4>1. i \in Chain(next, visible[q]) <=> i \in Chain(next, visible'[q])
        BY <1>6, <2>2, <2>3, <3>2
      <4>2. QED
        BY <1>2, <2>3, <3>2, <4>1 DEF GivenInv
    <3>3. CASE Queue(i) # q
      <4>1. visible'[Queue(i)] = visible[Queue(i)] /\ given'[i] = given[i]
        BY <2>2, <2>3, <3>3, QueueType
      <4>2. QED
        BY <1>2, <4>1 DEF GivenInv
    <3>4. QED
      BY <3>1, <3>2, <3>3
  <2>6. GivenInv'
    <3>1. \A u \in Threads : (visible[u] \in OrNull(InQueue(u)))'
      BY <1>2, <1>3, <2>2, <2>3 DEF GivenInv, OrNull
    <3>2. QED
      BY <1>1, <1>2, <1>3, <2>5, <3>1 DEF GivenInv, Queue
  <2>7. DrainInv'
    <3>1. ASSUME NEW u \in Threads
          PROVE  /\ pc'[u] \in {"next", "pop"} => itm'[u] \in InQueue(steal[u])'
                 /\ pc'[u] = "pop" => prev'[u] = next'[itm'[u]]
                 /\ pc'[u] = "barrier" => steal'[u] = u
                 /\ \A p \in Passed(u)' : visible'[p] = NULL
                 /\ pc'[u] = "barrier" => \A p \in Threads : visible'[p] = NULL
      <4>1. visible[q] # NULL
        BY <1>2, <1>6, NullAssumption
      <4>2. CASE u = t
        <5>1. Passed(u)' = {}
          BY <2>3, <4>2, ProcessorsAssumption DEF Passed, Threads
        <5>2. pc'[u] = "idle"
          BY <1>1, <4>2 DEF TypeOK
        <5>3. QED
          BY <5>1, <5>2
      <4>3. CASE u # t
        <5>1. /\ pc'[u] = pc[u] /\ steal'[u] = steal[u] /\ steal[u] \in Threads
              /\ Passed(u)' = Passed(u) /\ Passed(u) \subseteq Threads
          BY <1>1, <2>3, <4>3 DEF TypeOK, Passed
        <5>2. InQueue(steal[u])' = InQueue(steal[u])
          BY <1>3, <5>1
        <5>3. \A p \in Passed(u) : p # q /\ visible'[p] = NULL
          BY <1>2, <2>3, <4>1, <5>1 DEF DrainInv
        <5>4. pc[u] # "barrier"
          BY <1>2, <4>1 DEF DrainInv
        <5>5. QED
          BY <1>1, <5>1, <5>2, <5>3, <5>4 DEF DrainInv
      <4>4. QED
        BY <4>2, <4>3
    <3>2. QED
      BY <1>1, <1>2, <3>1 DEF DrainInv
  <2>8. QED
    BY <1>3, <1>4, <2>6, <2>7
<1>7. QED
  BY <1>5, <1>6

\* done() takes the queue's entries out of the chain, all of them, and the other
\* queues do not notice.
LEMMA DoneIInv ==
    ASSUME IInv, TypeOK', NEW t \in Threads, Done(t)
    PROVE  IInv'
<1> USE DEF IInv
<1>1. /\ phase = "done" /\ pc[t] = "idle" /\ pc' = [pc EXCEPT ![t] = "barrier"]
      /\ next' = [i \in Items |-> IF i \in Chain(next, work_q[t]) THEN i ELSE next[i]]
      /\ work_q' = [work_q EXCEPT ![t] = NULL] /\ visible' = [visible EXCEPT ![t] = NULL]
      /\ UNCHANGED <<phase, itm, prev, steal, queued, given>>
  BY DEF Done
<1>2. Chain(next, work_q[t]) = InQueue(t)
  BY ChainIsQueue
<1>3. \A u \in Threads : ~Pending(u) /\ ~Pending(u)'
  <2>1. \A u \in Threads : ~Pending(u)
    BY <1>1 DEF PendingInv, Claimed
  <2>2. QED
    BY <1>1, <2>1 DEF Pending, TypeOK
<1>4. /\ \A i \in Linked : Queue(i) # t => next'[i] = next[i] /\ i \in Linked'
      /\ Linked' = {i \in Linked : Queue(i) # t}
  BY <1>1, <1>2, <1>3 DEF Linked, InQueue, Queue
<1>5. \A u : InQueue(u)' = IF u = t THEN {} ELSE InQueue(u)
  BY <1>4 DEF InQueue, Queue
<1>6. Closed(next, Linked') /\ Linked' \in SUBSET Items
  <2>1. \A i \in Linked' : next[i] \in OrNull(Linked')
    BY <1>4, <1>5 DEF ChainInv, InQueue, OrNull, Queue
  <2>2. Linked' \in SUBSET Items
    BY DEF Linked
  <2>3. QED
    BY <2>1, <2>2, NullAssumption DEF Closed, OrNull
<1>7. ASSUME NEW h \in OrNull(Linked')
      PROVE  Chain(next', h) = Chain(next, h)
  <2>1. h \in Items => h \in Linked'
    BY NullAssumption DEF OrNull
  <2>2. \A i \in Linked' : next[i] = next'[i]
    BY <1>4
  <2>3. QED
    BY <1>6, <2>1, <2>2, ChainFrame
<1>8. ASSUME NEW i \in Linked'
      PROVE  (next[i] \in OrNull(InQueue(Queue(i))))' /\ i \notin Chain(next', next'[i])
  <2>1. i \in Linked /\ Queue(i) # t /\ next'[i] = next[i]
    BY <1>4
  <2>2. next[i] \in OrNull(InQueue(Queue(i))) /\ i \notin Chain(next, next[i])
    BY <2>1 DEF ChainInv
  <2>3. (next[i] \in OrNull(InQueue(Queue(i))))'
    BY <1>5, <2>1, <2>2 DEF OrNull, Queue
  <2>4. next[i] \in OrNull(Linked')
    BY <2>1, <2>3 DEF OrNull, InQueue
  <2>5. QED
    BY <1>7, <2>1, <2>2, <2>3, <2>4
<1>9. ASSUME NEW u \in Threads
      PROVE  (work_q[u] \in OrNull(InQueue(u)))' /\ InQueue(u)' \subseteq Chain(next', work_q'[u])
  <2>1. CASE u = t
    BY <1>1, <1>5, <2>1 DEF OrNull, TypeOK
  <2>2. CASE u # t
    <3>1. work_q'[u] = work_q[u] /\ InQueue(u)' = InQueue(u)
      BY <1>1, <1>5, <2>2 DEF TypeOK
    <3>2. work_q[u] \in OrNull(InQueue(u)) /\ InQueue(u) \subseteq Chain(next, work_q[u])
      BY DEF ChainInv
    <3>3. work_q[u] \in OrNull(Linked')
      BY <3>1, <3>2 DEF OrNull, InQueue
    <3>4. QED
      BY <1>7, <3>1, <3>2, <3>3 DEF OrNull
  <2>3. QED
    BY <2>1, <2>2
<1>10. ChainInv'
  BY <1>8, <1>9 DEF ChainInv
<1>11. PendingInv' /\ QueuedInv' /\ GivenInv' /\ DrainInv'
  <2>1. \A u \in Threads : /\ pc'[u] = IF u = t THEN "barrier" ELSE pc[u]
                           /\ work_q'[u] = IF u = t THEN NULL ELSE work_q[u]
    BY <1>1 DEF TypeOK
  <2>2. PendingInv'
    BY <1>3 DEF PendingInv
  <2>3. QED
    BY <1>1, <2>1, <2>2 DEF QueuedInv, GivenInv, DrainInv
<1>12. QED
  BY <1>10, <1>11

\* Between the phases no thread owns an entry. A drain begins with whole queues, and
\* filling begins with empty ones.
LEMMA GoIInv ==
    ASSUME IInv, TypeOK', Go
    PROVE  IInv'
<1> USE DEF IInv
<1>1. /\ \A t \in Threads : pc[t] = "barrier" /\ pc'[t] = "idle"
      /\ UNCHANGED <<next, work_q, visible, itm, prev, steal>>
  BY DEF Go, AllAtBarrier, shared
<1>2. /\ \/ phase = "fill" /\ phase' = "prep"
         \/ phase = "prep" /\ phase' = "drain"
         \/ phase = "drain" /\ phase' \in {"prep", "done"}
         \/ phase = "done" /\ phase' = "fill"
      /\ queued' = IF phase' = "fill" THEN {} ELSE queued
      /\ given' = IF phase' \in {"prep", "fill"} THEN [i \in Items |-> 0] ELSE given
  <2>1. PICK p \in Follows(phase) :
           /\ phase' = p
           /\ queued' = IF p = "fill" THEN {} ELSE queued
           /\ given' = IF p \in {"prep", "fill"} THEN [i \in Items |-> 0] ELSE given
    BY DEF Go
  <2>2. phase \in {"fill", "prep", "drain", "done"}
    BY DEF TypeOK
  <2>3. QED
    BY <2>1, <2>2 DEF Follows
<1>3. \A t \in Threads : ~Pending(t) /\ ~Pending(t)'
  BY <1>1 DEF Pending
<1>4. Linked' = Linked
  BY <1>1, <1>3 DEF Linked
<1>5. ChainInv' /\ \A t \in Threads : InQueue(t)' = InQueue(t)
  BY <1>1, <1>4, SameChains
<1>6. PendingInv'
  BY <1>3 DEF PendingInv
<1>7. \A t \in Threads : Chain(next, work_q[t]) = InQueue(t) /\ work_q[t] \in OrNull(InQueue(t))
  BY ChainIsQueue DEF ChainInv
<1>8. QueuedInv'
  <2>1. CASE phase' = "fill"
    <3>1. \A t \in Threads : InQueue(t) = {}
      BY <1>1, <1>2, <1>7, <2>1, ChainEmpty DEF QueuedInv
    <3>2. \A i \in Items : i \notin Linked
      BY <3>1, QueueType DEF InQueue
    <3>3. \A i \in Items : next[i] = i
      BY <1>3, <3>2 DEF Linked
    <3>4. QED
      BY <1>1, <1>2, <2>1, <3>3 DEF QueuedInv
  <2>2. CASE phase' # "fill"
    BY <1>1, <1>2, <2>2 DEF QueuedInv
  <2>3. QED
    BY <2>1, <2>2
<1>9. GivenInv'
  <2>1. CASE phase' \in {"fill", "prep"}
    BY <1>1, <1>2, <2>1 DEF GivenInv
  <2>2. CASE phase' = "drain"
    <3>1. phase = "prep" /\ given' = given
      BY <1>2, <2>2
    <3>2. /\ \A t \in Threads : visible[t] = work_q[t]
          /\ \A i \in Items : given[i] = 0
      BY <1>1, <3>1 DEF GivenInv
    <3>3. \A i \in Linked : i \in Chain(next, visible[Queue(i)])
      <4>1. ASSUME NEW i \in Linked PROVE Queue(i) \in Threads /\ i \in InQueue(Queue(i))
        BY QueueType DEF Linked, InQueue
      <4>2. QED
        BY <1>7, <3>2, <4>1
    <3>4. QED
      BY <1>1, <1>4, <1>5, <1>7, <2>2, <3>1, <3>2, <3>3 DEF GivenInv, OrNull, Queue
  <2>3. CASE phase' = "done"
    BY <1>2, <2>3 DEF GivenInv
  <2>4. QED
    BY <1>2, <2>1, <2>2, <2>3
<1>10. DrainInv'
  <2>1. \A t \in Threads : steal[t] = t
    BY <1>1 DEF DrainInv
  <2>2. \A t \in Threads : Passed(t)' = {}
    <3>1. ASSUME NEW t \in Threads, NEW p \in Threads
          PROVE  ~IF t <= t THEN t <= p /\ p < t ELSE t <= p \/ p < t
      <4>1. t \in 0..Processors - 1 /\ p \in 0..Processors - 1 /\ Processors \in Nat
        BY ProcessorsAssumption DEF Threads
      <4>2. QED
        BY <4>1
    <3>2. QED
      BY <1>1, <2>1, <3>1 DEF Passed
  <2>3. QED
    BY <1>1, <2>1, <2>2 DEF DrainInv
<1>11. QED
  BY <1>5, <1>6, <1>8, <1>9, <1>10

\* A step of nobody.
LEMMA StutterIInv ==
    ASSUME IInv, UNCHANGED vars
    PROVE  IInv'
<1> USE DEF IInv, vars
<1>1. TypeOK'
  BY DEF TypeOK
<1>2. /\ PendingInv' /\ ChainInv' /\ Linked' = Linked
      /\ \A t \in Threads : InQueue(t)' = InQueue(t)
  BY QuietStep
<1>3. QueuedInv' /\ GivenInv'
  BY <1>2 DEF QueuedInv, GivenInv, OrNull
<1>4. DrainInv'
  <2>1. \A t \in Threads : steal[t] \in Threads /\ Passed(t)' = Passed(t)
    BY DEF TypeOK, Passed
  <2>2. QED
    BY <1>2, <2>1 DEF DrainInv
<1>5. QED
  BY <1>1, <1>2, <1>3, <1>4

-----------------------------------------------------------------------------
(* The theorems *)

\* Every reachable state of the queues satisfies the inductive invariant.
THEOREM QueueInvariant == Spec => []IInv
<1>1. ASSUME IInv, [Next]_vars PROVE IInv'
  <2>1. TypeOK'
    BY <1>1, TypeStep
  <2>2. ASSUME NEW t \in Threads, ThreadStep(t) PROVE IInv'
    BY <1>1, <2>1, <2>2, ClaimIInv, LinkIInv, PushIInv, EndFillIInv, PrepDqIInv, AvailIInv,
       ReadNextIInv, PopIInv, DoneIInv DEF ThreadStep
  <2>3. QED
    BY <1>1, <2>1, <2>2, GoIInv, StutterIInv DEF Next
<1>2. QED
  BY <1>1, InitIInv, PTL DEF Spec

\* The queues hold what q() was called with, each id in its own queue, and dq()
\* returns no partition to two threads, nor twice to one: the updates of a vertex
\* are applied without a lock (x-splitter.hpp:74).
THEOREM FilterSafety == Spec => []FilterInv
<1>1. ASSUME IInv PROVE FilterInv
  <2>1. TypeOK
    BY <1>1 DEF IInv
  <2>2. ExclusivePartition
    <3>1. \A i \in Items : given[i] \in {0, 1}
      BY <1>1 DEF IInv, GivenInv
    <3>2. ASSUME NEW i \in Items PROVE given[i] <= 1
      <4>1. given[i] = 0 \/ given[i] = 1
        BY <3>1
      <4>2. QED
        BY <4>1
    <3>3. QED
      BY <3>2 DEF ExclusivePartition
  <2>3. ASSUME phase \in {"prep", "drain"}
        PROVE  /\ \A t \in Threads : Chain(next, work_q[t]) = {i \in queued : Queue(i) = t}
               /\ \A i \in Items : next[i] = i <=> i \notin queued
    <3>1. \A t \in Threads : ~Pending(t)
      BY <1>1, <2>3 DEF IInv, PendingInv, Claimed
    <3>2. \A i \in Items : next[i] # i <=> i \in queued
      BY <1>1, <2>3 DEF IInv, QueuedInv
    <3>3. Linked = queued
      BY <2>1, <3>1, <3>2 DEF Linked, TypeOK
    <3>4. \A t \in Threads : Chain(next, work_q[t]) = InQueue(t)
      BY <1>1, ChainIsQueue DEF IInv
    <3>5. QED
      BY <3>2, <3>3, <3>4 DEF InQueue
  <2>4. QED
    BY <2>1, <2>2, <2>3 DEF FilterInv, QueuesExact
<1>2. QED
  BY <1>1, QueueInvariant, PTL

\* When every thread has found no work the queued partitions, and no others, have
\* been given out: dq() gives up only after it saw all queues empty, in a drain in
\* which none is filled again (x-splitter.hpp:88).
THEOREM NothingLeftBehind == Spec => []PassComplete
<1>1. ASSUME IInv PROVE PassComplete
  <2> SUFFICES ASSUME phase = "drain", AllAtBarrier, NEW i \in Items
               PROVE  given[i] > 0 <=> i \in queued
    BY DEF PassComplete
  <2>1. Threads # {}
    BY ProcessorsAssumption DEF Threads
  <2>2. \A q \in Threads : visible[q] = NULL
    BY <1>1, <2>1 DEF IInv, DrainInv, AllAtBarrier
  <2>3. Chain(next, visible[Queue(i)]) = {}
    BY <2>2, QueueType, ChainEmpty
  <2>4. given[i] = 1 <=> i \in Linked
    BY <1>1, <2>3 DEF IInv, GivenInv
  <2>5. i \in Linked <=> next[i] # i
    BY <1>1 DEF IInv, PendingInv, Claimed, Linked
  <2>6. given[i] \in {0, 1} /\ (next[i] # i <=> i \in queued)
    BY <1>1 DEF IInv, GivenInv, QueuedInv
  <2>7. QED
    BY <2>4, <2>5, <2>6
<1>2. QED
  BY <1>1, QueueInvariant, PTL
=============================================================================
