------------------------- MODULE AbstractBFSProofs -------------------------
(* What level-synchronous search finds, for every graph: the vertices that *)
(* can be reached from the root, each with a parent one level up.          *)
EXTENDS AbstractBFS, WellFoundedInduction, TLAPS

\* The root and the value that stands for "no parent" are what bfs.hpp makes of
\* them: a vertex, and (vertex_t)-1, which is none.
Parameters == Root \in Vertices /\ NONE \notin Vertices

TypeInv == /\ edges \subseteq Vertices \X Vertices
           /\ parent \in [Vertices -> Vertices \cup {NONE}]
           /\ level \in [Vertices -> Nat]
           /\ round \in Nat
           /\ stopped \in BOOLEAN

\* A discovered vertex was found in an earlier round, through a vertex found in
\* the round before.
HasParent(v) ==
    /\ level[v] < round
    /\ IF level[v] = 0 THEN v = Root /\ parent[v] = Root
       ELSE /\ parent[v] \in Discovered
            /\ level[parent[v]] = level[v] - 1
            /\ <<parent[v], v>> \in edges

\* The out-neighbours of the vertices found before the last round are found, at
\* most one level further down.
Expanded(u) ==
    level[u] + 1 < round =>
        \A w \in Vertices : <<u, w>> \in edges => w \in Discovered /\ level[w] <= level[u] + 1

\* Once the search has stopped, that holds of every discovered vertex.
Finished == stopped => \A u \in Discovered, w \in Vertices : <<u, w>> \in edges => w \in Discovered

SearchInv ==
    /\ TypeInv
    /\ \A v \in Discovered : HasParent(v)
    /\ \A u \in Discovered : Expanded(u)
    /\ round > 0 => Root \in Discovered /\ level[Root] = 0
    /\ stopped => round > 0
    /\ Finished

-----------------------------------------------------------------------------
\* At first nothing is discovered, and all is of its type.
LEMMA InitTypeInv == Parameters /\ AbsInit => TypeInv /\ Discovered = {}
<1> SUFFICES ASSUME Parameters, AbsInit PROVE TypeInv /\ Discovered = {}
  OBVIOUS
<1>1. /\ edges \subseteq Vertices \X Vertices /\ round = 0 /\ stopped = FALSE
      /\ parent = [v \in Vertices |-> NONE] /\ level = [v \in Vertices |-> 0]
  BY DEF AbsInit
<1>2. TypeInv
  BY <1>1 DEF TypeInv
<1>3. Discovered = {}
  BY <1>1 DEF Discovered
<1>4. QED
  BY <1>2, <1>3

\* So the invariant holds at first.
LEMMA InitSearchInv == Parameters /\ AbsInit => SearchInv
<1> SUFFICES ASSUME Parameters, AbsInit PROVE SearchInv
  OBVIOUS
<1>1. TypeInv /\ Discovered = {} /\ round = 0 /\ stopped = FALSE
  BY InitTypeInv DEF AbsInit
<1>2. QED
  BY <1>1 DEF SearchInv, Finished

\* What a round changes: the found vertices become discovered, with the round's
\* number as level, and the others keep what they had.
LEMMA RoundStep ==
  ASSUME Parameters, TypeInv, AbsRound
  PROVE  /\ TypeInv' /\ edges' = edges /\ round' = round + 1
         /\ Discovered' = Discovered \cup Found
         /\ Found \cap Discovered = {}
         /\ \A v \in Found : parent'[v] \in Candidates(v) /\ level'[v] = round
         /\ \A v \in Discovered : parent'[v] = parent[v] /\ level'[v] = level[v]
<1> USE DEF Parameters, TypeInv
<1>1. /\ edges' = edges /\ round' = round + 1
      /\ parent' \in [Vertices -> Vertices \cup {NONE}]
      /\ \A v \in Vertices : IF v \in Found THEN parent'[v] \in Candidates(v)
                                            ELSE parent'[v] = parent[v]
      /\ level' = [v \in Vertices |-> IF v \in Found THEN round ELSE level[v]]
      /\ stopped' = (round > 0 /\ Found = {})
  BY DEF AbsRound
<1>2. TypeInv'
  BY <1>1
<1>3. Found \subseteq Vertices /\ Discovered \subseteq Vertices /\ Found \cap Discovered = {}
  BY DEF Found, Discovered
<1>4. \A v \in Vertices : Candidates(v) \subseteq Vertices
  BY DEF Candidates, Discovered
<1>5. \A v \in Found : parent'[v] \in Candidates(v) /\ level'[v] = round
  BY <1>1, <1>3
<1>6. \A v \in Discovered : parent'[v] = parent[v] /\ level'[v] = level[v]
  BY <1>1, <1>3
<1>7. Discovered' = Discovered \cup Found
  BY <1>1, <1>3, <1>4 DEF Discovered
<1>8. QED
  BY <1>1, <1>2, <1>3, <1>5, <1>6, <1>7

\* A round preserves the invariant: the vertices it finds have a parent that was
\* found in the round before, and it finds all out-neighbours of those.
LEMMA NextSearchInv ==
  ASSUME Parameters, SearchInv, [AbsRound]_absVars
  PROVE  SearchInv'
<1>1. CASE UNCHANGED absVars
  BY <1>1 DEF absVars, SearchInv, TypeInv, HasParent, Expanded, Finished, Discovered
<1>2. CASE AbsRound
  <2>0. TypeInv /\ round \in Nat /\ (\A v \in Discovered : level[v] \in Nat)
    BY DEF SearchInv, TypeInv, Discovered
  <2>1. /\ TypeInv' /\ edges' = edges /\ round' = round + 1
        /\ Discovered' = Discovered \cup Found
        /\ Found \cap Discovered = {}
        /\ \A v \in Found : parent'[v] \in Candidates(v) /\ level'[v] = round
        /\ \A v \in Discovered : parent'[v] = parent[v] /\ level'[v] = level[v]
    BY <1>2, <2>0, RoundStep
  <2>2. ~stopped /\ stopped' = (round > 0 /\ Found = {})
    BY <1>2 DEF AbsRound
  <2>3. ASSUME NEW v \in Discovered' PROVE HasParent(v)'
    <3>1. CASE v \in Discovered
      BY <2>0, <2>1, <3>1 DEF SearchInv, HasParent
    <3>2. CASE v \in Found /\ round = 0
      BY <2>1, <3>2 DEF HasParent, Candidates
    <3>3. CASE v \in Found /\ round # 0
      <4>1. /\ parent'[v] \in Discovered /\ level[parent'[v]] = round - 1
            /\ <<parent'[v], v>> \in edges
        BY <2>1, <3>3 DEF Candidates
      <4>2. QED
        BY <2>0, <2>1, <3>3, <4>1 DEF HasParent
    <3>4. QED
      BY <2>1, <3>1, <3>2, <3>3
  <2>4. ASSUME NEW u \in Discovered', (level[u] + 1 < round)',
               NEW w \in Vertices, <<u, w>> \in edges'
        PROVE  w \in Discovered' /\ level'[w] <= level'[u] + 1
    <3>1. u \in Discovered /\ level'[u] = level[u] /\ level[u] < round
      BY <2>0, <2>1, <2>4
    <3>2. CASE level[u] + 1 < round
      BY <2>0, <2>1, <2>4, <3>1, <3>2 DEF SearchInv, Expanded
    <3>3. CASE level[u] = round - 1
      <4>1. round # 0 /\ u \in Candidates(w)
        BY <2>0, <2>1, <2>4, <3>1, <3>3 DEF Candidates
      <4>2. CASE w \in Discovered
        <5>1. level[w] < round
          BY <4>2 DEF SearchInv, HasParent
        <5>2. QED
          BY <2>0, <2>1, <3>1, <3>3, <4>2, <5>1
      <4>3. CASE w \notin Discovered
        <5>1. w \in Found
          BY <4>1, <4>3 DEF Found
        <5>2. QED
          BY <2>0, <2>1, <3>1, <3>3, <5>1
      <4>4. QED
        BY <4>2, <4>3
    <3>4. QED
      BY <2>0, <3>1, <3>2, <3>3
  <2>5. (round > 0 => Root \in Discovered /\ level[Root] = 0)'
    <3>1. CASE round > 0
      BY <2>1, <3>1 DEF SearchInv
    <3>2. CASE round = 0 /\ Root \notin Discovered
      BY <2>1, <3>2 DEF Found, Candidates, Parameters
    <3>3. round = 0 => Root \notin Discovered
      <4>1. \A v \in Discovered : level[v] < round
        BY DEF SearchInv, HasParent
      <4>2. QED
        BY <2>0, <4>1
    <3>4. QED
      BY <2>0, <2>1, <3>1, <3>2, <3>3
  <2>6. Finished'
    <3> SUFFICES ASSUME stopped', NEW u \in Discovered, NEW w \in Vertices, <<u, w>> \in edges
                 PROVE  w \in Discovered
      BY <2>1, <2>2 DEF Finished
    <3>1. round > 0 /\ Found = {} /\ level[u] < round
      BY <2>2 DEF SearchInv, HasParent
    <3>2. CASE level[u] + 1 < round
      BY <3>2 DEF SearchInv, Expanded
    <3>3. CASE level[u] = round - 1
      BY <3>1, <3>3 DEF Found, Candidates
    <3>4. QED
      BY <2>0, <3>1, <3>2, <3>3
  <2>7. QED
    BY <2>0, <2>1, <2>2, <2>3, <2>4, <2>5, <2>6 DEF SearchInv, Expanded
<1>3. QED
  BY <1>1, <1>2

\* The invariant holds: whenever the search has stopped, the root is discovered
\* and with a vertex all its out-neighbours are, and every vertex has a parent
\* one level up; what bfs.hpp's check for an idle round is for.
THEOREM SearchInvariant ==
  ASSUME Parameters
  PROVE  AbsSpec => []SearchInv
<1>1. AbsInit => SearchInv
  BY InitSearchInv
<1>2. SearchInv /\ [AbsRound]_absVars => SearchInv'
  BY NextSearchInv
<1>3. QED
  BY <1>1, <1>2, PTL DEF AbsSpec

-----------------------------------------------------------------------------
\* Nothing that an edge leads to from S, and not the root, is outside S.
Closed(S) == Root \in S /\ \A u \in S, w \in Vertices : <<u, w>> \in edges => w \in S

\* Nothing is discovered that cannot be reached: a set that contains the root
\* and is closed under the edges contains every discovered vertex.
THEOREM OnlyReachable ==
  ASSUME Parameters, NEW S
  PROVE  AbsSpec /\ Closed(S) => [](Discovered \subseteq S)
<1> DEFINE Inv == TypeInv /\ Closed(S) /\ Discovered \subseteq S
<1>1. AbsInit /\ Closed(S) => Inv
  BY InitTypeInv
<1>2. Inv /\ [AbsRound]_absVars => Inv'
  <2> SUFFICES ASSUME Inv, [AbsRound]_absVars PROVE Inv'
    OBVIOUS
  <2>1. CASE UNCHANGED absVars
    BY <2>1 DEF absVars, TypeInv, Closed, Discovered
  <2>2. CASE AbsRound
    <3>1. TypeInv' /\ edges' = edges /\ Discovered' = Discovered \cup Found
      BY <2>2, RoundStep
    <3>2. Found \subseteq S
      BY DEF Found, Candidates, Closed
    <3>3. QED
      BY <3>1, <3>2 DEF Closed
  <2>3. QED
    BY <2>1, <2>2
<1>3. QED
  BY <1>1, <1>2, PTL DEF AbsSpec

\* When the search has stopped, the discovered vertices are the smallest set
\* that contains the root and is closed under the edges: exactly what can be
\* reached.
THEOREM StoppedSearchIsClosed ==
  ASSUME Parameters
  PROVE  AbsSpec => [](stopped => Closed(Discovered))
<1>1. SearchInv => (stopped => Closed(Discovered))
  BY DEF SearchInv, Finished, Closed
<1>2. QED
  BY <1>1, SearchInvariant, PTL

-----------------------------------------------------------------------------
(* Levels are distances.  W is any chain of neighbourhoods of the root: *)
(* W[n] is what can be reached from it with at most n edges.            *)

Neighbourhoods(W) ==
    /\ W[0] = {Root}
    /\ \A n \in Nat : W[n + 1] = W[n] \cup {e[2] : e \in {d \in edges : d[1] \in W[n]}}

\* A set of numbers has a least element: what stands in for induction below.
LEMMA LeastNumber ==
  ASSUME NEW T, T \subseteq Nat, T # {}
  PROVE  \E n \in T : \A m \in T : n <= m
<1>1. PICK n \in T : \A m \in T : ~(<<m, n>> \in OpToRel(<, Nat))
  BY WFMin, NatLessThanWellFounded
<1>2. \A m \in T : ~(m < n)
  BY <1>1 DEF OpToRel
<1>3. QED
  BY <1>2

\* What an invariant of the search says of one discovered vertex.
LEMMA DiscoveredVertex ==
  ASSUME Parameters, SearchInv, NEW v \in Discovered
  PROVE  /\ v \in Vertices /\ level[v] \in Nat /\ level[v] < round /\ round \in Nat
         /\ level[v] = 0 => v = Root
         /\ level[v] # 0 => /\ parent[v] \in Discovered /\ level[parent[v]] = level[v] - 1
                            /\ <<parent[v], v>> \in edges
<1>1. v \in Vertices /\ TypeInv /\ HasParent(v)
  BY DEF SearchInv, Discovered
<1>2. QED
  BY <1>1 DEF TypeInv, HasParent

\* Before each round the vertices discovered up to a level are the ones at most
\* that far from the root.
LEMMA LevelsAreDistances ==
  ASSUME Parameters, SearchInv, NEW W, Neighbourhoods(W)
  PROVE  \A n \in Nat : n < round => W[n] = {v \in Discovered : level[v] <= n}
<1> DEFINE Upto(n) == {v \in Discovered : level[v] <= n}
           Bad == {n \in Nat : n < round /\ W[n] # Upto(n)}
<1>1. /\ round \in Nat /\ edges \subseteq Vertices \X Vertices
      /\ round > 0 => Root \in Discovered /\ level[Root] = 0
      /\ \A u \in Discovered : Expanded(u)
  BY DEF SearchInv, TypeInv
<1>2. \A v \in Discovered : level[v] \in Nat /\ level[v] < round
  BY DiscoveredVertex
<1>3. SUFFICES ASSUME Bad # {} PROVE FALSE
  OBVIOUS
<1>4. PICK n \in Bad : \A m \in Bad : n <= m
  BY <1>3, LeastNumber
<1>5. n \in Nat /\ n < round /\ W[n] # Upto(n)
  BY <1>4
<1>6. CASE n = 0
  <2>1. ASSUME NEW v \in Discovered PROVE level[v] <= 0 <=> v = Root
    <3>1. level[v] \in Nat /\ (level[v] = 0 => v = Root)
      BY DiscoveredVertex
    <3>2. level[Root] = 0
      BY <1>1, <1>5
    <3>3. QED
      BY <3>1, <3>2
  <2>2. Upto(0) = {Root}
    BY <1>1, <1>5, <1>6, <2>1
  <2>3. QED
    BY <1>5, <1>6, <2>2 DEF Neighbourhoods
<1>7. CASE n # 0
  <2>1. n - 1 \in Nat /\ n - 1 < round /\ (n - 1) + 1 = n /\ ~(n <= n - 1)
    BY <1>1, <1>5, <1>7
  <2>2. n - 1 \notin Bad
    BY <1>4, <2>1
  <2>3. W[n - 1] = Upto(n - 1)
    BY <2>1, <2>2
  <2> HIDE DEF Bad
  <2>4. W[n] = Upto(n - 1) \cup {e[2] : e \in {d \in edges : d[1] \in Upto(n - 1)}}
    BY <2>1, <2>3 DEF Neighbourhoods
  <2>5. ASSUME NEW w \in W[n] PROVE w \in Upto(n)
    <3>1. CASE w \in Upto(n - 1)
      BY <1>2, <1>5, <3>1
    <3>2. CASE w \notin Upto(n - 1)
      <4>1. PICK e \in edges : e[1] \in Upto(n - 1) /\ w = e[2]
        BY <2>4, <2>5, <3>2
      <4>2. /\ e[1] \in Discovered /\ level[e[1]] <= n - 1 /\ level[e[1]] \in Nat
            /\ w \in Vertices /\ <<e[1], w>> \in edges
        BY <1>1, <1>2, <4>1
      <4>3. level[e[1]] + 1 < round \/ level[e[1]] + 1 = n
        BY <1>1, <1>5, <4>2
      <4>4. level[e[1]] + 1 < round
        BY <1>1, <1>5, <4>2, <4>3
      <4>5. w \in Discovered /\ level[w] <= level[e[1]] + 1
        BY <1>1, <4>2, <4>4 DEF Expanded
      <4>6. QED
        BY <1>2, <1>5, <4>2, <4>5
    <3>3. QED
      BY <3>1, <3>2
  <2>6. ASSUME NEW w \in Upto(n) PROVE w \in W[n]
    <3>1. w \in Discovered /\ level[w] <= n /\ level[w] \in Nat
      BY <1>2
    <3>2. CASE level[w] <= n - 1
      BY <2>4, <3>1, <3>2
    <3>3. CASE level[w] = n
      <4>1. /\ parent[w] \in Discovered /\ level[parent[w]] = n - 1
            /\ <<parent[w], w>> \in edges
        BY <1>7, <3>1, <3>3, DiscoveredVertex
      <4>2. parent[w] \in Upto(n - 1)
        BY <2>1, <4>1
      <4>3. <<parent[w], w>> \in {d \in edges : d[1] \in Upto(n - 1)}
        BY <4>1, <4>2
      <4>4. QED
        BY <2>4, <4>3
    <3>4. QED
      BY <1>5, <3>1, <3>2, <3>3
  <2>7. QED
    BY <1>5, <2>5, <2>6
<1>8. QED
  BY <1>6, <1>7

\* A chain of neighbourhoods stays inside what a stopped search discovered.
LEMMA StoppedCoversAll ==
  ASSUME Parameters, SearchInv, stopped, NEW W, Neighbourhoods(W)
  PROVE  \A n \in Nat : W[n] \subseteq Discovered
<1> DEFINE Bad == {n \in Nat : ~(W[n] \subseteq Discovered)}
<1>1. /\ Root \in Discovered /\ edges \subseteq Vertices \X Vertices
      /\ \A u \in Discovered, w \in Vertices : <<u, w>> \in edges => w \in Discovered
  BY DEF SearchInv, Finished, TypeInv
<1>2. SUFFICES ASSUME Bad # {} PROVE FALSE
  OBVIOUS
<1>3. PICK n \in Bad : \A m \in Bad : n <= m
  BY <1>2, LeastNumber
<1>4. CASE n = 0
  BY <1>1, <1>3, <1>4 DEF Neighbourhoods
<1>5. CASE n # 0
  <2>1. n - 1 \in Nat /\ (n - 1) + 1 = n /\ ~(n <= n - 1)
    BY <1>3, <1>5
  <2>2. W[n - 1] \subseteq Discovered
    BY <1>3, <2>1
  <2>3. W[n] = W[n - 1] \cup {e[2] : e \in {d \in edges : d[1] \in W[n - 1]}}
    BY <2>1 DEF Neighbourhoods
  <2>4. \A e \in edges : e[1] \in W[n - 1] => e[2] \in Discovered
    BY <1>1, <2>2
  <2>5. W[n] \subseteq Discovered
    BY <2>2, <2>3, <2>4
  <2>6. QED
    BY <1>3, <2>5
<1>6. QED
  BY <1>4, <1>5

\* Below a discovered vertex every level has one.
LEMMA NoLevelIsEmpty ==
  ASSUME Parameters, SearchInv, NEW v \in Discovered
  PROVE  0..level[v] \subseteq {level[u] : u \in Discovered}
<1> DEFINE levels == {level[u] : u \in Discovered}
           Gaps == {d \in Nat : d <= level[v] /\ level[v] - d \notin levels}
<1>1. /\ Discovered \subseteq Vertices /\ level[v] \in Nat
      /\ \A u \in Discovered : level[u] \in Nat
  BY DiscoveredVertex DEF Discovered
<1>2. Gaps = {}
  <2>1. SUFFICES ASSUME Gaps # {} PROVE FALSE
    OBVIOUS
  <2>2. PICK d \in Gaps : \A m \in Gaps : d <= m
    BY <2>1, LeastNumber
  <2>3. d # 0
    BY <1>1, <2>2
  <2>4. d - 1 \in Nat /\ d - 1 <= level[v] /\ ~(d <= d - 1)
    BY <1>1, <2>2, <2>3
  <2>5. level[v] - (d - 1) \in levels
    BY <2>2, <2>4
  <2>6. PICK u \in Discovered : level[u] = level[v] - (d - 1)
    BY <2>5
  <2>7. level[u] # 0 /\ level[u] - 1 = level[v] - d
    BY <1>1, <2>2, <2>4, <2>6
  <2>8. parent[u] \in Discovered /\ level[parent[u]] = level[v] - d
    BY <2>7, DiscoveredVertex
  <2>9. level[v] - d \in levels
    BY <2>8
  <2>10. QED
    BY <2>2, <2>9
<1>3. 0..level[v] \subseteq levels
  <2>1. ASSUME NEW i \in 0..level[v] PROVE i \in levels
    <3>1. level[v] - i \in Nat /\ level[v] - i <= level[v] /\ level[v] - (level[v] - i) = i
      BY <1>1
    <3>2. level[v] - i \notin Gaps
      BY <1>2
    <3>3. QED
      BY <3>1, <3>2
  <2>2. QED
    BY <2>1
<1>4. QED
  BY <1>3

\* When the search has stopped, what it discovered is what can be reached from
\* the root with more edges than any discovered vertex needs.
LEMMA StoppedIsReachable ==
  ASSUME Parameters, SearchInv, stopped, NEW W, Neighbourhoods(W),
         NEW n \in Nat, \A v \in Discovered : level[v] < n
  PROVE  W[n] = Discovered
<1>1. round \in Nat /\ round > 0
  BY DEF SearchInv, TypeInv
<1>2. W[n] \subseteq Discovered
  BY StoppedCoversAll
<1>3. \A v \in Discovered : level[v] \in Nat /\ level[v] < n /\ level[v] < round
  BY DiscoveredVertex
<1>4. ASSUME NEW v \in Discovered PROVE v \in W[n]
  <2>1. v \in W[level[v]]
    BY <1>3, LevelsAreDistances
  <2> DEFINE Missing == {m \in Nat : m >= level[v] /\ v \notin W[m]}
  <2>2. Missing = {}
    <3>1. SUFFICES ASSUME Missing # {} PROVE FALSE
      OBVIOUS
    <3>2. PICK m \in Missing : \A k \in Missing : m <= k
      BY <3>1, LeastNumber
    <3>3. m # level[v]
      BY <2>1, <3>2
    <3>4. m - 1 \in Nat /\ m - 1 >= level[v] /\ (m - 1) + 1 = m /\ ~(m <= m - 1)
      BY <1>3, <3>2, <3>3
    <3>5. v \in W[m - 1]
      BY <3>2, <3>4
    <3>6. W[m - 1] \subseteq W[m]
      BY <3>4 DEF Neighbourhoods
    <3>7. QED
      BY <3>2, <3>5, <3>6
  <2>3. QED
    BY <1>1, <1>3, <2>2
<1>5. QED
  BY <1>2, <1>4
=============================================================================
