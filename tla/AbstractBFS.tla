---------------------------- MODULE AbstractBFS ----------------------------
(* What breadth first search on the engine promises (algorithms/bfs): the  *)
(* rounds discover the vertices in the order of their distance from the    *)
(* root, a vertex gets as parent any vertex of the round before that has   *)
(* an edge to it, and the search ends with the first round, from the       *)
(* second on, that discovers nothing.                                      *)
EXTENDS Integers

CONSTANTS Vertices, Root, NONE

VARIABLES edges, parent, level, round, stopped

absVars == <<edges, parent, level, round, stopped>>

Discovered == {v \in Vertices : parent[v] # NONE}

\* Who can be the parent of v if it is discovered in this round.
Candidates(v) ==
    IF round = 0 THEN {Root} \cap {v}
    ELSE {u \in Discovered : level[u] = round - 1 /\ <<u, v>> \in edges}

AbsInit == /\ edges \subseteq Vertices \X Vertices
           /\ parent = [v \in Vertices |-> NONE]
           /\ level = [v \in Vertices |-> 0]
           /\ round = 0
           /\ stopped = FALSE

Found == {v \in Vertices \ Discovered : Candidates(v) # {}}

\* A round discovers every vertex that has a candidate; the search may stop
\* only with a round that found nothing, and not with the first two.
AbsRound ==
    LET found == Found IN
    /\ ~stopped /\ round' = round + 1
    /\ parent' \in [Vertices -> Vertices \cup {NONE}]
    /\ \A v \in Vertices : IF v \in found THEN parent'[v] \in Candidates(v)
                                          ELSE parent'[v] = parent[v]
    /\ level' = [v \in Vertices |-> IF v \in found THEN round ELSE level[v]]
    /\ stopped' = (round > 0 /\ found = {})
    /\ UNCHANGED edges

AbsSpec == AbsInit /\ [][AbsRound]_absVars
=============================================================================
