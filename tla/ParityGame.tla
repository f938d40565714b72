----------------------------- MODULE ParityGame -----------------------------
(***************************************************************************)
(* Structure graphs and the parity games they denote.                      *)
(*                                                                         *)
(* A structure graph (libraries/pbes structure_graph.h) has one vertex per *)
(* propositional variable instantiation.  A vertex is decorated with the   *)
(* top operator of the right-hand side of its equation and has the rank of *)
(* its equation; a vertex that is known but whose equation has not been    *)
(* reported has decoration d_none, no rank and no successors.              *)
(*                                                                         *)
(* The solvers of the library compute which vertices are true (player 0,   *)
(* disjunctive) and which are false (player 1, conjunctive).  This module  *)
(* defines what they ought to compute, by the memoryless strategies of the *)
(* two players, and shares no algorithm with the solvers.                  *)
(***************************************************************************)
EXTENDS Integers, FiniteSets

CONSTANT Vertex

ASSUME VertexFinite == IsFiniteSet(Vertex) /\ Vertex # {}

Decoration == {"d_disjunction", "d_conjunction", "d_true", "d_false", "d_none"}

\* std::size_t(-1): odd, and larger than the rank of every equation.
undefined_index == 99

\* The vertex that structure_graph_builder::create_vertex makes for a variable.
NewVertex == [decoration |-> "d_none", rank |-> undefined_index, successors |-> {}]

\* structure_graph::vertex::is_defined
is_defined(u) ==
    /\ u.decoration # "d_none" \/ u.rank # undefined_index
    /\ u.successors # {} \/ u.decoration \in {"d_true", "d_false"}

\* phi_substitution: in the right-hand side u of X, the variable X is replaced by true when its
\* equation is a greatest fixpoint and by false when it is a least one, and u is simplified.
phi_substitution(X, u) ==
    LET value == IF u.rank % 2 = 0 THEN "d_true" ELSE "d_false"
        decides == IF u.decoration = "d_conjunction" THEN "d_false" ELSE "d_true"
        others == u.successors \ {X}
    IN IF X \notin u.successors THEN u
       ELSE IF others = {} \/ value = decides
            THEN [decoration |-> value, rank |-> u.rank, successors |-> {}]
       ELSE [decoration |-> IF Cardinality(others) = 1 THEN "d_none" ELSE u.decoration,
             rank |-> u.rank, successors |-> others]

\* Rplus: the results [b, u] for the right-hand side u, with b the player for which it is decided
\* (2 when it is not), and u the vertex for the formula that is kept.
Rplus(u, s) ==
    LET all(alpha) == u.successors \subseteq s[alpha]
        decides == IF u.decoration = "d_disjunction" THEN 0 ELSE 1
        deciding == u.successors \cap s[decides]
    IN IF u.decoration \in {"d_disjunction", "d_conjunction"} /\ deciding # {}
       THEN {[b |-> decides,
              u |-> [decoration |-> "d_none", rank |-> u.rank, successors |-> {y}]] :
               y \in deciding}
       ELSE {[b |-> IF u.decoration = "d_false" THEN 1
                    ELSE IF all(0) THEN 0 ELSE IF all(1) THEN 1 ELSE 2, u |-> u]}

-----------------------------------------------------------------------------
\* The vertices reachable from those of A over vertices of W.
Reach(G, A, W) ==
    LET R[n \in 0 .. Cardinality(Vertex)] ==
          IF n = 0 THEN A
          ELSE LET P == R[n - 1] IN P \cup (W \cap UNION {G[v].successors : v \in P})
    IN R[Cardinality(Vertex)]

\* Player alpha wins every play from a vertex of A, whatever the moves: no play ends in a vertex
\* that is decided for the other player or whose equation is not known, and no cycle has a
\* lowest rank of the parity of the other player.
AllPlaysWon(G, A, alpha) ==
    LET R == Reach(G, A, Vertex)
        above(w) == {v \in Vertex : G[v].rank >= G[w].rank}
    IN /\ \A w \in R : G[w].successors = {} =>
                          G[w].decoration = IF alpha = 0 THEN "d_true" ELSE "d_false"
       /\ \A w \in R : G[w].rank % 2 # alpha =>
                          w \notin Reach(G, G[w].successors \cap above(w), above(w))

Owner(G, v) == IF G[v].decoration = "d_conjunction" THEN 1 ELSE 0

\* The memoryless strategies of player alpha, for the vertices where there is a choice.
Strategy(G, alpha) ==
    LET P == {v \in Vertex : Owner(G, v) = alpha /\ Cardinality(G[v].successors) > 1}
    IN {f \in [P -> Vertex] : \A v \in DOMAIN f : f[v] \in G[v].successors}

\* G, with the moves of f only.
Follow(G, f) ==
    [v \in Vertex |-> IF v \in DOMAIN f THEN [G[v] EXCEPT !.successors = {f[v]}] ELSE G[v]]

\* Player alpha has a strategy that wins from all vertices of A, whatever the equations are that
\* are not known.
Wins(G, A, alpha) == \E f \in Strategy(G, alpha) : AllPlaysWon(Follow(G, f), A, alpha)

Determined(G, alpha) == {v \in Vertex : Wins(G, {v}, alpha)}

\* The vertices that are true, in a graph all of whose vertices are known.
Solution(G) == Determined(G, 0)
=============================================================================
