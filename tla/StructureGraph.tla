--------------------------- MODULE StructureGraph ---------------------------
(***************************************************************************)
(* The solvers of structure graphs in libraries/pbes: attractors           *)
(* (pbessolve_attractors.h), the recursive algorithm (solve_structure_     *)
(* graph.h), and the partial solvers that run on a graph under             *)
(* construction (pbesinst_fatal_attractors.h, pbesinst_find_loops.h,       *)
(* pbesinst_partial_solve.h).                                              *)
(*                                                                         *)
(* A vertex_set keeps its elements in the order of insertion, which        *)
(* decides the strategies; it is a sequence without repetitions.  So are   *)
(* the successors and predecessors of a vertex.  A vertex is its index,    *)
(* and a graph a function on the vertices that have been created.  A store *)
(* st carries what the solvers update beside their result: the strategy    *)
(* attributes of the vertices and the strategy vectors tau[0], tau[1].     *)
(***************************************************************************)
EXTENDS ParityGame, Sequences, SequencesExt

\* std::numeric_limits<unsigned int>::max(): not the index of a vertex
undefined_vertex == -1

ASSUME VertexIsIndex == Vertex = 0 .. Cardinality(Vertex) - 1

\* The vertices of G in the order of their indices.
Index == [i \in 1 .. Cardinality(Vertex) |-> i - 1]
Vertices(G) == SelectSeq(Index, LAMBDA v : v \in DOMAIN G)
In(v, A) == v \in ToSet(A)

\* structure_graph_builder: SG0 for the equation of X, which is the vertex u when the order of
\* its successors, out, is forgotten: the vertices and edges that are inserted in G.
SG0(G, X, u, out) ==
    LET new == [decoration |-> "d_none", rank |-> undefined_index,
                successors |-> <<>>, predecessors |-> <<>>]
        edge(v) == IF v \in DOMAIN G THEN G[v] ELSE new
        vertex(v) == IF v = X THEN [edge(v) EXCEPT !.decoration = u.decoration, !.rank = u.rank,
                                                   !.successors = out]
                     ELSE edge(v)
    IN [v \in DOMAIN G \cup {X} \cup ToSet(out) |->
          IF v \in ToSet(out) THEN [vertex(v) EXCEPT !.predecessors = Append(@, X)]
          ELSE vertex(v)]

\* The game on all vertices that G stands for.
Game(G) ==
    [v \in Vertex |-> IF v \in DOMAIN G
                      THEN [decoration |-> G[v].decoration, rank |-> G[v].rank,
                            successors |-> ToSet(G[v].successors)]
                      ELSE NewVertex]

\* G with exclude: structure_graph::successors and predecessors.
successors(G, ex, u) == SelectSeq(G[u].successors, LAMBDA v : v \notin ex)
predecessors(G, ex, u) == SelectSeq(G[u].predecessors, LAMBDA v : v \notin ex)

\* pbessolve_vertex_set.h
insert(A, u) == IF In(u, A) THEN A ELSE Append(A, u)
insert_all(A, us) == A \o SelectSeq(us, LAMBDA u : ~In(u, A))
set_union(A, B) == insert_all(A, B)
set_intersection(A, B) == SelectSeq(A, LAMBDA v : In(v, B))
set_minus(A, B) == SelectSeq(A, LAMBDA v : ~In(v, B))

\* Mutant: any successor is taken.
Mutant_find_successor_in(G, ex, u, A) ==
    LET s == successors(G, ex, u) IN IF s = <<>> THEN undefined_vertex ELSE s[1]

find_successor_in(G, ex, u, A) ==
    LET s == SelectSeq(successors(G, ex, u), LAMBDA v : In(v, A))
    IN IF s = <<>> THEN undefined_vertex ELSE s[1]

includes_successors(G, ex, u, A) == \A v \in ToSet(successors(G, ex, u)) : In(v, A)

player(alpha) == IF alpha = 0 THEN "d_disjunction" ELSE "d_conjunction"

\* global_strategy: the strategy attribute; local_strategy: tau[alpha].
global_strategy(st, u, v) == [st EXCEPT !.strategy[u] = v]
local_strategy(st, alpha, u, v) == [st EXCEPT !.tau[alpha][u] = v]
set_strategy(st, with_tau, alpha, u, v) ==
    IF with_tau THEN local_strategy(global_strategy(st, u, v), alpha, u, v)
    ELSE global_strategy(st, u, v)

-----------------------------------------------------------------------------
(* Attractors *)

\* pred(A) \ A, of the vertices in admit, in the order of their discovery
exclusive_predecessors(G, ex, A, admit) ==
    FoldLeft(LAMBDA todo, u :
               insert_all(todo, SelectSeq(predecessors(G, ex, u),
                                          LAMBDA v : ~In(v, A) /\ v \in admit)),
             <<>>, A)

\* The loop of attr_default_generic and of attr_min_rank_generic: extends A with
\* vertices of todo, and puts the predecessors in admit of what is added in todo.
RECURSIVE attr_loop(_, _, _, _, _, _, _, _)
attr_loop(G, ex, A, alpha, todo, admit, with_tau, st) ==
    IF todo = <<>> THEN [A |-> A, st |-> st]
    ELSE LET u == Head(todo)
         IN IF G[u].decoration = player(alpha) \/ includes_successors(G, ex, u, A)
            THEN LET B == insert(A, u)
                     new == SelectSeq(predecessors(G, ex, u),
                                      LAMBDA v : ~In(v, B) /\ v \in admit)
                 IN attr_loop(G, ex, B, alpha, insert_all(Tail(todo), new), admit, with_tau,
                              set_strategy(st, with_tau, alpha, u,
                                           find_successor_in(G, ex, u, A)))
            ELSE attr_loop(G, ex, A, alpha, Tail(todo), admit, with_tau, st)

attr_default_generic(G, ex, A, alpha, with_tau, st) ==
    attr_loop(G, ex, A, alpha, exclusive_predecessors(G, ex, A, DOMAIN G), DOMAIN G,
              with_tau, st)

attr_default(G, ex, A, alpha, st) == attr_default_generic(G, ex, A, alpha, FALSE, st)
attr_default_with_tau(G, A, alpha, st) == attr_default_generic(G, {}, A, alpha, TRUE, st)

-----------------------------------------------------------------------------
(* The recursive algorithm *)

\* Mutant: only successors in U are considered.
Mutant_succ(G, ex, u, U) == find_successor_in(G, ex, u, U)

\* solve_structure_graph_algorithm::succ: a successor of u in U, or the last one
succ(G, ex, u, U) ==
    LET s == successors(G, ex, u)
        v == find_successor_in(G, ex, u, U)
    IN IF v # undefined_vertex \/ s = <<>> THEN v ELSE s[Len(s)]

RECURSIVE solve_recursive(_, _, _, _)

\* The end of solve_recursive: player alpha has the attractor A, W_1 solves the rest, and B is
\* the attractor of what the other player wins there.
solve_outside_B(G, ex, alpha, use_toms_optimization, A, W_1, B) ==
    IF IF use_toms_optimization THEN Len(W_1.W[1 - alpha]) = Len(B.A)
                                ELSE W_1.W[1 - alpha] = <<>>
    THEN [W |-> [a \in 0 .. 1 |-> IF a = alpha THEN set_union(A.A, W_1.W[alpha]) ELSE B.A],
          st |-> B.st]
    ELSE [solve_recursive(G, ex \cup ToSet(B.A), use_toms_optimization, B.st)
            EXCEPT !.W[1 - alpha] = set_union(@, B.A)]

solve_with_W_1(G, ex, alpha, use_toms_optimization, A, W_1) ==
    solve_outside_B(G, ex, alpha, use_toms_optimization, A, W_1,
                    attr_default(G, ex, W_1.W[1 - alpha], 1 - alpha, W_1.st))

solve_outside_A(G, ex, alpha, use_toms_optimization, A) ==
    solve_with_W_1(G, ex, alpha, use_toms_optimization, A,
                   solve_recursive(G, ex \cup ToSet(A.A), use_toms_optimization, A.st))

\* The strategies for the vertices U of the minimal rank
set_U_strategies(G, ex, U, alpha, st) ==
    [st EXCEPT !.strategy = [u \in Vertex |->
       LET v == succ(G, ex, u, U)
       IN IF In(u, U) /\ G[u].decoration = player(alpha) /\ v # undefined_vertex
          THEN v ELSE @[u]]]

\* solve_recursive on the vertices outside ex
solve_recursive(G, ex, use_toms_optimization, st) ==
    IF DOMAIN G \subseteq ex THEN [W |-> [a \in 0 .. 1 |-> <<>>], st |-> st]
    ELSE LET m == CHOOSE r \in {G[v].rank : v \in DOMAIN G \ ex} :
                      \A v \in DOMAIN G \ ex : r <= G[v].rank
             U == SelectSeq(Vertices(G), LAMBDA v : v \notin ex /\ G[v].rank = m)
         IN solve_outside_A(G, ex, m % 2, use_toms_optimization,
                            attr_default(G, ex, U, m % 2, set_U_strategies(G, ex, U, m % 2, st)))

\* Mutant: the vertices that are true or false are solved with the others, by their ranks.
Mutant_solve_recursive_extended(G, use_toms_optimization, st) ==
    solve_recursive(G, {}, use_toms_optimization, st)

\* The rest of solve_recursive_extended: with the decided vertices excluded
solve_undecided(G, use_toms_optimization, Vconj, Vdisj) ==
    [solve_recursive(G, ToSet(Vconj.A) \cup ToSet(Vdisj.A), use_toms_optimization, Vdisj.st)
       EXCEPT !.W = [a \in 0 .. 1 |-> set_union(@[a], IF a = 0 THEN Vdisj.A ELSE Vconj.A)]]

\* Handles the vertices with decoration true or false, and those they decide.
solve_recursive_extended(G, use_toms_optimization, st) ==
    LET decided(d) == SelectSeq(Vertices(G), LAMBDA v : G[v].decoration = d)
        Vconj == attr_default(G, {}, decided("d_false"), 1, st)
    IN solve_undecided(G, use_toms_optimization, Vconj,
                       attr_default(G, {}, decided("d_true"), 0, Vconj.st))

-----------------------------------------------------------------------------
(* Partial solvers: S[0], S[1] are the vertices solved so far, in the store *)

attr_S(G, alpha, st) ==
    LET r == attr_default_with_tau(G, st.S[alpha], alpha, st)
    IN [r.st EXCEPT !.S[alpha] = r.A]

attr_S_both(G, st) == attr_S(G, 1, attr_S(G, 0, st))

\* compute_U_j_map, for one rank j
U_j(G, j) ==
    SelectSeq(Vertices(G), LAMBDA u : /\ G[u].rank = j
                                   /\ G[u].decoration # IF j % 2 = 0 THEN "d_false" ELSE "d_true")

compare(equal, r, j) == IF equal THEN r = j ELSE r >= j

\* Only predecessors are considered whose rank compares with j.
attr_min_rank_generic(G, A, alpha, j, equal, st) ==
    LET start == {v \in DOMAIN G : compare(equal, G[v].rank, j)}
        unranked == {v \in DOMAIN G : /\ G[v].rank = undefined_index
                                    /\ G[v].decoration \in {player(0), player(1)}}
    IN attr_loop(G, {}, A, alpha, exclusive_predecessors(G, {}, A, start),
                 start \cup unranked, FALSE, st)

\* The loop "while (X != Y)" of fatal_attractors_generic; X and Y as computed last.
RECURSIVE shrink(_, _, _, _, _, _, _, _)
shrink(G, U, X, Y, alpha, j, equal, st) ==
    IF ToSet(X) = ToSet(Y) THEN [X |-> X, Y |-> Y, st |-> st]
    ELSE LET X1 == attr_min_rank_generic(G, set_intersection(U, Y), alpha, j, equal, st)
             R  == attr_default(G, {}, set_minus(Y, X1.A), 1 - alpha, X1.st)
         IN shrink(G, U, X1.A, set_minus(Y, R.A), alpha, j, equal, R.st)

\* The strategies of the vertices of X that were not solved before, S_alpha := S_alpha U X,
\* and the attractor of S_alpha.
win(G, Uj, X, Y, alpha, st) ==
    LET tau1 == [v \in Vertex |->
                   IF In(v, X) /\ ~In(v, st.S[alpha]) /\ G[v].decoration = player(alpha)
                   THEN IF In(v, Uj) THEN find_successor_in(G, {}, v, Y) ELSE st.strategy[v]
                   ELSE st.tau[alpha][v]]
    IN attr_S(G, alpha, [st EXCEPT !.tau[alpha] = tau1, !.S[alpha] = set_union(@, X)])

Ranks(G) == SetToSortSeq({G[v].rank : v \in DOMAIN G} \ {undefined_index}, <)

\* fatal_attractors (equal = FALSE) and find_loops2 (equal = TRUE)
fatal_attractors_generic(G, equal, st0) ==
    LET rank_step(st, j) ==
            LET alpha == j % 2
                Uj == set_minus(U_j(G, j), st.S[1 - alpha])
                U  == set_union(Uj, st.S[alpha])
                X  == attr_min_rank_generic(G, U, alpha, j, equal, st)
                R  == attr_default(G, {}, set_minus(Vertices(G), X.A), 1 - alpha, X.st)
                r  == shrink(G, U, X.A, set_minus(Vertices(G), R.A), alpha, j, equal, R.st)
            IN IF U_j(G, j) = <<>> THEN st ELSE win(G, Uj, r.X, r.Y, alpha, r.st)
    IN FoldLeft(rank_step, attr_S_both(G, st0), Ranks(G))

\* The loop of attr_min_rank_original, which collects X and returns it without A.
RECURSIVE attr_original_loop(_, _, _, _, _, _, _)
attr_original_loop(G, A, X, alpha, todo, j, st) ==
    IF todo = <<>> THEN [A |-> X, st |-> st]
    ELSE LET u == Head(todo)
             AX == set_union(A, X)
         IN IF G[u].decoration = player(alpha) \/ includes_successors(G, {}, u, AX)
            THEN LET X1 == insert(X, u)
                     new == SelectSeq(predecessors(G, {}, u),
                                      LAMBDA v : G[v].rank >= j /\ ~In(v, X1))
                 IN attr_original_loop(G, A, X1, alpha, insert_all(Tail(todo), new), j,
                                       global_strategy(st, u, find_successor_in(G, {}, u, AX)))
            ELSE attr_original_loop(G, A, X, alpha, Tail(todo), j, st)

attr_min_rank_original(G, A, alpha, j, st) ==
    LET todo == FoldLeft(LAMBDA t, u :
                           insert_all(t, SelectSeq(predecessors(G, {}, u),
                                                   LAMBDA v : G[v].rank >= j)),
                         <<>>, A)
        X == SelectSeq(todo, LAMBDA u : /\ In(u, A)
                                        /\ \/ G[u].decoration = player(alpha)
                                           \/ includes_successors(G, {}, u, A))
    IN attr_original_loop(G, A, X, alpha, todo, j, st)

\* The loop "while (!U_j.is_empty() && U_j != X)" of fatal_attractors_original
RECURSIVE original_rounds(_, _, _, _, _)
original_rounds(G, Uj, X, j, st) ==
    LET alpha == j % 2
        Y == attr_min_rank_original(G, set_union(Uj, st.S[alpha]), alpha, j, st)
    IN IF Uj = <<>> \/ ToSet(Uj) = ToSet(X) THEN st
       ELSE IF ToSet(Uj) \subseteq ToSet(Y.A) THEN win(G, Uj, Y.A, Y.A, alpha, Y.st)
       ELSE original_rounds(G, set_intersection(Uj, Y.A), Uj, j, Y.st)

fatal_attractors_original(G, st0) ==
    LET rank_step(st, j) == original_rounds(G, set_minus(U_j(G, j), st.S[1 - (j % 2)]), <<>>, j, st)
    IN FoldLeft(rank_step, attr_S_both(G, st0), Ranks(G))

\* find_loop: searches for a loop from w to v over vertices of rank p that belong to player
\* p % 2; visited holds the vertices that were visited and what was found there.
RECURSIVE find_loop(_, _, _, _, _, _, _)
RECURSIVE find_loop_from(_, _, _, _, _, _, _, _)
find_loop(G, U, v, w, p, visited, st) ==
    LET no == [b |-> FALSE, visited |-> visited, st |-> st]
    IN CASE G[w].decoration \in {"d_true", "d_false"} -> no
         [] G[w].rank \notin {undefined_index, p} -> no
         [] w \in DOMAIN visited -> [no EXCEPT !.b = visited[w]]
         [] ~In(w, U) -> no
         [] OTHER -> IF G[w].decoration \in {"d_none", player(p % 2)}
                     THEN find_loop_from(G, U, v, w, successors(G, {}, w), p,
                                         (w :> FALSE) @@ visited, st)
                     ELSE [no EXCEPT !.visited = (w :> FALSE) @@ visited]

find_loop_from(G, U, v, w, us, p, visited, st) ==
    IF us = <<>> THEN [b |-> FALSE, visited |-> visited, st |-> st]
    ELSE LET u == Head(us)
             r == IF u = v THEN [b |-> TRUE, visited |-> visited, st |-> st]
                  ELSE find_loop(G, U, v, u, p, visited, st)
         IN IF r.b THEN [b |-> TRUE, visited |-> (w :> TRUE) @@ r.visited,
                         st |-> global_strategy(r.st, w, u)]
            ELSE find_loop_from(G, U, v, w, Tail(us), p, r.visited, r.st)

\* find_loops, on the vertices that are discovered and not in todo
find_loops(G, done, st0) ==
    LET step(acc, u) ==
            LET forget == IF u \in DOMAIN acc.visited THEN (u :> FALSE) @@ acc.visited ELSE acc.visited
                r == find_loop(G, done, u, u, G[u].rank, forget, acc.st)
                alpha == G[u].rank % 2
                hit == [acc.hit EXCEPT ![alpha] = @ \/ r.b]
                st1 == IF r.b THEN [r.st EXCEPT !.S[alpha] = insert(@, u)] ELSE r.st
                st2 == IF hit[0] THEN attr_S(G, 0, st1) ELSE st1
            IN [hit |-> hit, visited |-> (u :> r.b) @@ r.visited,
                st |-> IF hit[1] THEN attr_S(G, 1, st2) ELSE st2]
    IN FoldLeft(step, [hit |-> [a \in 0 .. 1 |-> FALSE], visited |-> <<>>, st |-> st0], done).st

\* The strategies tau[beta] for the vertices of W that were not solved before: the code stores
\* the decoration of the vertex, which has the number of its player.
decoration_as_tau(G, beta, W, st) ==
    [st EXCEPT !.tau[beta] = [v \in Vertex |->
       IF In(v, W) /\ ~In(v, st.S[beta]) /\ G[v].decoration = player(beta) THEN beta ELSE @[v]]]

\* Solves the game without what player alpha could reach in todo; W[beta] is won by the other.
partial_solve_part(G, todo, alpha, st) ==
    LET hidden == attr_default(G, {}, set_union(st.S[alpha], todo), alpha, st).A
        r == solve_recursive(G, ToSet(st.S[1 - alpha]) \cup ToSet(hidden), FALSE, st)
    IN decoration_as_tau(G, 1 - alpha, r.W[1 - alpha], r.st)

\* partial_solve: S[0] and S[1] only grow by their attractors.
partial_solve(G, todo, st) ==
    FoldLeft(LAMBDA acc, alpha : partial_solve_part(G, todo, alpha, acc),
             attr_S_both(G, st), <<0, 1>>)
=============================================================================
