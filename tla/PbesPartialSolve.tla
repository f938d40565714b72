-------------------------- MODULE PbesPartialSolve --------------------------
(***************************************************************************)
(* pbesinst_structure_graph_algorithm2 on one thread: the equations of a   *)
(* Boolean equation system are reported one by one, in any order in which  *)
(* they can be discovered, and after every report a partial solver may run *)
(* on the structure graph built so far and the todo list may be pruned.    *)
(* When the todo list is empty, or the initial vertex is solved, the       *)
(* relevant part of the graph is extracted and solved.                     *)
(*                                                                         *)
(* Right-hand sides are true, false, one variable, or a conjunction or a   *)
(* disjunction of variables, in the order in which split_and and split_or  *)
(* return them (the order of a std::set of terms, here any order).  The    *)
(* equation of a variable is chosen when it is reported, and a variable is *)
(* named by the index of the vertex that is created for it; 0 is the       *)
(* initial variable.  The counters that decide when a solver runs or the   *)
(* list is pruned depend on amounts of calculation; they are a free choice.*)
(***************************************************************************)
EXTENDS StructureGraph

CONSTANTS Families,   \* families of equation systems
          Equations(_, _), \* the right-hand sides of a variable in a family
          Strategies, \* values of the option --solve-strategy
          Prune       \* values of the option --prune-todo-list

VARIABLES family, bes,        \* the equations chosen so far
          option, prune_todo_list, G, todo, discovered, st, result

vars == <<family, bes, option, prune_todo_list, G, todo, discovered, st, result>>

init == 0
NoResult == [V |-> {}, W |-> [a \in 0 .. 1 |-> {}], strategy |-> <<>>]

Init ==
    /\ family \in Families
    /\ bes = [v \in Vertex |-> NewVertex]
    /\ option \in Strategies
    /\ prune_todo_list \in Prune
    /\ G = <<>>
    /\ todo = {init}
    /\ discovered = {init}
    /\ st = [S |-> [a \in 0 .. 1 |-> <<>>],
             tau |-> [a \in 0 .. 1 |-> [v \in Vertex |-> undefined_vertex]],
             strategy |-> [v \in Vertex |-> undefined_vertex]]
    /\ result = NoResult

S(alpha) == ToSet(st.S[alpha])

-----------------------------------------------------------------------------
\* The partial solver that on_discovered_elements runs; guards are the players a for which
\* S_guard[a] lets the attractor be computed.
PartialSolver(H, todo1, discovered1, guards, s) ==
    CASE option = "attractor"      ->
           LET s0 == IF 0 \in guards THEN attr_S(H, 0, s) ELSE s
           IN IF 1 \in guards THEN attr_S(H, 1, s0) ELSE s0
      [] option = "none"           -> s
      [] option = "loops2"         -> fatal_attractors_generic(H, TRUE, s)
      [] option = "fatal_local"    -> fatal_attractors_generic(H, FALSE, s)
      [] option = "fatal_original" -> fatal_attractors_original(H, s)
      [] option = "solver"         -> partial_solve(H, SelectSeq(Index, LAMBDA v : v \in todo1), s)
      [] option = "loops"          ->
           find_loops(H, SelectSeq(Index, LAMBDA v : v \in discovered1 \ todo1), s)

\* The vertices reachable from init over vertices of which step gives the successors.
Reachable(step) ==
    LET R[n \in 0 .. Cardinality(Vertex)] ==
          IF n = 0 THEN {init} ELSE LET P == R[n - 1] IN P \cup UNION {step[v] : v \in P}
    IN R[Cardinality(Vertex)]

\* Mutant of extract_minimal_structure_graph: tau is not used.
Mutant_extract_minimal_structure_graph == Reachable([v \in DOMAIN G |-> ToSet(G[v].successors)])

\* prune_todo_list: the unexplored vertices that can be reached over unsolved ones
Frontier(H, s) ==
    LET solved == ToSet(s.S[0]) \cup ToSet(s.S[1])
        step == [v \in DOMAIN H |-> IF v \in solved THEN {} ELSE ToSet(H[v].successors)]
    IN {v \in Reachable(step) : H[v].decoration = "d_none" /\ H[v].successors = <<>>}

solution_found == init \in S(0) \cup S(1)
Running == todo # {} /\ ~solution_found

\* Whether a solver runs: S_guard[a] for each player a, or on_the_fly_solve_trigger.
Triggers == IF option = "attractor" THEN SUBSET (0 .. 1) ELSE {{}, 0 .. 1}

\* The right-hand side e as a vertex of a game.
AsVertex(e) == [e EXCEPT !.successors = ToSet(@)]

\* The new variables among out are named by the indices that their vertices get.
Numbered(out) ==
    LET new == SelectSeq(out, LAMBDA v : v \notin discovered)
    IN \A i \in DOMAIN new : new[i] = Cardinality(discovered) + i - 1

\* One iteration of the loop of run_thread: next_todo, phi_substitution, rewrite_psi,
\* on_report_equation, the insertions into todo and discovered, and on_discovered_elements.
Report ==
    /\ Running
    /\ \E X \in todo : \E e \in Equations(family, X) :
       \E r \in Rplus(phi_substitution(X, AsVertex(e)), [a \in 0 .. 1 |-> S(a)]) :
         LET occ == r.u.successors
             out == SelectSeq(e.successors, LAMBDA v : v \in occ)
             H == SG0(G, X, r.u, out)
             todo1 == (todo \ {X}) \cup (occ \ discovered)
             st1 == IF r.b \in 0 .. 1 THEN [st EXCEPT !.S[r.b] = insert(@, X)] ELSE st
         IN /\ Numbered(out)
            /\ bes' = [bes EXCEPT ![X] = AsVertex(e)]
            /\ G' = H
            /\ discovered' = discovered \cup occ
            /\ \E guards \in Triggers :
                 /\ st' = IF guards = {} THEN st1
                          ELSE PartialSolver(H, todo1, discovered', guards, st1)
                 /\ todo' \in LET pruned == Frontier(H, st')
                                  must == (option # "attractor" /\ guards # {}) \/ todo1 = {}
                              IN IF ~prune_todo_list THEN {todo1}
                                 ELSE {pruned} \cup IF must THEN {} ELSE {todo1}
    /\ UNCHANGED <<family, option, prune_todo_list, result>>

\* extract_minimal_structure_graph with tau[0], tau[1]
extract_minimal_structure_graph ==
    LET step == [v \in DOMAIN G |->
          CASE v \in S(0) /\ G[v].decoration = player(0) -> {st.tau[0][v]}
            [] v \in S(1) /\ G[v].decoration = player(1) -> {st.tau[1][v]}
            [] OTHER -> ToSet(G[v].successors)]
    IN Reachable(step)

\* erase_vertices: the graph without the vertices outside V
restricted(V) ==
    [v \in V |-> [G[v] EXCEPT !.successors = SelectSeq(@, LAMBDA w : w \in V),
                              !.predecessors = SelectSeq(@, LAMBDA w : w \in V)]]

\* The answer of the solver on the vertices V, when it returned r.
Answer(V, use_toms_optimization, r) ==
    [V |-> V, W |-> [a \in 0 .. 1 |-> ToSet(r.W[a])],
     strategy |-> IF use_toms_optimization THEN <<>> ELSE r.st.strategy]

solve_partitions(V, use_toms_optimization) ==
    Answer(V, use_toms_optimization,
           solve_recursive_extended(restricted(V), use_toms_optimization, st))

\* on_end_while_loop, finalize, and the call of solve_structure_graph_algorithm::solve_partitions
Finish ==
    /\ ~Running
    /\ result = NoResult
    /\ \E use_toms_optimization \in BOOLEAN :
         result' = solve_partitions(extract_minimal_structure_graph, use_toms_optimization)
    /\ UNCHANGED <<family, bes, option, prune_todo_list, G, todo, discovered, st>>

Done == result # NoResult /\ UNCHANGED vars

Next == Report \/ Finish \/ Done

Spec == Init /\ [][Next]_vars

-----------------------------------------------------------------------------
(***************************************************************************)
(* What a partial solver solves is right and its strategies show why:      *)
(* player a, who moves from the vertices of S[a] along tau[a], wins all    *)
(* plays from S[a], although the solvers run again and again on a graph    *)
(* with unexplored vertices, which the other player gets.  (G and S do not *)
(* change once there is a result.)                                         *)
(***************************************************************************)
FollowTau(a) ==
    Follow(Game(G), [v \in {u \in S(a) : G[u].decoration = player(a)} |-> st.tau[a][v]])
StrategiesWin ==
    result = NoResult => \A a \in 0 .. 1 :
        /\ \A v \in S(a) : G[v].decoration = player(a) => In(st.tau[a][v], G[v].successors)
        /\ AllPlaysWon(FollowTau(a), S(a), a)

(***************************************************************************)
(* strategies_are_set_in_solved_nodes (pbesinst_structure_graph2.h), which *)
(* is asserted after every partial solver and at the end of the loop.      *)
(***************************************************************************)
strategies_are_set_in_solved_nodes ==
    \A a \in 0 .. 1 : \A v \in S(a) :
        G[v].decoration = player(a) => st.tau[a][v] # undefined_vertex

(***************************************************************************)
(* The graph that is handed to the solver at the end is completely         *)
(* explored (the assertion G.is_defined() in solve_partitions).            *)
(***************************************************************************)
ExtractedIsDefined == \A v \in result.V : is_defined(Game(G)[v])

(***************************************************************************)
(* The solver finds for every vertex that it is given the solution of the  *)
(* equation system, however much of the system was explored and pruned,    *)
(* and whatever the equations are that were never looked at; with and      *)
(* without Tom's optimisation.                                             *)
(***************************************************************************)
AnswerCorrect ==
    result # NoResult =>
        /\ result.W[0] \cup result.W[1] = result.V
        /\ \A a \in 0 .. 1 : Wins(bes, result.W[a], a)

(***************************************************************************)
(* The strategies that the recursive algorithm leaves in the vertices win: *)
(* each player, moving along them, wins the vertices found for that player *)
(* (what check_solve_recursive_solution tests for the initial vertex).     *)
(***************************************************************************)
FollowStrategy(a) ==
    Follow(Game(restricted(result.V)),
           [v \in {u \in result.W[a] : G[u].decoration = player(a)} |-> result.strategy[v]])
SolverStrategyWins ==
    result.strategy # <<>> =>
        \A a \in 0 .. 1 :
            /\ \A v \in result.W[a] : G[v].decoration = player(a) =>
                   In(result.strategy[v], G[v].successors) /\ result.strategy[v] \in result.V
            /\ AllPlaysWon(FollowStrategy(a), result.W[a], a)
=============================================================================
