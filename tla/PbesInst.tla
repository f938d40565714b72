------------------------------ MODULE PbesInst ------------------------------
(***************************************************************************)
(* Parallel instantiation of a PBES: pbesinst_lazy_algorithm::run and      *)
(* run_thread (pbesinst_lazy.h), with the structure graph and the pruning  *)
(* of pbesinst_structure_graph_algorithm2 (pbesinst_structure_graph2.h).   *)
(*                                                                         *)
(* The threads take variables from the list todo, compute the right-hand   *)
(* side outside the lock, and report the equation under the lock           *)
(* m_todo_access, unless the list was pruned in the meantime.  A report    *)
(* may run a partial solver, which extends the sets S[0], S[1] of solved   *)
(* vertices, and may prune the list.  The partial solver is assumed to be  *)
(* sound and may otherwise solve what it likes; which of the solvers of    *)
(* the library are sound is the subject of module PbesPartialSolve.        *)
(*                                                                         *)
(* A thread that finds the list empty decrements the number of active      *)
(* processes, sleeps, and becomes active again when another thread is.     *)
(* Threads sleep at the same time and wake in any order: the length of the *)
(* sleep says nothing about the order of their next steps.                 *)
(***************************************************************************)
EXTENDS ParityGame

CONSTANTS Thread,
          Systems,      \* Boolean equation systems: [Vertex -> vertices]
          init,         \* the initial variable
          Wrap          \* number of values of std::size_t

ASSUME ThreadAssumption ==
    Thread # {} /\ IsFiniteSet(Thread) /\ Wrap \in Nat /\ Cardinality(Thread) < Wrap
ASSUME InitAssumption == init \in Vertex

\* The vertices that right-hand sides give: never the vertex of an unknown equation.
Reported ==
    {u \in [decoration : Decoration, rank : Nat \ {undefined_index}, successors : SUBSET Vertex] :
        is_defined(u)}

ASSUME SystemsAssumption == Systems \subseteq [Vertex -> Reported]

VARIABLES bes, prune_todo_list, pc, X_e, psi_e, local_current_prune_round,
          todo, discovered, G, S, global_current_prune_round, number_of_active_processes

vars == <<bes, prune_todo_list, pc, X_e, psi_e, local_current_prune_round, todo, discovered, G,
          S, global_current_prune_round, number_of_active_processes>>

\* What does not change: the equation system and the option.
inputs == <<bes, prune_todo_list>>

Init ==
    /\ bes \in Systems
    /\ prune_todo_list \in BOOLEAN
    /\ pc = [t \in Thread |-> "while"]
    /\ X_e = [t \in Thread |-> init]
    /\ psi_e = [t \in Thread |-> [b |-> 2, u |-> bes[init]]]
    /\ local_current_prune_round = [t \in Thread |-> 0]
    /\ todo = {init}
    /\ discovered = {init}
    /\ G = [v \in Vertex |-> NewVertex]
    /\ S = [a \in 0 .. 1 |-> {}]
    /\ global_current_prune_round = 0
    /\ number_of_active_processes = Cardinality(Thread)

-----------------------------------------------------------------------------
\* m_todo_access is held between the report of an equation and the next look at todo.
Unlocked == \A t \in Thread : pc[t] # "loop"

solution_found(s) == init \in s[0] \cup s[1]

\* Mutant: the search also stops at equations with a single variable as right-hand side.
Mutant_Closed(H, s, C) ==
    init \in C /\ \A v \in C \ (s[0] \cup s[1]) : H[v].decoration # "d_none" => H[v].successors \subseteq C

\* The vertices from which a solved or unexplored vertex ends the search: the smallest set
\* with init that contains the successors of its unsolved vertices.
Closed(H, s, C) ==
    init \in C /\ \A v \in C \ (s[0] \cup s[1]) : H[v].successors \subseteq C
Reached(H, s) == {v \in Vertex : \A C \in SUBSET Vertex : Closed(H, s, C) => v \in C}

\* Mutant: a vertex without successors counts as unexplored.
Mutant_Frontier(H, s) == {v \in Reached(H, s) : H[v].successors = {}}

\* prune_todo_list: the new list
Frontier(H, s) == {v \in Reached(H, s) : H[v].decoration = "d_none" /\ H[v].successors = {}}

\* What a sound partial solver may do on graph H: solve more vertices, for players who win them
\* whatever the equations that are not yet known.
PartialSolver(H, s) ==
    {[a \in 0 .. 1 |-> IF a = 0 THEN more0 ELSE more1] :
        more0 \in {m \in SUBSET Determined(H, 0) : s[0] \subseteq m},
        more1 \in {m \in SUBSET Determined(H, 1) : s[1] \subseteq m}}

-----------------------------------------------------------------------------
\* Mutants: the list is not pruned when it becomes empty; the prune round is not looked at;
\* the inner loop is left after every report.
Mutant_prune_conditional(todo1) == IF prune_todo_list THEN BOOLEAN ELSE {FALSE}
Mutant_UpToDate(t) == TRUE
Mutant_AfterReport(s) == "leave"

\* while (number_of_active_processes > 0)
While(t) ==
    /\ pc[t] = "while"
    /\ pc' = [pc EXCEPT ![t] = IF number_of_active_processes > 0 THEN "fetch" ELSE "stopped"]
    /\ UNCHANGED <<inputs, X_e, psi_e, local_current_prune_round, todo, discovered,
                   G, S, global_current_prune_round, number_of_active_processes>>

\* The inner loop takes an element of todo, or is left.
Fetch(t) ==
    /\ (pc[t] = "fetch" /\ Unlocked) \/ pc[t] = "loop"
    /\ \/ /\ todo = {}
          /\ pc' = [pc EXCEPT ![t] = "leave"]
          /\ UNCHANGED <<X_e, local_current_prune_round, todo>>
       \/ \E X \in todo :
            /\ X_e' = [X_e EXCEPT ![t] = X]
            /\ todo' = todo \ {X}
            /\ local_current_prune_round' =
                   [local_current_prune_round EXCEPT ![t] = global_current_prune_round]
            /\ pc' = [pc EXCEPT ![t] = "rewrite"]
    /\ UNCHANGED <<inputs, psi_e, discovered, G, S, global_current_prune_round,
                   number_of_active_processes>>

\* The right-hand side of X_e is computed with phi_substitution, and rewrite_psi uses what is
\* solved.
RewritePsi(t) ==
    /\ pc[t] = "rewrite" /\ Unlocked
    /\ \E r \in Rplus(phi_substitution(X_e[t], bes[X_e[t]]), S) : psi_e' = [psi_e EXCEPT ![t] = r]
    /\ pc' = [pc EXCEPT ![t] = "report"]
    /\ UNCHANGED <<inputs, X_e, local_current_prune_round, todo, discovered, G, S,
                   global_current_prune_round, number_of_active_processes>>

\* prune_conditional: whether the list is pruned.  That depends on the options, on whether a
\* partial solver ran and on amounts of calculation, but is certain when the list is empty.
prune_conditional(todo1) ==
    IF ~prune_todo_list THEN {FALSE} ELSE IF todo1 = {} THEN {TRUE} ELSE BOOLEAN

\* on_report_equation, the insertions into todo and discovered, and on_discovered_elements;
\* a second pruning in the same call finds the list it left.
ReportEquation(t) ==
    LET X == X_e[t]
        r == psi_e[t]
        H == [G EXCEPT ![X] = r.u]
        occ == r.u.successors
        todo1 == todo \cup (occ \ discovered)
        S1 == IF r.b = 2 THEN S ELSE [S EXCEPT ![r.b] = @ \cup {X}]
    IN /\ G' = H
       /\ discovered' = discovered \cup occ
       /\ S' \in PartialSolver(H, S1)
       /\ \E prune \in prune_conditional(todo1) :
            IF prune
            THEN /\ todo' = Frontier(H, S')
                 /\ global_current_prune_round' = global_current_prune_round + 1
            ELSE /\ todo' = todo1
                 /\ UNCHANGED global_current_prune_round

\* Whether the list was not pruned since X_e was taken from it.
UpToDate(t) == local_current_prune_round[t] = global_current_prune_round

\* if (solution_found(init)) break
AfterReport(s) == IF solution_found(s) THEN "leave" ELSE "loop"

Report(t) ==
    /\ pc[t] = "report" /\ Unlocked
    /\ IF UpToDate(t)
       THEN /\ ReportEquation(t)
            /\ pc' = [pc EXCEPT ![t] = AfterReport(S')]
       ELSE /\ pc' = [pc EXCEPT ![t] = "loop"]
            /\ UNCHANGED <<G, discovered, S, todo, global_current_prune_round>>
    /\ UNCHANGED <<inputs, X_e, psi_e, local_current_prune_round,
                   number_of_active_processes>>

\* number_of_active_processes--
Leave(t) ==
    /\ pc[t] = "leave"
    /\ number_of_active_processes' = (number_of_active_processes + Wrap - 1) % Wrap
    /\ pc' = [pc EXCEPT ![t] = "sleep"]
    /\ UNCHANGED <<inputs, X_e, psi_e, local_current_prune_round, todo, discovered,
                   G, S, global_current_prune_round>>

\* The end of the sleep, and the test number_of_active_processes > 0.
Wake(t) ==
    /\ pc[t] = "sleep"
    /\ pc' = [pc EXCEPT ![t] = IF number_of_active_processes > 0 THEN "again" ELSE "while"]
    /\ UNCHANGED <<inputs, X_e, psi_e, local_current_prune_round, todo, discovered,
                   G, S, global_current_prune_round, number_of_active_processes>>

\* number_of_active_processes++
Again(t) ==
    /\ pc[t] = "again"
    /\ number_of_active_processes' = (number_of_active_processes + 1) % Wrap
    /\ pc' = [pc EXCEPT ![t] = "while"]
    /\ UNCHANGED <<inputs, X_e, psi_e, local_current_prune_round, todo, discovered,
                   G, S, global_current_prune_round>>

Step(t) == While(t) \/ Fetch(t) \/ RewritePsi(t) \/ Report(t) \/ Leave(t) \/ Wake(t) \/ Again(t)

Stopped == \A t \in Thread : pc[t] = "stopped"

Next == (\E t \in Thread : Step(t)) \/ (Stopped /\ UNCHANGED vars)

Spec == Init /\ [][Next]_vars

\* Whether Step(t) is enabled, and a step of t, which always moves t on.
CanStep(t) ==
    \/ pc[t] \in {"while", "loop", "leave", "sleep", "again"}
    \/ pc[t] \in {"fetch", "rewrite", "report"} /\ Unlocked
Moves(t) == pc'[t] # pc[t]

\* Every thread is scheduled, and gets the lock, a std::mutex, when it is free for ever:
\* WF_vars(Step(t)) written out, which spares TLC the evaluation of ENABLED Step(t).
FairSpec == Spec /\ \A t \in Thread : []<>(~CanStep(t)) \/ []<><<Moves(t)>>_vars

-----------------------------------------------------------------------------
PC == {"while", "fetch", "loop", "rewrite", "report", "leave", "sleep", "again", "stopped"}

TypeOK ==
    /\ bes \in Systems /\ prune_todo_list \in BOOLEAN
    /\ pc \in [Thread -> PC] /\ X_e \in [Thread -> Vertex]
    /\ psi_e \in [Thread -> [b : 0 .. 2, u : Reported]]
    /\ local_current_prune_round \in [Thread -> Nat] /\ global_current_prune_round \in Nat
    /\ todo \in SUBSET Vertex /\ discovered \in SUBSET Vertex
    /\ G \in [Vertex -> Reported \cup {NewVertex}]
    /\ S \in [0 .. 1 -> SUBSET Vertex]
    /\ number_of_active_processes \in 0 .. Wrap - 1

\* The threads that work on an equation that will be reported.
Busy(t) == pc[t] \in {"rewrite", "report"}
Current(t) == Busy(t) /\ local_current_prune_round[t] = global_current_prune_round

(***************************************************************************)
(* The variables on the todo list have been discovered, have no equation   *)
(* yet and are not being worked on: no variable is on the list twice       *)
(* (check_invariants), and todo_has_only_undefined_nodes holds at any time *)
(* and not only where it is asserted.                                      *)
(***************************************************************************)
TodoUndefined ==
    /\ todo \subseteq discovered
    /\ \A v \in todo : G[v] = NewVertex
    /\ \A t \in Thread : Current(t) => X_e[t] \notin todo

(***************************************************************************)
(* No equation is reported twice: the vertex of a reported equation is     *)
(* never changed, although a variable that another thread is working on    *)
(* may be put on the list again by prune_todo_list.                        *)
(***************************************************************************)
ReportOnce == [][\A v \in Vertex : G[v] # NewVertex => G'[v] = G[v]]_vars

(***************************************************************************)
(* When all threads have stopped, the initial vertex is solved, or every   *)
(* vertex that it depends on over unsolved vertices has been explored: the *)
(* equations that run_thread drops because of a pruning were not needed,   *)
(* or have been done again.                                                *)
(***************************************************************************)
NoWorkLost == Stopped /\ ~solution_found(S) => Frontier(G, S) = {}

(***************************************************************************)
(* When all threads have stopped, the structure graph and the solved       *)
(* vertices determine the solution of the equation system for the initial  *)
(* variable.                                                               *)
(***************************************************************************)
FinalGraph ==
    [v \in Vertex |-> IF v \in S[0] THEN [NewVertex EXCEPT !.decoration = "d_true"]
                      ELSE IF v \in S[1] THEN [NewVertex EXCEPT !.decoration = "d_false"]
                      ELSE G[v]]
AnswerCorrect ==
    Stopped => init \in Determined(FinalGraph, IF init \in Solution(bes) THEN 0 ELSE 1)

(***************************************************************************)
(* The exploration is brought to an end however the threads sleep and      *)
(* wake, and although the test of number_of_active_processes and its       *)
(* increment are separate steps: the initial vertex is solved or all that  *)
(* it depends on is explored.                                              *)
(***************************************************************************)
ExplorationEnds == <>(solution_found(S) \/ Frontier(G, S) = {})

(***************************************************************************)
(* "Check whether all processes are ready.  If so the                      *)
(* number_of_active_processes becomes 0" (comment in run_thread): it is    *)
(* not 0 as long as a thread is in its inner loop.                         *)
(***************************************************************************)
Working(t) == pc[t] \in {"fetch", "loop", "rewrite", "report", "leave"}
ZeroWhenReady == number_of_active_processes = 0 => \A t \in Thread : ~Working(t)

-----------------------------------------------------------------------------
(***************************************************************************)
(* The inductive invariant behind TodoUndefined, ReportOnce and NoWorkLost.*)
(***************************************************************************)
\* The variables that have no equation yet but will get one.
Pending == todo \cup {X_e[t] : t \in {u \in Thread : Current(u)}}

RoundsPassed == \A t \in Thread : local_current_prune_round[t] <= global_current_prune_round

\* No two threads work on the same variable, unless one of them will be ignored.
WorkApart ==
    /\ \A t \in Thread : Current(t) => X_e[t] \in discovered /\ G[X_e[t]] = NewVertex
    /\ \A t, u \in Thread : Current(t) /\ Current(u) /\ X_e[t] = X_e[u] => t = u

\* What has an equation, or occurs in one, has been discovered.
DiscoveredClosed ==
    /\ init \in discovered
    /\ \A v \in Vertex : G[v] # NewVertex => v \in discovered /\ G[v].successors \subseteq discovered

\* Without pruning everything discovered is pending or done; with pruning the list is only
\* empty when a thread will report, or when there is nothing left to explore.
WorkKept ==
    IF prune_todo_list THEN Pending # {} \/ Frontier(G, S) = {}
    ELSE /\ global_current_prune_round = 0
         /\ \A v \in discovered : G[v] = NewVertex => v \in Pending

\* As long as there is something to do, a thread is awake to do it.
SomeoneAwake ==
    todo # {} /\ ~solution_found(S) =>
        \/ \E t \in Thread : pc[t] \in {"rewrite", "report", "loop"}
        \/ /\ \A t \in Thread : pc[t] \in {"while", "fetch"}
           /\ number_of_active_processes = Cardinality(Thread)

IInv ==
    /\ TypeOK /\ TodoUndefined /\ RoundsPassed /\ WorkApart /\ DiscoveredClosed /\ WorkKept
    /\ SomeoneAwake
=============================================================================
