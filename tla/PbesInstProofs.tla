--------------------------- MODULE PbesInstProofs ---------------------------
(***************************************************************************)
(* Proofs about PbesInst, for every equation system, every number of       *)
(* threads, every sound partial solver and every timing.                   *)
(***************************************************************************)
EXTENDS PbesInst, FiniteSetTheorems, TLAPS

\* A reported vertex is not the vertex of an unknown equation, and a vertex
\* that looks unexplored to prune_todo_list has no equation.
LEMMA ReportedIsKnown ==
    /\ NewVertex \notin Reported
    /\ \A u \in Reported \cup {NewVertex} :
         u.decoration = "d_none" /\ u.successors = {} => u = NewVertex
  BY DEF NewVertex, Reported, is_defined, Decoration, undefined_index

\* The right-hand side with phi_substitution is one of a known equation.
LEMMA SubstitutionType ==
    ASSUME NEW X \in Vertex, NEW u \in Reported
    PROVE  phi_substitution(X, u) \in Reported
<1> DEFINE value == IF u.rank % 2 = 0 THEN "d_true" ELSE "d_false"
           others == u.successors \ {X}
<1>1. ASSUME NEW d \in Decoration, NEW s \in SUBSET Vertex, s # {} \/ d \in {"d_true", "d_false"}
      PROVE  [decoration |-> d, rank |-> u.rank, successors |-> s] \in Reported
  BY <1>1 DEF Reported, is_defined
<1>2. value \in {"d_true", "d_false"} /\ value \in Decoration
  BY DEF Decoration
<1>3. u.decoration \in Decoration /\ "d_none" \in Decoration /\ others \in SUBSET Vertex
  BY DEF Reported, Decoration
<1> HIDE DEF value
<1>4. [decoration |-> value, rank |-> u.rank, successors |-> {}] \in Reported
  BY <1>1, <1>2
<1>5. others # {} => \A d \in {"d_none", u.decoration} :
        [decoration |-> d, rank |-> u.rank, successors |-> others] \in Reported
  BY <1>1, <1>3
<1> QED
  BY <1>4, <1>5, Zenon DEF phi_substitution, value

\* Rplus gives a vertex for a known equation.
LEMMA RplusType ==
    ASSUME NEW u \in Reported, NEW s \in [0 .. 1 -> SUBSET Vertex], NEW r \in Rplus(u, s)
    PROVE  r \in [b : 0 .. 2, u : Reported]
<1> DEFINE decides == IF u.decoration = "d_disjunction" THEN 0 ELSE 1
           kept(y) == [decoration |-> "d_none", rank |-> u.rank, successors |-> {y}]
<1>1. CASE \E y \in u.successors : r = [b |-> decides, u |-> kept(y)]
  <2>1. PICK y \in u.successors : r = [b |-> decides, u |-> kept(y)]
    BY ZenonT(60), <1>1
  <2>2. kept(y) \in Reported
    BY <2>1 DEF Reported, is_defined, Decoration
  <2> QED
    BY <2>1, <2>2
<1>2. CASE \E n \in 0 .. 2 : r = [b |-> n, u |-> u]
  BY <1>2
<1> QED
  BY <1>1, <1>2 DEF Rplus

\* A partial solver only adds to the solved vertices.
LEMMA SolverGrows ==
    ASSUME NEW H, NEW s \in [0 .. 1 -> SUBSET Vertex], NEW r \in PartialSolver(H, s)
    PROVE  /\ r \in [0 .. 1 -> SUBSET Vertex]
           /\ s[0] \subseteq r[0] /\ s[1] \subseteq r[1]
<1>1. PICK more0 \in SUBSET Determined(H, 0), more1 \in SUBSET Determined(H, 1) :
        /\ s[0] \subseteq more0 /\ s[1] \subseteq more1
        /\ r = [a \in 0 .. 1 |-> IF a = 0 THEN more0 ELSE more1]
  BY DEF PartialSolver
<1>2. Determined(H, 0) \subseteq Vertex /\ Determined(H, 1) \subseteq Vertex
  BY DEF Determined
<1> QED
  BY <1>1, <1>2

\* What prune_todo_list finds lies in every closed set of vertices.
LEMMA FrontierInClosed ==
    ASSUME NEW H, NEW s, NEW C \in SUBSET Vertex, Closed(H, s, C)
    PROVE  \A v \in Frontier(H, s) :
             v \in C /\ H[v].decoration = "d_none" /\ H[v].successors = {}
  BY DEF Frontier, Reached

-----------------------------------------------------------------------------
LEMMA InitIInv == Init => IInv
<1> SUFFICES ASSUME Init
             PROVE  IInv
  OBVIOUS
<1>1. bes[init] \in Reported
  BY SystemsAssumption, InitAssumption DEF Init
<1>2. Cardinality(Thread) \in Nat /\ Cardinality(Thread) < Wrap /\ Wrap \in Nat
  BY ThreadAssumption, FS_CardinalityType
<1>3. TypeOK
  <2>1. /\ psi_e \in [Thread -> [b : 0 .. 2, u : Reported]]
        /\ G \in [Vertex -> Reported \cup {NewVertex}]
        /\ S \in [0 .. 1 -> SUBSET Vertex]
    BY <1>1 DEF Init
  <2>2. number_of_active_processes \in 0 .. Wrap - 1
    BY <1>2 DEF Init
  <2> QED
    BY <2>1, <2>2, InitAssumption DEF Init, TypeOK, PC
<1>4. TodoUndefined /\ RoundsPassed /\ WorkApart
  BY InitAssumption DEF Init, TodoUndefined, RoundsPassed, WorkApart, Current, Busy
<1>5. DiscoveredClosed
  BY DEF Init, DiscoveredClosed
<1>6. WorkKept
  BY DEF Init, WorkKept, Pending
<1>7. SomeoneAwake
  BY DEF Init, SomeoneAwake
<1> QED
  BY <1>3, <1>4, <1>5, <1>6, <1>7 DEF IInv

-----------------------------------------------------------------------------
\* The steps that only move a thread on, between points where it works on no variable.
LEMMA IdleStep ==
    ASSUME IInv, NEW t \in Thread, NEW p \in PC, pc' = [pc EXCEPT ![t] = p],
           pc[t] \notin {"rewrite", "report", "loop"}, p \notin {"rewrite", "report", "loop"},
           number_of_active_processes' \in 0 .. Wrap - 1,
           \/ p = "fetch" /\ UNCHANGED number_of_active_processes
           \/ pc[t] \notin {"while", "fetch"}
           \/ number_of_active_processes = 0,
           UNCHANGED <<inputs, X_e, psi_e, local_current_prune_round, todo, discovered, G, S,
                       global_current_prune_round>>
    PROVE  IInv'
<1> USE DEF inputs
<1>1. \A u \in Thread : Current(u)' <=> Current(u)
  BY DEF IInv, TypeOK, Current, Busy
<1>2. Pending' = Pending
  BY <1>1 DEF Pending
<1>3. TypeOK'
  BY DEF IInv, TypeOK
<1>4. TodoUndefined' /\ RoundsPassed' /\ WorkApart'
  BY <1>1 DEF IInv, TodoUndefined, RoundsPassed, WorkApart
<1>5. DiscoveredClosed' /\ WorkKept'
  BY <1>2 DEF IInv, DiscoveredClosed, WorkKept, Frontier, Reached, Closed
<1>6. SomeoneAwake'
  <2> SUFFICES ASSUME todo # {}, ~solution_found(S)
               PROVE  SomeoneAwake'
    BY DEF SomeoneAwake, solution_found
  <2>1. CASE \E u \in Thread : pc[u] \in {"rewrite", "report", "loop"}
    BY <2>1 DEF SomeoneAwake, IInv, TypeOK
  <2>2. CASE /\ \A u \in Thread : pc[u] \in {"while", "fetch"}
             /\ number_of_active_processes = Cardinality(Thread)
    <3>1. Cardinality(Thread) # 0
      BY ThreadAssumption, FS_EmptySet
    <3> QED
      BY <2>2, <3>1 DEF SomeoneAwake, IInv, TypeOK
  <2> QED
    BY <2>1, <2>2 DEF IInv, SomeoneAwake
<1> QED
  BY <1>3, <1>4, <1>5, <1>6 DEF IInv

LEMMA WhileStep ==
    ASSUME IInv, NEW t \in Thread, While(t)
    PROVE  IInv'
<1>1. number_of_active_processes' \in 0 .. Wrap - 1
  BY DEF IInv, TypeOK, While
<1>2. CASE number_of_active_processes > 0
  BY ZenonT(60), <1>1, <1>2, IdleStep DEF While, PC
<1>3. CASE ~(number_of_active_processes > 0)
  <2>1. number_of_active_processes = 0
    BY <1>3, ThreadAssumption DEF IInv, TypeOK
  <2> QED
    BY ZenonT(60), <1>1, <1>3, <2>1, IdleStep DEF While, PC
<1> QED
  BY <1>2, <1>3

\* leave, wake and again
LEMMA CountStep ==
    ASSUME IInv, NEW t \in Thread, Leave(t) \/ Wake(t) \/ Again(t)
    PROVE  IInv'
<1>1. number_of_active_processes' \in 0 .. Wrap - 1
  <2> DEFINE n == number_of_active_processes
  <2>1. n \in Nat /\ n < Wrap /\ Wrap \in Nat /\ Wrap > 0
    BY ThreadAssumption DEF IInv, TypeOK
  <2>2. (n + Wrap - 1) % Wrap \in 0 .. Wrap - 1 /\ (n + 1) % Wrap \in 0 .. Wrap - 1
    BY SMTT(60), <2>1
  <2> QED
    BY <2>1, <2>2 DEF Leave, Wake, Again
<1>2. CASE Leave(t)
  BY ZenonT(60), <1>1, <1>2, IdleStep DEF Leave, PC
<1>3. CASE Wake(t)
  <2>1. PICK p \in {"again", "while"} : pc' = [pc EXCEPT ![t] = p]
    BY ZenonT(60), <1>3 DEF Wake
  <2> QED
    BY ZenonT(60), <1>1, <1>3, <2>1, IdleStep DEF Wake, PC
<1>4. CASE Again(t)
  BY ZenonT(60), <1>1, <1>4, IdleStep DEF Again, PC
<1> QED
  BY <1>2, <1>3, <1>4

LEMMA RewriteStep ==
    ASSUME IInv, NEW t \in Thread, RewritePsi(t)
    PROVE  IInv'
<1> USE DEF inputs
<1>1. PICK r \in Rplus(phi_substitution(X_e[t], bes[X_e[t]]), S) : psi_e' = [psi_e EXCEPT ![t] = r]
  BY ZenonT(60) DEF RewritePsi
<1>2. r \in [b : 0 .. 2, u : Reported]
  <2>1. /\ X_e[t] \in Vertex /\ bes[X_e[t]] \in Reported
        /\ S \in [0 .. 1 -> SUBSET Vertex]
    BY SystemsAssumption DEF IInv, TypeOK
  <2>2. phi_substitution(X_e[t], bes[X_e[t]]) \in Reported
    BY <2>1, SubstitutionType
  <2> QED
    BY <1>1, <2>1, <2>2, RplusType
<1>3. \A u \in Thread : Current(u)' <=> Current(u)
  BY DEF RewritePsi, IInv, TypeOK, Current, Busy
<1>4. Pending' = Pending
  BY <1>3 DEF Pending, RewritePsi
<1>5. TypeOK'
  BY <1>1, <1>2 DEF IInv, TypeOK, RewritePsi, PC
<1>6. TodoUndefined' /\ RoundsPassed' /\ WorkApart'
  BY <1>3 DEF IInv, TodoUndefined, RoundsPassed, WorkApart, RewritePsi
<1>7. DiscoveredClosed' /\ WorkKept'
  BY <1>4 DEF IInv, DiscoveredClosed, WorkKept, Frontier, Reached, Closed, RewritePsi
<1>8. SomeoneAwake'
  BY DEF IInv, TypeOK, SomeoneAwake, RewritePsi
<1> QED
  BY <1>5, <1>6, <1>7, <1>8 DEF IInv

\* The inner loop is left because the list is empty.
LEMMA EmptyStep ==
    ASSUME IInv, NEW t \in Thread, Fetch(t), todo = {}
    PROVE  IInv'
<1> USE DEF inputs
<1>1. /\ pc[t] \in {"fetch", "loop"} /\ pc' = [pc EXCEPT ![t] = "leave"]
      /\ UNCHANGED <<inputs, X_e, psi_e, local_current_prune_round, todo, discovered, G, S,
                     global_current_prune_round, number_of_active_processes>>
  BY DEF Fetch
<1>2. \A u \in Thread : Current(u)' <=> Current(u)
  BY <1>1 DEF IInv, TypeOK, Current, Busy
<1>3. Pending' = Pending
  BY <1>1, <1>2 DEF Pending
<1>4. TypeOK'
  BY <1>1 DEF IInv, TypeOK, PC
<1>5. TodoUndefined' /\ RoundsPassed' /\ WorkApart'
  BY <1>1, <1>2 DEF IInv, TodoUndefined, RoundsPassed, WorkApart
<1>6. DiscoveredClosed' /\ WorkKept'
  BY <1>1, <1>3 DEF IInv, DiscoveredClosed, WorkKept, Frontier, Reached, Closed
<1>7. SomeoneAwake'
  BY <1>1 DEF SomeoneAwake
<1> QED
  BY <1>4, <1>5, <1>6, <1>7 DEF IInv

\* A thread takes a variable from the list.
LEMMA TakeStep ==
    ASSUME IInv, NEW t \in Thread, Fetch(t), todo # {}
    PROVE  IInv'
<1> USE DEF inputs
<1>1. PICK X \in todo :
        /\ X_e' = [X_e EXCEPT ![t] = X]
        /\ todo' = todo \ {X}
        /\ local_current_prune_round' =
               [local_current_prune_round EXCEPT ![t] = global_current_prune_round]
        /\ pc' = [pc EXCEPT ![t] = "rewrite"]
  BY DEF Fetch
<1>2. /\ pc[t] \notin {"rewrite", "report"}
      /\ UNCHANGED <<inputs, psi_e, discovered, G, S, global_current_prune_round,
                     number_of_active_processes>>
  BY DEF Fetch
<1>3. Current(t)' /\ ~Current(t) /\ X_e'[t] = X
  BY <1>1, <1>2 DEF IInv, TypeOK, Current, Busy
<1>4. \A u \in Thread \ {t} : X_e'[u] = X_e[u] /\ (Current(u)' <=> Current(u))
  BY <1>1, <1>2 DEF IInv, TypeOK, Current, Busy
<1>5. Pending' = Pending
  BY <1>1, <1>3, <1>4 DEF Pending
<1>6. TypeOK'
  BY <1>1, <1>2 DEF IInv, TypeOK, PC
<1>7. TodoUndefined'
  BY <1>1, <1>2, <1>3, <1>4 DEF IInv, TodoUndefined
<1>8. RoundsPassed'
  BY <1>1, <1>2 DEF IInv, TypeOK, RoundsPassed
<1>9. WorkApart'
  BY SMTT(60), <1>1, <1>2, <1>3, <1>4 DEF IInv, TodoUndefined, WorkApart
<1>10. DiscoveredClosed' /\ WorkKept'
  BY <1>2, <1>5 DEF IInv, DiscoveredClosed, WorkKept, Frontier, Reached, Closed
<1>11. SomeoneAwake'
  BY <1>1 DEF SomeoneAwake, IInv, TypeOK
<1> QED
  BY <1>6, <1>7, <1>8, <1>9, <1>10, <1>11 DEF IInv

-----------------------------------------------------------------------------
\* A thread finds that the list was pruned, and does not report its equation.
LEMMA IgnoreStep ==
    ASSUME IInv, NEW t \in Thread, Report(t), ~UpToDate(t)
    PROVE  IInv'
<1> USE DEF inputs
<1>1. /\ pc[t] = "report" /\ pc' = [pc EXCEPT ![t] = "loop"]
      /\ UNCHANGED <<inputs, X_e, psi_e, local_current_prune_round, todo, discovered, G, S,
                     global_current_prune_round, number_of_active_processes>>
  BY DEF Report
<1>2. \A u \in Thread : Current(u)' <=> Current(u)
  BY <1>1 DEF IInv, TypeOK, Current, Busy, UpToDate
<1>3. Pending' = Pending
  BY <1>1, <1>2 DEF Pending
<1>4. TypeOK'
  BY SMTT(60), <1>1 DEF IInv, TypeOK, PC
<1>5. TodoUndefined' /\ RoundsPassed' /\ WorkApart'
  BY SMTT(60), <1>1, <1>2 DEF IInv, TodoUndefined, RoundsPassed, WorkApart
<1>6. DiscoveredClosed' /\ WorkKept'
  BY SMTT(60), <1>1, <1>3 DEF IInv, DiscoveredClosed, WorkKept, Frontier, Reached, Closed
<1>7. SomeoneAwake'
  BY SMTT(60), <1>1 DEF SomeoneAwake, IInv, TypeOK
<1> QED
  BY <1>4, <1>5, <1>6, <1>7 DEF IInv

\* A thread reports its equation.
LEMMA ReportStep ==
    ASSUME IInv, NEW t \in Thread, Report(t), UpToDate(t)
    PROVE  IInv'
<1> USE DEF inputs
<1> DEFINE X == X_e[t]
           r == psi_e[t]
           H == [G EXCEPT ![X] = r.u]
           occ == r.u.successors
           todo1 == todo \cup (occ \ discovered)
           S1 == IF r.b = 2 THEN S ELSE [S EXCEPT ![r.b] = @ \cup {X}]
<1>1. /\ pc[t] = "report" /\ ReportEquation(t)
      /\ pc' = [pc EXCEPT ![t] = AfterReport(S')]
      /\ UNCHANGED <<inputs, X_e, psi_e, local_current_prune_round,
                     number_of_active_processes>>
  BY SMTT(60) DEF Report
<1>2. /\ G' = H /\ discovered' = discovered \cup occ /\ S' \in PartialSolver(H, S1)
      /\ \E prune \in prune_conditional(todo1) :
           IF prune THEN /\ todo' = Frontier(H, S')
                         /\ global_current_prune_round' = global_current_prune_round + 1
           ELSE todo' = todo1 /\ UNCHANGED global_current_prune_round
  BY ZenonT(60), <1>1 DEF ReportEquation
<1>3. Current(t) /\ X \in Vertex /\ X \in discovered /\ G[X] = NewVertex /\ X \notin todo
  BY <1>1 DEF UpToDate, Current, Busy, IInv, TypeOK, WorkApart, TodoUndefined
<1>4. r.u \in Reported /\ r.u # NewVertex /\ occ \subseteq Vertex /\ r.b \in 0 .. 2
  <2>1. r \in [b : 0 .. 2, u : Reported]
    BY DEF IInv, TypeOK
  <2>2. r.u.successors \subseteq Vertex
    BY <2>1 DEF Reported
  <2> QED
    BY <2>1, <2>2, ReportedIsKnown
<1>5. /\ H \in [Vertex -> Reported \cup {NewVertex}] /\ H[X] = r.u
      /\ \A v \in Vertex \ {X} : H[v] = G[v]
  BY <1>3, <1>4 DEF IInv, TypeOK
<1>6. /\ S' \in [0 .. 1 -> SUBSET Vertex]
      /\ solution_found(S) => solution_found(S')
  <2>1. S1 \in [0 .. 1 -> SUBSET Vertex] /\ S[0] \subseteq S1[0] /\ S[1] \subseteq S1[1]
    BY SMTT(60), <1>3, <1>4 DEF IInv, TypeOK
  <2> HIDE DEF S1
  <2>2. S' \in [0 .. 1 -> SUBSET Vertex] /\ S1[0] \subseteq S'[0] /\ S1[1] \subseteq S'[1]
    BY SMTT(60), <1>2, <2>1, SolverGrows
  <2> QED
    BY SMTT(60), <2>1, <2>2 DEF solution_found
<1> HIDE DEF S1
<1>7. discovered' \subseteq Vertex /\ discovered \subseteq discovered'
  BY SMTT(60), <1>2, <1>4 DEF IInv, TypeOK
<1>8. DiscoveredClosed'
  BY SMTT(60), <1>2, <1>3, <1>4, <1>5 DEF IInv, DiscoveredClosed
<1>9. \A v \in Frontier(H, S') : v \in discovered' /\ H[v] = NewVertex
  <2>1. \A v \in discovered' : H[v].successors \subseteq discovered'
    <3>1. NewVertex.successors = {}
      BY DEF NewVertex
    <3> QED
      BY <1>2, <1>7, <1>8, <3>1 DEF DiscoveredClosed
  <2>2. Closed(H, S', discovered')
    BY <1>8, <2>1 DEF Closed, DiscoveredClosed
  <2> HIDE DEF H
  <2>3. \A v \in Frontier(H, S') :
          v \in discovered' /\ H[v].decoration = "d_none" /\ H[v].successors = {}
    BY <1>7, <2>2, FrontierInClosed
  <2> QED
    BY SMTT(60), <1>5, <1>7, <2>3, ReportedIsKnown
<1>10. \A u \in Thread \ {t} :
         Current(u) => X_e[u] # X /\ X_e[u] \in discovered /\ G[X_e[u]] = NewVertex
                       /\ X_e[u] \notin todo /\ X_e[u] \in Vertex
  BY <1>3 DEF IInv, TypeOK, WorkApart, TodoUndefined
<1>11. ~Current(t)'
  BY <1>1 DEF Current, Busy, IInv, TypeOK, AfterReport
<1>12. SomeoneAwake'
  <2>1. CASE solution_found(S')
    BY SMTT(60), <2>1 DEF SomeoneAwake, solution_found
  <2>2. CASE ~solution_found(S')
    BY <1>1, <2>2 DEF SomeoneAwake, IInv, TypeOK, AfterReport
  <2> QED
    BY <2>1, <2>2
<1>13. CASE /\ todo' = Frontier(H, S') /\ prune_todo_list
            /\ global_current_prune_round' = global_current_prune_round + 1
  <2>1. TypeOK'
    <3>1. todo' \subseteq Vertex
      BY ZenonT(60), <1>7, <1>9, <1>13
    <3>2. global_current_prune_round' \in Nat
      BY <1>13 DEF IInv, TypeOK
    <3>3. pc' \in [Thread -> PC]
      BY <1>1 DEF IInv, TypeOK, PC, AfterReport
    <3> HIDE DEF H
    <3> QED
      BY ZenonT(60), <1>1, <1>2, <1>5, <1>6, <1>7, <3>1, <3>2, <3>3 DEF IInv, TypeOK
  <2>2. RoundsPassed' /\ \A u \in Thread : ~Current(u)'
    BY <1>1, <1>13 DEF IInv, TypeOK, RoundsPassed, Current
  <2>3. TodoUndefined' /\ WorkApart'
    BY ZenonT(60), <1>2, <1>9, <1>13, <2>2 DEF TodoUndefined, WorkApart
  <2>4. WorkKept'
    BY ZenonT(60), <1>1, <1>2, <1>13 DEF WorkKept, Pending
  <2> QED
    BY SMTT(60), <1>8, <1>12, <2>1, <2>2, <2>3, <2>4 DEF IInv
<1>14. CASE /\ todo' = todo1 /\ UNCHANGED global_current_prune_round
            /\ prune_todo_list => todo1 # {}
  <2>1. TypeOK'
    BY <1>1, <1>2, <1>4, <1>5, <1>6, <1>7, <1>14 DEF IInv, TypeOK, PC, AfterReport
  <2>2. \A u \in Thread \ {t} : Current(u)' <=> Current(u)
    BY <1>1, <1>14 DEF IInv, TypeOK, Current, Busy
  <2>3. RoundsPassed'
    BY ZenonT(60), <1>1, <1>14 DEF IInv, RoundsPassed
  <2>4. TodoUndefined'
    <3>1. \A v \in todo1 : v \in discovered' /\ v \in Vertex \ {X} /\ G[v] = NewVertex
      BY ZenonT(60), <1>2, <1>3, <1>4, <1>7 DEF IInv, TypeOK, TodoUndefined, DiscoveredClosed
    <3>2. \A u \in Thread : Current(u)' => X_e'[u] \notin todo'
      BY SMTT(60), <1>1, <1>10, <1>11, <1>14, <2>2
    <3> QED
      BY ZenonT(60), <1>2, <1>5, <1>14, <3>1, <3>2 DEF TodoUndefined
  <2>5. WorkApart'
    BY ZenonT(60), <1>1, <1>2, <1>5, <1>7, <1>10, <1>11, <2>2 DEF IInv, WorkApart
  <2>6. WorkKept'
    <3>1. CASE prune_todo_list
      BY ZenonT(60), <1>1, <1>14, <3>1 DEF WorkKept, Pending
    <3>2. CASE ~prune_todo_list
      <4>1. global_current_prune_round' = 0
        BY <1>14, <3>2 DEF IInv, WorkKept
      <4>2. ASSUME NEW v \in discovered', H[v] = NewVertex
            PROVE  v \in Pending'
        <5>1. v # X /\ v \in Vertex /\ G[v] = NewVertex
          BY SMTT(60), <1>4, <1>5, <1>7, <4>2
        <5>2. CASE v \notin discovered
          BY SMTT(60), <1>2, <1>14, <5>2 DEF Pending
        <5>3. CASE v \in discovered
          <6>1. v \in Pending
            BY SMTT(60), <3>2, <5>1, <5>3 DEF IInv, WorkKept
          <6>2. CASE v \in todo
            BY SMTT(60), <1>14, <6>2 DEF Pending
          <6>3. CASE \E u \in Thread : Current(u) /\ v = X_e[u]
            BY SMTT(60), <1>1, <2>2, <5>1, <6>3 DEF Pending
          <6> QED
            BY <6>1, <6>2, <6>3 DEF Pending
        <5> QED
          BY SMTT(60), <5>2, <5>3
      <4> QED
        BY SMTT(60), <1>1, <1>2, <3>2, <4>1, <4>2 DEF WorkKept
    <3> QED
      BY SMTT(60), <3>1, <3>2
  <2> QED
    BY <1>8, <1>12, <2>1, <2>3, <2>4, <2>5, <2>6 DEF IInv
<1>15. \/ /\ todo' = Frontier(H, S') /\ prune_todo_list
          /\ global_current_prune_round' = global_current_prune_round + 1
       \/ /\ todo' = todo1 /\ UNCHANGED global_current_prune_round
          /\ prune_todo_list => todo1 # {}
  BY ZenonT(60), <1>2 DEF prune_conditional, IInv, TypeOK
<1> QED
  BY <1>13, <1>14, <1>15

-----------------------------------------------------------------------------
LEMMA NextIInv == IInv /\ [Next]_vars => IInv'
<1> SUFFICES ASSUME IInv, [Next]_vars
             PROVE  IInv'
  OBVIOUS
<1>1. ASSUME NEW t \in Thread, Step(t)
      PROVE  IInv'
  <2>1. CASE While(t)
    BY <2>1, WhileStep
  <2>2. CASE Fetch(t)
    BY <2>2, EmptyStep, TakeStep
  <2>3. CASE RewritePsi(t)
    BY <2>3, RewriteStep
  <2>4. CASE Report(t)
    BY <2>4, IgnoreStep, ReportStep
  <2>5. CASE Leave(t) \/ Wake(t) \/ Again(t)
    BY <2>5, CountStep
  <2> QED
    BY <1>1, <2>1, <2>2, <2>3, <2>4, <2>5 DEF Step
<1>2. CASE UNCHANGED vars
  BY SMTT(60), <1>2 DEF vars, IInv, TypeOK, TodoUndefined, RoundsPassed, WorkApart, DiscoveredClosed,
              WorkKept, SomeoneAwake, Current, Busy, Pending, Frontier, Reached, Closed,
              solution_found
<1> QED
  BY <1>1, <1>2 DEF Next

LEMMA Invariance == Spec => []IInv
  BY InitIInv, NextIInv, PTL DEF Spec

(***************************************************************************)
(* The variables of run_thread keep their types; in particular the number  *)
(* of active processes is a std::size_t, whatever the threads do.          *)
(***************************************************************************)
THEOREM TypeCorrect == Spec => []TypeOK
<1>1. IInv => TypeOK
  BY DEF IInv
<1> QED
  BY <1>1, Invariance, PTL

(***************************************************************************)
(* todo_has_only_undefined_nodes: the todo list holds discovered variables *)
(* without an equation, none of which a thread is working on, also after   *)
(* prune_todo_list has replaced it.                                        *)
(***************************************************************************)
THEOREM TodoCorrect == Spec => []TodoUndefined
<1>1. IInv => TodoUndefined
  BY DEF IInv
<1> QED
  BY <1>1, Invariance, PTL

(***************************************************************************)
(* on_report_equation never replaces an equation: the comparison of the    *)
(* prune rounds in run_thread is enough to keep two threads from reporting *)
(* the same variable.                                                      *)
(***************************************************************************)
THEOREM ReportedOnce == Spec => ReportOnce
<1> DEFINE Kept == \A v \in Vertex : G[v] # NewVertex => G'[v] = G[v]
<1>1. IInv /\ [Next]_vars => [Kept]_vars
  <2> SUFFICES ASSUME IInv, Next
               PROVE  Kept
    OBVIOUS
  <2>1. ASSUME NEW t \in Thread, Report(t), UpToDate(t)
        PROVE  Kept
    <3>1. G' = [G EXCEPT ![X_e[t]] = psi_e[t].u] /\ Current(t)
      BY ZenonT(60), <2>1 DEF Report, ReportEquation, UpToDate, Current, Busy
    <3>2. G[X_e[t]] = NewVertex
      BY SMTT(60), <3>1 DEF IInv, WorkApart
    <3> QED
      BY SMTT(60), <3>1, <3>2 DEF IInv, TypeOK
  <2>2. ASSUME NEW t \in Thread, Step(t), ~(Report(t) /\ UpToDate(t))
        PROVE  G' = G
    BY <2>2 DEF Step, While, Fetch, RewritePsi, Report, Leave, Wake, Again
  <2> QED
    BY <2>1, <2>2 DEF Next, Step, vars
<1> QED
  BY <1>1, Invariance, PTL DEF Spec, ReportOnce

(***************************************************************************)
(* When all threads have stopped, the initial variable is solved or all    *)
(* that it depends on has been explored: the equations that run_thread     *)
(* ignores after a pruning are not missed, and no thread stops while there *)
(* is work for it, even if the count of active processes has gone wrong.   *)
(***************************************************************************)
THEOREM WorkNotLost == Spec => []NoWorkLost
<1>1. IInv => NoWorkLost
  <2> SUFFICES ASSUME IInv, Stopped, ~solution_found(S)
               PROVE  Frontier(G, S) = {}
    BY DEF NoWorkLost
  <2>1. PICK t \in Thread : TRUE
    BY ThreadAssumption
  <2>2. todo = {}
    BY <2>1 DEF IInv, SomeoneAwake, Stopped
  <2>3. Pending = {}
    BY <2>2 DEF Pending, Stopped, Current, Busy
  <2>4. CASE ~prune_todo_list
    <3>1. discovered \subseteq Vertex /\ Closed(G, S, discovered)
      BY SMTT(60) DEF IInv, TypeOK, DiscoveredClosed, Closed, NewVertex
    <3>2. \A v \in Frontier(G, S) : v \in discovered /\ G[v] = NewVertex
      BY SMTT(60), <3>1, FrontierInClosed, ReportedIsKnown DEF IInv, TypeOK
    <3> QED
      BY SMTT(60), <2>3, <2>4, <3>2 DEF IInv, WorkKept
  <2> QED
    BY <2>3, <2>4 DEF IInv, WorkKept
<1> QED
  BY <1>1, Invariance, PTL
=============================================================================
