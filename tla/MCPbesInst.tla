----------------------------- MODULE MCPbesInst -----------------------------
(* Instances of PbesInst: some equation systems on the vertices 0 .. 4. *)
EXTENDS PbesInst, TLC

Eqn(d, r, s) == [decoration |-> d, rank |-> r, successors |-> s]

\* Vertex 3 is found through 1, which is solved by 4 without it, and is needed by 2.
Detour(u3) == (0 :> Eqn("d_conjunction", 0, {1, 2})) @@ (1 :> Eqn("d_disjunction", 0, {3, 4}))
              @@ (2 :> Eqn("d_none", 1, {3})) @@ (3 :> u3) @@ (4 :> Eqn("d_true", 0, {}))

\* Both players have choices, and the vertices are on cycles.
Knot == (0 :> Eqn("d_disjunction", 1, {1, 2})) @@ (1 :> Eqn("d_conjunction", 0, {0, 3}))
        @@ (2 :> Eqn("d_conjunction", 1, {1, 3})) @@ (3 :> Eqn("d_disjunction", 3, {2, 3}))
        @@ (4 :> Eqn("d_true", 0, {}))

MCSystems ==
    { Detour(Eqn("d_true", 0, {})), Detour(Eqn("d_none", 1, {3})), Knot }
=============================================================================
