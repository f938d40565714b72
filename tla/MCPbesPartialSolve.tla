------------------------- MODULE MCPbesPartialSolve -------------------------
(***************************************************************************)
(* Instances of PbesPartialSolve: three families of equation systems,      *)
(* named by their number of variables.                                     *)
(***************************************************************************)
EXTENDS PbesPartialSolve

MCVertex == 0 .. 4

\* The conjunctions and disjunctions of two variables of W, in any order.
Pairs(W, R) ==
    [decoration : {"d_disjunction", "d_conjunction"}, rank : R,
     successors : {s \in W \X W : s[1] # s[2]}]

Single(W, R) == [decoration : {"d_none"}, rank : R, successors : {<<v>> : v \in W}]
Constant == [decoration : {"d_true", "d_false"}, rank : {0}, successors : {<<>>}]

\* All systems on three variables with ranks 0 and 1.
Three(v) ==
    IF v < 3 THEN Pairs(0 .. 2, 0 .. 1) \cup Single(0 .. 2, 0 .. 1) \cup Constant ELSE {}

\* On four variables, conjunctions and disjunctions of two others in the order of creation.
Four(v) ==
    IF v < 4 THEN {e \in Pairs((0 .. 3) \ {v}, IF v = 0 THEN 0 .. 1 ELSE {v % 2}) :
                     e.successors[1] < e.successors[2]}
    ELSE {}

\* On five variables, one graph of dependencies with two cycles through 0 and one through 3;
\* the lower ranks are on the cycles through 0.
Five(v) ==
    CASE v = 0 -> Pairs({1, 2}, {0})
      [] v = 1 -> Pairs({2, 3}, {0})
      [] v = 2 -> Pairs({0, 3}, {1})
      [] v = 3 -> Pairs({0, 4}, {1})
      [] v = 4 -> Single({1, 3}, 0 .. 1)

MCEquations(n, v) == CASE n = 3 -> Three(v) [] n = 4 -> Four(v) [] n = 5 -> Five(v)
=============================================================================
