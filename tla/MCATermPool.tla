----------------------------- MODULE MCATermPool -----------------------------
(***************************************************************************)
(* Small instances of ATermPool.  The terms are a constant c, an           *)
(* application f(c) of arity 3, and two terms op(f(c)) and id(c) of arity  *)
(* 2 with an index and a deletion hook; f(c) is swept before op(f(c)).     *)
(***************************************************************************)
EXTENDS ATermPool, TLC

MCTerm == {"c", "f", "op", "id"}
MCArg == ("c" :> {}) @@ ("f" :> {"c"}) @@ ("op" :> {"f"}) @@ ("id" :> {"c"})
MCArity == ("c" :> 0) @@ ("f" :> 3) @@ ("op" :> 2) @@ ("id" :> 2)
MCHooked == {"op", "id"}

\* The smallest set in which the argument of a hooked term is swept before it.
MCFewTerm == {"f", "op"}
MCFewArg == ("f" :> {}) @@ ("op" :> {"f"})
MCFewArity == ("f" :> 3) @@ ("op" :> 2)
MCFewHooked == {"op"}

Symmetry == Permutations(Variable)
=============================================================================
