---------------------------- MODULE MCTermStorage ----------------------------
(***************************************************************************)
(* Instance of TermStorage: two threads, three terms, of which two stay in *)
(* one bucket when the table grows from one bucket to two, and three       *)
(* blocks of two entries.                                                  *)
(***************************************************************************)
EXTENDS TermStorage, TLC

CONSTANTS t1, t2, k1, k2, k3, b1, b2, b3

ThreadVal == {t1, t2}
KeyVal    == {k1, k2, k3}
BlockVal  == {b1, b2, b3}
HashVal   == (k1 :> 0) @@ (k2 :> 1) @@ (k3 :> 2)

\* Neither threads nor blocks are ordered by the code.
Symmetry == Permutations(ThreadVal) \cup Permutations(BlockVal)
=============================================================================
