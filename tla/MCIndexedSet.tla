----------------------------- MODULE MCIndexedSet -----------------------------
(***************************************************************************)
(* Instances of IndexedSet for TLC.  The keys collide in every table, and  *)
(* start at the last position of the initial table, so that walks wrap     *)
(* around.                                                                 *)
(***************************************************************************)
EXTENDS IndexedSet, TLC

CONSTANTS t1, t2, t3, k1, k2

MCHash == (k1 :> 7) @@ (k2 :> 7)
=============================================================================
