---------------------------- MODULE MCSharedMutex ----------------------------
(***************************************************************************)
(* Instances of SharedMutex for TLC.                                       *)
(***************************************************************************)
EXTENDS SharedMutex

CONSTANTS m1, m2, m3

MCMutex == {m1, m2, m3}
=============================================================================
