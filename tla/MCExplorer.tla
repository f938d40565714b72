------------------------------ MODULE MCExplorer ------------------------------
(***************************************************************************)
(* Instances of Explorer for TLC: small state spaces with a cycle, a       *)
(* diamond and enough branching for threads to give work away.             *)
(***************************************************************************)
EXTENDS Explorer, TLC

CONSTANTS t1, t2, t3, s0, s1, s2, s3, s4

\* s0 has three successors; s3 is reached twice and leads back to s0.
Branching ==
  (s0 :> {s1, s2, s3}) @@ (s1 :> {s3, s4}) @@ (s2 :> {s3}) @@ (s3 :> {s0})
    @@ (s4 :> {})

Loop == (s0 :> {s0})

\* One initial state, or two when the initial state is a distribution.
Initials == (FALSE :> {s0}) @@ (TRUE :> {s0, s2})
OneInitial == [b \in BOOLEAN |-> {s0}]
=============================================================================
