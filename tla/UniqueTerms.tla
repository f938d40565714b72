---------------------------- MODULE UniqueTerms ----------------------------
(***************************************************************************)
(* What a term storage promises: a set of terms in which equal terms have  *)
(* one address.  A call emplace(k) takes effect at one moment between its  *)
(* start and its end; a garbage collection erases terms, one at a time,    *)
(* while no call is under way.  TermStorage implements this.               *)
(***************************************************************************)
CONSTANTS
  Thread,
  Key,      \* the terms, up to equality
  NoKey,    \* no call under way
  Addr      \* the addresses a term may be given

VARIABLES
  elements, \* address of every stored term
  pending,  \* the argument of each thread's call that has yet to take effect
  result    \* the answer of each thread's call: an address, and if it is new

vars == <<elements, pending, result>>

Init ==
  /\ elements = <<>>
  /\ pending = [t \in Thread |-> NoKey]
  /\ result = [t \in Thread |-> <<>>]

Call(t, k) ==
  /\ pending[t] = NoKey /\ result[t] = <<>>
  /\ pending' = [pending EXCEPT ![t] = k]
  /\ UNCHANGED <<elements, result>>

\* An equal term is stored: its address is the answer.
Existing(t) ==
  /\ pending[t] \in DOMAIN elements
  /\ result' = [result EXCEPT ![t] = <<elements[pending[t]], FALSE>>]
  /\ pending' = [pending EXCEPT ![t] = NoKey]
  /\ UNCHANGED elements

\* No equal term is stored: it gets an address no stored term has.
New(t) ==
  /\ pending[t] \in Key \ DOMAIN elements
  /\ \E a \in Addr \ {elements[k] : k \in DOMAIN elements}:
       /\ elements' = [k \in DOMAIN elements \cup {pending[t]} |->
                         IF k = pending[t] THEN a ELSE elements[k]]
       /\ result' = [result EXCEPT ![t] = <<a, TRUE>>]
  /\ pending' = [pending EXCEPT ![t] = NoKey]

Return(t) ==
  /\ result[t] # <<>>
  /\ result' = [result EXCEPT ![t] = <<>>]
  /\ UNCHANGED <<elements, pending>>

Erase(k) ==
  /\ k \in DOMAIN elements
  /\ \A t \in Thread: pending[t] = NoKey /\ result[t] = <<>>
  /\ elements' = [j \in DOMAIN elements \ {k} |-> elements[j]]
  /\ UNCHANGED <<pending, result>>

Next ==
  \/ \E t \in Thread: Existing(t) \/ New(t) \/ Return(t) \/ \E k \in Key: Call(t, k)
  \/ \E k \in Key: Erase(k)

Spec == Init /\ [][Next]_vars
=============================================================================
