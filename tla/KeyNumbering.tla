---------------------------- MODULE KeyNumbering ----------------------------
(***************************************************************************)
(* What an indexed_set promises to concurrent callers: it numbers keys     *)
(* consecutively in the order in which they are inserted, and every call   *)
(* takes effect at one moment between its invocation and its return.       *)
(***************************************************************************)
EXTENDS Naturals, Sequences

CONSTANTS
  Thread, Key,
  npos        \* the index that index() returns for an absent key

VARIABLES
  numbered,   \* the keys in the order of their indices; index i is at i + 1
  call        \* the operation of each thread, and its result once it has one

nvars == <<numbered, call>>

Idle == [op |-> "none"]
Pending(op, k) == [op |-> op, key |-> k, done |-> FALSE]
Done(op, k, r) == [op |-> op, key |-> k, done |-> TRUE, result |-> r]

Positions(k) == {i \in DOMAIN numbered : numbered[i] = k}
IndexOf(k) == (CHOOSE i \in Positions(k) : TRUE) - 1

Init ==
  /\ numbered = <<>>
  /\ call = [t \in Thread |-> Idle]

Invoke(t, op, k) ==
  /\ call[t] = Idle
  /\ call' = [call EXCEPT ![t] = Pending(op, k)]
  /\ UNCHANGED numbered

InsertNew(t, k) ==
  /\ call[t] = Pending("insert", k)
  /\ Positions(k) = {}
  /\ numbered' = Append(numbered, k)
  /\ call' = [call EXCEPT ![t] = Done("insert", k, <<Len(numbered), TRUE>>)]

InsertOld(t, k) ==
  /\ call[t] = Pending("insert", k)
  /\ Positions(k) # {}
  /\ call' = [call EXCEPT ![t] = Done("insert", k, <<IndexOf(k), FALSE>>)]
  /\ UNCHANGED numbered

Index(t, k) ==
  /\ call[t] = Pending("index", k)
  /\ call' = [call EXCEPT ![t] =
       Done("index", k, IF Positions(k) = {} THEN npos ELSE IndexOf(k))]
  /\ UNCHANGED numbered

Size(t) ==
  /\ call[t] = Pending("size", npos)
  /\ call' = [call EXCEPT ![t] = Done("size", npos, Len(numbered))]
  /\ UNCHANGED numbered

Clear(t) ==
  /\ call[t] = Pending("clear", npos)
  /\ numbered' = <<>>
  /\ call' = [call EXCEPT ![t] = Done("clear", npos, npos)]

Return(t) ==
  /\ call[t].op # "none"
  /\ call[t].done
  /\ call' = [call EXCEPT ![t] = Idle]
  /\ UNCHANGED numbered

Next ==
  \E t \in Thread :
    \/ Invoke(t, "clear", npos) \/ Clear(t)
    \/ Invoke(t, "size", npos) \/ Size(t)
    \/ Return(t)
    \/ \E k \in Key :
         \/ Invoke(t, "insert", k) \/ InsertNew(t, k) \/ InsertOld(t, k)
         \/ Invoke(t, "index", k) \/ Index(t, k)

Spec == Init /\ [][Next]_nvars
=============================================================================
