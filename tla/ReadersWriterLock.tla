-------------------------- MODULE ReadersWriterLock --------------------------
(***************************************************************************)
(* What a shared_mutex promises: the contract of std::shared_mutex that    *)
(* the documentation comments of shared_mutex.h refer to, with recursive   *)
(* shared locking.  Acquiring and releasing are single steps here.         *)
(***************************************************************************)
EXTENDS Naturals

CONSTANTS Thread, NoThread

VARIABLES
  writer,     \* the thread in the exclusive section, or NoThread
  readers     \* how deeply each thread is nested in shared sections

rwvars == <<writer, readers>>

Init ==
  /\ writer = NoThread
  /\ readers = [t \in Thread |-> 0]

AcquireExclusive(t) ==
  /\ writer = NoThread
  /\ \A u \in Thread : readers[u] = 0
  /\ writer' = t
  /\ UNCHANGED readers

ReleaseExclusive(t) ==
  /\ writer = t
  /\ writer' = NoThread
  /\ UNCHANGED readers

AcquireShared(t) ==
  /\ writer = NoThread
  /\ readers' = [readers EXCEPT ![t] = @ + 1]
  /\ UNCHANGED writer

ReleaseShared(t) ==
  /\ readers[t] > 0
  /\ readers' = [readers EXCEPT ![t] = @ - 1]
  /\ UNCHANGED writer

Next ==
  \E t \in Thread :
    \/ AcquireExclusive(t) \/ ReleaseExclusive(t)
    \/ AcquireShared(t) \/ ReleaseShared(t)

Spec == Init /\ [][Next]_rwvars
=============================================================================
