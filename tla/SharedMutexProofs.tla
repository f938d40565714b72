-------------------------- MODULE SharedMutexProofs --------------------------
(***************************************************************************)
(* Proofs about SharedMutex, for any set of threads and any nesting bound. *)
(***************************************************************************)
EXTENDS SharedMutex, TLAPS

(***************************************************************************)
(* The constructor establishes the inductive invariant.                    *)
(***************************************************************************)
LEMMA InitIInv == Init => IInv
<1> USE MutexAssumption, DepthAssumption
<1> QED
  BY SMTT(60) DEF Init, IInv, TypeOK, PC, OwnerAtPoint, HoldsMutex, Registered,
         BusyAtPoint, ForbiddenRegistered, PassedForbidden, PassedBusy,
         NoStaleForbiddenFlag

(***************************************************************************)
(* Every step of shared_mutex.h preserves the inductive invariant.         *)
(***************************************************************************)
LEMMA NextIInv == IInv /\ [Next]_vars => IInv'
<1> USE MutexAssumption, DepthAssumption
<1> SUFFICES ASSUME IInv, [Next]_vars
             PROVE  IInv'
  OBVIOUS
<1> USE DEF IInv, TypeOK, PC, OwnerAtPoint, HoldsMutex, Registered,
            BusyAtPoint, ForbiddenRegistered, PassedForbidden, PassedBusy,
            NoStaleForbiddenFlag, Goto
<1>1. ASSUME NEW m \in Mutex, register_mutex(m)
      PROVE  IInv'
  BY <1>1 DEF register_mutex
<1>2. ASSUME NEW m \in Mutex, unregister_mutex(m)
      PROVE  IInv'
  BY <1>2 DEF unregister_mutex
<1>3. ASSUME NEW m \in Mutex, refused(m)
      PROVE  IInv'
  BY <1>3 DEF refused
<1>4. ASSUME NEW m \in Mutex, lock(m)
      PROVE  IInv'
  BY <1>4 DEF lock
<1>5. ASSUME NEW m \in Mutex, try_lock_fails(m)
      PROVE  IInv'
  BY <1>5 DEF try_lock_fails
<1>6. ASSUME NEW m \in Mutex, set_forbidden(m)
      PROVE  IInv'
  BY <1>6 DEF set_forbidden
<1>7. ASSUME NEW m \in Mutex, all_forbidden(m)
      PROVE  IInv'
  BY <1>7 DEF all_forbidden
<1>8. ASSUME NEW m \in Mutex, wait_for_busy(m)
      PROVE  IInv'
  BY <1>8 DEF wait_for_busy
<1>9. ASSUME NEW m \in Mutex, acquired(m)
      PROVE  IInv'
  BY <1>9 DEF acquired
<1>10. ASSUME NEW m \in Mutex, unlock(m)
      PROVE  IInv'
  BY <1>10 DEF unlock
<1>11. ASSUME NEW m \in Mutex, clear_forbidden(m)
      PROVE  IInv'
  BY <1>11 DEF clear_forbidden
<1>12. ASSUME NEW m \in Mutex, unlocked(m)
      PROVE  IInv'
  BY <1>12 DEF unlocked
<1>13. ASSUME NEW m \in Mutex, lock_shared(m)
      PROVE  IInv'
  BY <1>13 DEF lock_shared
<1>14. ASSUME NEW m \in Mutex, enter_shared(m)
      PROVE  IInv'
  BY <1>14 DEF enter_shared
<1>15. ASSUME NEW m \in Mutex, must_wait(m)
      PROVE  IInv'
  BY <1>15 DEF must_wait
<1>16. ASSUME NEW m \in Mutex, back_off(m)
      PROVE  IInv'
  BY <1>16 DEF back_off
<1>17. ASSUME NEW m \in Mutex, wait_for_global(m)
      PROVE  IInv'
  BY <1>17 DEF wait_for_global
<1>18. ASSUME NEW m \in Mutex, pass_global(m)
      PROVE  IInv'
  BY <1>18 DEF pass_global
<1>19. ASSUME NEW m \in Mutex, retry(m)
      PROVE  IInv'
  BY <1>19 DEF retry
<1>20. ASSUME NEW m \in Mutex, lock_shared_nested(m)
      PROVE  IInv'
  BY SMTT(60), <1>20 DEF lock_shared_nested
<1>21. ASSUME NEW m \in Mutex, unlock_shared(m)
      PROVE  IInv'
  <2> USE <1>21 DEF unlock_shared
  <2>1. depth[m] \in 1 .. MaxDepth
    OBVIOUS
  <2>2. CASE depth[m] = 1
    <3>1. depth' = [depth EXCEPT ![m] = 0] /\ depth'[m] = 0
      BY <2>2
    <3>2. /\ busy' = [busy EXCEPT ![m] = FALSE]
          /\ pc' = [pc EXCEPT ![m] = "idle"]
      BY <2>2
    <3>3. TypeOK'
      BY <3>1, <3>2
    <3>4. BusyAtPoint'
      BY <3>1, <3>2
    <3>5. /\ OwnerAtPoint' /\ Registered' /\ ForbiddenRegistered'
          /\ PassedForbidden' /\ PassedBusy' /\ NoStaleForbiddenFlag'
      BY <3>2
    <3> QED
      BY SMTT(60), <3>3, <3>4, <3>5
  <2>3. CASE depth[m] # 1
    <3>1. depth[m] - 1 \in 1 .. MaxDepth
      BY <2>1, <2>3
    <3> QED
      BY <2>3, <3>1
  <2> QED
    BY <2>2, <2>3
<1>22. ASSUME NEW m \in Mutex, try_lock_shared(m)
      PROVE  IInv'
  BY <1>22 DEF try_lock_shared
<1>23. ASSUME NEW m \in Mutex, try_shared_enter(m)
      PROVE  IInv'
  BY <1>23 DEF try_shared_enter
<1>24. ASSUME NEW m \in Mutex, try_shared_fail(m)
      PROVE  IInv'
  BY <1>24 DEF try_shared_fail
<1>25. ASSUME NEW m \in Mutex, try_shared_refuse(m)
      PROVE  IInv'
  BY <1>25 DEF try_shared_refuse
<1>26. CASE UNCHANGED vars
  BY <1>26 DEF vars
<1> QED
  BY ZenonT(60), <1>1, <1>2, <1>3, <1>4, <1>5, <1>6, <1>7, <1>8, <1>9, <1>10, <1>11, <1>12, <1>13, <1>14, <1>15, <1>16, <1>17, <1>18, <1>19, <1>20, <1>21, <1>22, <1>23, <1>24, <1>25, <1>26
  DEF Next, Exclusive, Shared

(***************************************************************************)
(* The inductive invariant holds in every reachable state.                 *)
(***************************************************************************)
THEOREM Invariance == Spec => []IInv
<1> QED
  BY InitIInv, NextIInv, PTL DEF Spec

(***************************************************************************)
(* Type correctness of the state of the protocol.                          *)
(***************************************************************************)
THEOREM TypeCorrect == Spec => []TypeOK
<1>1. IInv => TypeOK
  BY DEF IInv
<1> QED
  BY <1>1, Invariance, PTL

(***************************************************************************)
(* lock() and lock_shared() exclude each other, and lock() excludes        *)
(* itself, for any number of threads that come and go.                     *)
(***************************************************************************)
THEOREM Exclusion == Spec => []MutualExclusion
<1>1. IInv => MutualExclusion
  <2> SUFFICES ASSUME IInv, NEW m \in Mutex, NEW q \in Mutex, m # q,
                      InExclusive(m)
               PROVE  ~InShared(q) /\ ~InExclusive(q)
    BY DEF MutualExclusion
  <2>1. owner = m
    BY DEF IInv, OwnerAtPoint, HoldsMutex, InExclusive
  <2>2. ~InExclusive(q)
    BY <2>1 DEF IInv, OwnerAtPoint, HoldsMutex, InExclusive
  <2>3. pc[q] # "shared"
    BY DEF IInv, Registered, PassedBusy, InExclusive
  <2> QED
    BY <2>2, <2>3 DEF IInv, BusyAtPoint, InShared
<1> QED
  BY <1>1, Invariance, PTL

(***************************************************************************)
(* No thread is left suspended: a forbidden flag is up only while another  *)
(* thread is between lock() and the end of unlock().                       *)
(***************************************************************************)
THEOREM ForbiddenFlagsCleared == Spec => []NoStaleForbiddenFlag
<1>1. IInv => NoStaleForbiddenFlag
  BY DEF IInv
<1> QED
  BY <1>1, Invariance, PTL

(***************************************************************************)
(* No busy flag is left up behind a thread's back, so the asserts of       *)
(* lock_shared(), try_lock_shared() and set_forbidden_flags() hold.        *)
(***************************************************************************)
THEOREM BusyFlagsCleared == Spec => []NoStaleBusyFlag
<1>1. IInv => NoStaleBusyFlag
  BY DEF IInv, BusyAtPoint, NoStaleBusyFlag
<1> QED
  BY <1>1, Invariance, PTL

(***************************************************************************)
(* The list of registered objects is stable from lock() to the end of      *)
(* unlock(): constructors and destructors wait for m_shared->mutex.        *)
(***************************************************************************)
THEOREM RegistrationWaits == Spec => RegistrationExcluded
<1>1. IInv /\ [Next]_vars
        => [other' # other =>
              \A m \in Mutex : pc[m] \notin {"forbid", "await", "exclusive", "release"}]_vars
  <2> SUFFICES ASSUME IInv, [Next]_vars, other' # other, NEW m \in Mutex
               PROVE  pc[m] \notin {"forbid", "await", "exclusive", "release"}
    OBVIOUS
  <2>1. owner = NoMutex
    BY DEF Next, Exclusive, Shared, vars, register_mutex,
       unregister_mutex, refused, lock, try_lock_fails, set_forbidden, all_forbidden, wait_for_busy, acquired, unlock, clear_forbidden, unlocked, lock_shared, enter_shared, must_wait, back_off, wait_for_global, pass_global, retry, lock_shared_nested, unlock_shared, try_lock_shared, try_shared_enter, try_shared_fail, try_shared_refuse
  <2> QED
    BY <2>1, MutexAssumption DEF IInv, OwnerAtPoint, HoldsMutex
<1> QED
  BY <1>1, Invariance, PTL DEF Spec, RegistrationExcluded

-----------------------------------------------------------------------------
(***************************************************************************)
(* The refinement mapping: the thread in the exclusive section is unique,  *)
(* so it is the one that AbstractWriter chooses.                           *)
(***************************************************************************)
LEMMA WriterIsUnique ==
  ASSUME IInv, NEW m \in Mutex, InExclusive(m)
  PROVE  AbstractWriter = m
<1>1. \A q \in Mutex : InExclusive(q) => q = m
  BY DEF IInv, OwnerAtPoint, HoldsMutex, InExclusive
<1> QED
  BY <1>1 DEF AbstractWriter

LEMMA NoWriter ==
  ASSUME \A m \in Mutex : ~InExclusive(m)
  PROVE  AbstractWriter = NoMutex
<1> QED
  BY DEF AbstractWriter

(***************************************************************************)
(* A step that neither enters nor leaves an exclusive section leaves the   *)
(* abstract writer alone.                                                  *)
(***************************************************************************)
LEMMA WriterUnchanged ==
  ASSUME \A m \in Mutex : InExclusive(m)' <=> InExclusive(m)
  PROVE  AbstractWriter' = AbstractWriter
<1> QED
  BY ZenonT(60) DEF AbstractWriter

(***************************************************************************)
(* Each step of the protocol is a step of the readers-writer lock, or      *)
(* leaves its state unchanged.                                             *)
(***************************************************************************)
LEMMA StepSimulation == IInv /\ IInv' /\ [Next]_vars => [RW!Next]_(RW!rwvars)
<1> SUFFICES ASSUME IInv, IInv', [Next]_vars
             PROVE  RW!Next \/ UNCHANGED <<AbstractWriter, depth>>
  BY DEF RW!rwvars
<1> USE MutexAssumption
<1>a. pc \in [Mutex -> PC] /\ depth \in [Mutex -> 0 .. MaxDepth]
  BY DEF IInv, TypeOK
<1>b. pc' \in [Mutex -> PC]
  BY DEF IInv, TypeOK
<1>1. ASSUME NEW m \in Mutex, acquired(m)
      PROVE  RW!AcquireExclusive(m)
  <2>1. InExclusive(m)' /\ depth' = depth
    BY <1>1, <1>a DEF acquired, Goto, InExclusive
  <2>2. AbstractWriter' = m
    <3>1. \A q \in Mutex : InExclusive(q)' => q = m
      BY <2>1 DEF IInv, OwnerAtPoint, HoldsMutex, InExclusive
    <3> QED
      BY <2>1, <3>1 DEF AbstractWriter
  <2>3. owner = m /\ pc[m] # "exclusive"
    BY <1>1 DEF acquired, Goto, IInv, OwnerAtPoint, HoldsMutex
  <2>4. \A q \in Mutex : ~InExclusive(q)
    BY <2>3 DEF IInv, OwnerAtPoint, HoldsMutex, InExclusive
  <2>5. AbstractWriter = NoMutex
    BY <2>4, NoWriter
  <2>6. \A q \in Mutex : pc[q] # "shared"
    BY <1>1 DEF acquired, Goto, IInv, PassedBusy, Registered
  <2>7. \A q \in Mutex : depth[q] = 0
    BY <2>6, <1>a, DepthAssumption DEF IInv, BusyAtPoint
  <2> QED
    BY <2>1, <2>2, <2>5, <2>7 DEF RW!AcquireExclusive
<1>2. ASSUME NEW m \in Mutex, unlock(m)
      PROVE  RW!ReleaseExclusive(m)
  <2>1. InExclusive(m) /\ ~InExclusive(m)' /\ depth' = depth
    BY <1>2, <1>a DEF unlock, Goto, InExclusive
  <2>2. AbstractWriter = m
    BY <2>1, WriterIsUnique
  <2>3. owner = m /\ owner' = m
    BY <1>2 DEF unlock, Goto, IInv, OwnerAtPoint, HoldsMutex
  <2>4. \A q \in Mutex : ~InExclusive(q)'
    BY <2>1, <2>3 DEF IInv, OwnerAtPoint, HoldsMutex, InExclusive
  <2>5. AbstractWriter' = NoMutex
    BY <2>4 DEF AbstractWriter
  <2> QED
    BY <2>1, <2>2, <2>5 DEF RW!ReleaseExclusive
<1>3. ASSUME NEW m \in Mutex,
             enter_shared(m) \/ try_shared_enter(m) \/ lock_shared_nested(m)
      PROVE  RW!AcquireShared(m)
  <2>1. /\ depth' = [depth EXCEPT ![m] = @ + 1]
        /\ \A q \in Mutex : InExclusive(q)' <=> InExclusive(q)
    BY <1>3, <1>a DEF enter_shared, try_shared_enter, lock_shared_nested,
                      Goto, InExclusive
  <2>2. pc[m] = "shared" \/ (pc[m] # "exclusive" /\ ~forbidden[m])
    BY <1>3 DEF enter_shared, try_shared_enter, lock_shared_nested, Goto
  <2>3. m \in other /\ pc[m] # "exclusive"
    BY <1>3 DEF enter_shared, try_shared_enter, lock_shared_nested, Goto,
                IInv, Registered
  <2>4. \A q \in Mutex : ~InExclusive(q)
    BY <2>2, <2>3 DEF IInv, PassedForbidden, PassedBusy, InExclusive
  <2>5. AbstractWriter = NoMutex
    BY <2>4, NoWriter
  <2>6. AbstractWriter' = AbstractWriter
    BY <2>1, WriterUnchanged
  <2> QED
    BY <2>1, <2>5, <2>6 DEF RW!AcquireShared
<1>4. ASSUME NEW m \in Mutex, unlock_shared(m)
      PROVE  RW!ReleaseShared(m)
  <2>1. /\ depth[m] > 0
        /\ depth' = [depth EXCEPT ![m] = @ - 1]
        /\ \A q \in Mutex : InExclusive(q)' <=> InExclusive(q)
    BY <1>4, <1>a DEF unlock_shared, IInv, BusyAtPoint, InExclusive
  <2>2. AbstractWriter' = AbstractWriter
    BY <2>1, WriterUnchanged
  <2> QED
    BY <2>1, <2>2 DEF RW!ReleaseShared
<1>5. ASSUME NEW m \in Mutex,
             unregister_mutex(m) \/ refused(m) \/
             lock(m) \/ try_lock_fails(m) \/ set_forbidden(m) \/
             all_forbidden(m) \/ wait_for_busy(m) \/ clear_forbidden(m) \/
             unlocked(m) \/ lock_shared(m) \/ must_wait(m) \/
             back_off(m) \/ wait_for_global(m) \/ pass_global(m) \/
             retry(m) \/ try_lock_shared(m) \/ try_shared_fail(m) \/
             try_shared_refuse(m)
      PROVE  UNCHANGED <<AbstractWriter, depth>>
  <2>1. /\ depth' = depth
        /\ \A q \in Mutex : InExclusive(q)' <=> InExclusive(q)
    BY <1>5, <1>a DEF InExclusive, Goto, unregister_mutex, refused, lock, try_lock_fails,
           set_forbidden, all_forbidden, wait_for_busy, clear_forbidden,
           unlocked, lock_shared, must_wait, back_off, wait_for_global,
           pass_global, retry, try_lock_shared, try_shared_fail,
           try_shared_refuse
  <2> QED
    BY <2>1, WriterUnchanged
<1>6. ASSUME NEW m \in Mutex, register_mutex(m)
      PROVE  UNCHANGED <<AbstractWriter, depth>>
  <2>1. depth[m] = 0
    BY <1>6, <1>a, DepthAssumption DEF register_mutex, Goto, IInv, BusyAtPoint
  <2>2. depth' = depth
    BY <1>6, <1>a, <2>1 DEF register_mutex
  <2>3. \A q \in Mutex : InExclusive(q)' <=> InExclusive(q)
    BY <1>6, <1>a DEF register_mutex, Goto, InExclusive
  <2> QED
    BY <2>2, <2>3, WriterUnchanged
<1>7. CASE UNCHANGED vars
  BY <1>7, WriterUnchanged DEF vars, InExclusive
<1> QED
  BY <1>1, <1>2, <1>3, <1>4, <1>5, <1>6, <1>7
  DEF Next, Exclusive, Shared, RW!Next

(***************************************************************************)
(* shared_mutex implements the contract of std::shared_mutex, with         *)
(* recursive shared locking, for any number of threads.                    *)
(***************************************************************************)
THEOREM Refinement == Spec => ImplementsReadersWriterLock
<1>1. Init => RW!Init
  BY NoWriter DEF Init, RW!Init, InExclusive
<1> QED
  BY <1>1, Invariance, StepSimulation, PTL
  DEF Spec, RW!Spec, ImplementsReadersWriterLock
=============================================================================
