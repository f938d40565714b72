---------------------------- MODULE ExplorerProofs ----------------------------
(***************************************************************************)
(* Proofs about Explorer, for any number of threads and any finite state   *)
(* space.                                                                  *)
(***************************************************************************)
EXTENDS Explorer, TLAPS, FiniteSetTheorems

-----------------------------------------------------------------------------
(***************************************************************************)
(* There is at least one thread.                                           *)
(***************************************************************************)
LEMMA ThreadCount == N \in Nat /\ N >= 1
BY ThreadAssumption, FS_CardinalityType, FS_EmptySet DEF N

(***************************************************************************)
(* Of the N threads, those outside a set I number N minus the size of I.   *)
(***************************************************************************)
LEMMA Counts ==
  ASSUME NEW I \in SUBSET Thread, NEW W \in SUBSET Thread, W \cap I = {}
  PROVE  /\ IsFiniteSet(I) /\ Cardinality(I) \in Nat /\ Cardinality(I) <= N
         /\ IsFiniteSet(W) /\ Cardinality(W) \in Nat
         /\ Cardinality(W) <= N - Cardinality(I)
<1>1. IsFiniteSet(I) /\ Cardinality(I) \in Nat /\ Cardinality(I) <= N
  BY ThreadAssumption, FS_Subset, FS_CardinalityType DEF N
<1>2. /\ IsFiniteSet(Thread \ I)
      /\ Cardinality(Thread \ I) = N - Cardinality(I)
  <2>1. Thread \cap I = I
    OBVIOUS
  <2> QED
    BY <2>1, ThreadAssumption, FS_Difference DEF N
<1>3. W \subseteq Thread \ I
  OBVIOUS
<1>4. /\ IsFiniteSet(W) /\ Cardinality(W) \in Nat
      /\ Cardinality(W) <= Cardinality(Thread \ I)
  BY <1>2, <1>3, FS_Subset, FS_CardinalityType
<1> QED
  BY <1>1, <1>2, <1>4

(***************************************************************************)
(* A set of threads grows or shrinks by one when a thread joins or leaves. *)
(***************************************************************************)
LEMMA CountOne ==
  ASSUME NEW I \in SUBSET Thread, NEW t \in Thread
  PROVE  /\ t \notin I => Cardinality(I \cup {t}) = Cardinality(I) + 1
         /\ t \in I => Cardinality(I \ {t}) = Cardinality(I) - 1
<1>1. IsFiniteSet(I)
  BY ThreadAssumption, FS_Subset
<1>2. t \notin I => Cardinality(I \cup {t}) = Cardinality(I) + 1
  BY <1>1, FS_AddElement
<1>3. t \in I => Cardinality(I \ {t}) = Cardinality(I) - 1
  BY <1>1, FS_RemoveElement
<1> QED
  BY <1>2, <1>3

Counting == active \in 0 .. N /\ ActiveCounts /\ ActiveSuffices

(***************************************************************************)
(* A step that changes neither number_of_active_processes nor the set of   *)
(* waiting threads, and sends no thread to work after m_must_abort is set, *)
(* keeps the counts.                                                       *)
(***************************************************************************)
LEMMA SameCounting ==
  ASSUME Counting, active' = active, running' => running,
         Inactive' = Inactive, must_abort => must_abort' \/ ~running',
         must_abort => Working' \subseteq Working
  PROVE  Counting'
<1> USE ThreadCount
<1>1. /\ Inactive \in SUBSET Thread /\ Working \in SUBSET Thread
      /\ Inactive' \in SUBSET Thread /\ Working' \in SUBSET Thread
      /\ Working \cap Inactive = {} /\ Working' \cap Inactive' = {}
  BY DEF Inactive, Working
<1>2. /\ IsFiniteSet(Working) /\ Cardinality(Working) \in Nat
      /\ Cardinality(Working) <= N - Cardinality(Inactive)
      /\ Cardinality(Inactive) \in Nat
  BY <1>1, Counts
<1>3. /\ Cardinality(Working') \in Nat
      /\ Cardinality(Working') <= N - Cardinality(Inactive')
  BY <1>1, Counts
<1>4. must_abort => Cardinality(Working') <= Cardinality(Working)
  BY <1>2, FS_Subset
<1>5. active' \in 0 .. N /\ ActiveCounts'
  BY DEF Counting, ActiveCounts
<1>6. ActiveSuffices'
  BY <1>2, <1>3, <1>4 DEF Counting, ActiveSuffices, ActiveCounts
<1> QED
  BY <1>5, <1>6 DEF Counting

(***************************************************************************)
(* number_of_active_processes counts the threads that are not in the wait; *)
(* after m_must_abort is set it is at least the number of threads that may *)
(* still subtract one from it.                                             *)
(***************************************************************************)
LEMMA NextCounting ==
  ASSUME pc \in [Thread -> PC], running \in BOOLEAN, must_abort \in BOOLEAN,
         StoppedOnlyAtTheEnd, Counting, [Next]_vars
  PROVE  Counting'
<1> USE ThreadCount DEF fixed
<1>i. /\ Inactive \in SUBSET Thread /\ Working \in SUBSET Thread
      /\ Working \cap Inactive = {}
  BY DEF Inactive, Working
<1>c. /\ Cardinality(Inactive) \in Nat /\ Cardinality(Inactive) <= N
      /\ Cardinality(Working) \in Nat
      /\ Cardinality(Working) <= N - Cardinality(Inactive)
  BY <1>i, Counts
<1>w. running => Cardinality(Working) <= active
  BY <1>c DEF Counting, ActiveCounts, ActiveSuffices
<1>1. CASE generate_state_space
  <2>1. Inactive' = {} /\ Working' = {}
    BY <1>1 DEF generate_state_space, Inactive, Working
  <2>2. Cardinality(Inactive') = 0 /\ Cardinality(Working') = 0
    BY <2>1, FS_EmptySet
  <2> QED
    BY <1>1, <2>2
    DEF generate_state_space, Counting, ActiveCounts, ActiveSuffices
<1>2. CASE join
  BY <1>2 DEF join, Counting, ActiveCounts, ActiveSuffices
<1>3. ASSUME NEW t \in Thread, take_state(t)
      PROVE  Counting'
  <2>1. Inactive' = Inactive /\ (must_abort => Working' \subseteq Working)
    BY <1>3 DEF take_state, take, Goto, Inactive, Working, PC
  <2> QED
    BY <1>3, <2>1, SameCounting DEF take_state, take, Goto
<1>4. ASSUME NEW t \in Thread, choose_element(t)
      PROVE  Counting'
  <2>1. Inactive' = Inactive /\ (must_abort => Working' \subseteq Working)
    BY <1>4 DEF choose_element, Goto, Inactive, Working, PC
  <2> QED
    BY <1>4, <2>1, SameCounting DEF choose_element, Goto
<1>5. ASSUME NEW t \in Thread, leave_loop(t)
      PROVE  Counting'
  <2>1. Inactive' = Inactive /\ (must_abort => Working' \subseteq Working)
    BY <1>5 DEF leave_loop, Goto, Inactive, Working, PC
  <2> QED
    BY <1>5, <2>1, SameCounting DEF leave_loop, Goto
<1>6. ASSUME NEW t \in Thread, insert_target(t)
      PROVE  Counting'
  <2>1. Inactive' = Inactive /\ (must_abort => Working' \subseteq Working)
    BY <1>6 DEF insert_target, Goto, Inactive, Working, PC
  <2> QED
    BY <1>6, <2>1, SameCounting DEF insert_target, Goto
<1>7. ASSUME NEW t \in Thread, lookup_target(t)
      PROVE  Counting'
  <2>1. Inactive' = Inactive /\ (must_abort => Working' \subseteq Working)
    BY <1>7 DEF lookup_target, Goto, Inactive, Working, PC
  <2> QED
    BY <1>7, <2>1, SameCounting DEF lookup_target, Goto
<1>8. ASSUME NEW t \in Thread, insert_looked_up(t)
      PROVE  Counting'
  <2>1. Inactive' = Inactive /\ (must_abort => Working' \subseteq Working)
    BY <1>8 DEF insert_looked_up, Goto, Inactive, Working, PC
  <2> QED
    BY <1>8, <2>1, SameCounting DEF insert_looked_up, Goto
<1>9. ASSUME NEW t \in Thread, discover_state(t)
      PROVE  Counting'
  <2>1. Inactive' = Inactive /\ (must_abort => Working' \subseteq Working)
    BY <1>9 DEF discover_state, Goto, Inactive, Working, PC
  <2> QED
    BY <1>9, <2>1, SameCounting DEF discover_state, Goto
<1>10. ASSUME NEW t \in Thread, finish_state(t)
      PROVE  Counting'
  <2>1. Inactive' = Inactive /\ (must_abort => Working' \subseteq Working)
    BY <1>10 DEF finish_state, Goto, Inactive, Working, PC
  <2> QED
    BY <1>10, <2>1, SameCounting DEF finish_state, Goto
<1>11. ASSUME NEW t \in Thread, share_states(t)
      PROVE  Counting'
  <2>1. Inactive' = Inactive /\ (must_abort => Working' \subseteq Working)
    BY <1>11 DEF share_states, Goto, Inactive, Working, PC
  <2> QED
    BY <1>11, <2>1, SameCounting DEF share_states, Goto
<1>12. ASSUME NEW t \in Thread, notify_all(t)
      PROVE  Counting'
  <2>1. Inactive' = Inactive /\ (must_abort => Working' \subseteq Working)
    BY <1>12 DEF notify_all, NotifyAll, Goto, Inactive, Working, PC
  <2> QED
    BY <1>12, <2>1, SameCounting DEF notify_all, NotifyAll, Goto
<1>13. ASSUME NEW t \in Thread, check_todo(t)
      PROVE  Counting'
  <2>1. Inactive' = Inactive /\ (must_abort => Working' \subseteq Working)
    BY <1>13 DEF check_todo, Goto, Inactive, Working, PC
  <2> QED
    BY <1>13, <2>1, SameCounting DEF check_todo, Goto
<1>14. ASSUME NEW t \in Thread, wake_up(t)
      PROVE  Counting'
  <2>1. Inactive' = Inactive /\ (must_abort => Working' \subseteq Working)
    BY <1>14 DEF wake_up, Goto, Inactive, Working, PC
  <2> QED
    BY <1>14, <2>1, SameCounting DEF wake_up, Goto
<1>15. ASSUME NEW t \in Thread, become_inactive(t)
      PROVE  Counting'
  <2>1. /\ t \in Working /\ t \notin Inactive
        /\ Working' = Working \ {t}
        /\ active # 1 => Inactive' = Inactive \cup {t}
    BY <1>15 DEF become_inactive, NotifyAll, Inactive, Working, PC
  <2>2. /\ Cardinality(Working') = Cardinality(Working) - 1
        /\ active # 1 => Cardinality(Inactive') = Cardinality(Inactive) + 1
    BY <2>1, <1>i, CountOne
  <2>3. Working' \in SUBSET Thread
    BY <2>1, <1>i
  <2>4. Cardinality(Working') \in Nat
    BY <2>3, ThreadAssumption, FS_Subset, FS_CardinalityType
  <2>5. running
    BY <1>15 DEF become_inactive, StoppedOnlyAtTheEnd
  <2>6. active \in Nat /\ active >= 1
    BY <1>c, <1>w, <2>2, <2>4, <2>5 DEF Counting
  <2> QED
    BY SMTT(60), <1>15, <1>c, <1>w, <2>2, <2>5, <2>6
    DEF become_inactive, Counting, ActiveCounts, ActiveSuffices
<1>16. ASSUME NEW t \in Thread, become_active(t)
      PROVE  Counting'
  <2>1. /\ t \in Inactive
        /\ Inactive' = Inactive \ {t} /\ Working' = Working
    BY <1>16 DEF become_active, Goto, Inactive, Working, PC
  <2>2. Cardinality(Inactive') = Cardinality(Inactive) - 1
    BY <2>1, <1>i, CountOne
  <2>3. Inactive' \in SUBSET Thread
    BY SMTT(60), <2>1, <1>i
  <2>4. Cardinality(Inactive') \in Nat
    BY <2>3, ThreadAssumption, FS_Subset, FS_CardinalityType
  <2>5. running
    BY <1>16 DEF become_active, Goto, StoppedOnlyAtTheEnd
  <2> QED
    BY <1>16, <1>c, <2>1, <2>2, <2>4, <2>5
    DEF become_active, Counting, ActiveCounts, ActiveSuffices
<1>17. ASSUME NEW t \in Thread, abort(t)
      PROVE  Counting'
  <2>1. Inactive' = Inactive /\ Working' = Working
    BY <1>17 DEF abort, Inactive, Working
  <2> QED
    BY <1>17, <1>w, <2>1 DEF abort, Counting, ActiveCounts, ActiveSuffices
<1>18. CASE UNCHANGED vars
  BY <1>18 DEF vars, Counting, ActiveCounts, ActiveSuffices, Inactive, Working
<1> QED
  BY SMTT(60), <1>1, <1>2, <1>3, <1>4, <1>5, <1>6, <1>7, <1>8, <1>9, <1>10, <1>11, <1>12,
     <1>13, <1>14, <1>15, <1>16, <1>17, <1>18
  DEF Next, Step

-----------------------------------------------------------------------------
(***************************************************************************)
(* When the number of active threads is 1, all threads but one wait.       *)
(***************************************************************************)
LEMMA LastActive ==
  ASSUME NEW t \in Thread, t \notin Inactive, 1 = N - Cardinality(Inactive)
  PROVE  \A u \in Thread \ {t} : u \in Inactive
<1> SUFFICES ASSUME NEW u \in Thread \ {t}, u \notin Inactive
             PROVE  FALSE
  OBVIOUS
<1>1. /\ {t} \in SUBSET Thread /\ {t} \cup {u} \in SUBSET Thread
      /\ Inactive \in SUBSET Thread /\ ({t} \cup {u}) \cap Inactive = {}
  BY DEF Inactive
<1>2. Cardinality({t}) = 1 /\ u \notin {t}
  BY FS_Singleton, ZenonT(60)
<1>3. Cardinality({t} \cup {u}) = 2
  BY SMTT(60), <1>1, <1>2, CountOne
<1>4. /\ Cardinality({t} \cup {u}) <= N - Cardinality(Inactive)
      /\ Cardinality(Inactive) \in Nat
  BY <1>1, Counts
<1> QED
  BY <1>3, <1>4

(***************************************************************************)
(* A new explorer satisfies the invariant.                                 *)
(***************************************************************************)
LEMMA InitIInv == Init => IInv
<1> SUFFICES ASSUME Init PROVE IInv
  OBVIOUS
<1>1. TypeOK
  <2>1. active \in 0 .. N
    BY ThreadCount DEF Init
  <2> QED
    BY <2>1, KindAssumption, Zenon DEF Init, Nothing, TypeOK, PC
<1>2. LocalAtPoint /\ StoppedOnlyAtTheEnd /\ OwnWorkDone /\ TodoWatched /\ Quiet
  BY DEF Init, Nothing, LocalAtPoint, Exploring, StoppedOnlyAtTheEnd,
     OwnWorkDone,
         TodoWatched, Quiet
<1>3. ActiveCounts /\ ActiveSuffices
  BY DEF Init, ActiveCounts, ActiveSuffices
<1>4. Accounted /\ TargetsHandled
  BY DEF Init, Nothing, Accounted, TargetsHandled
<1> QED
  BY <1>1, <1>2, <1>3, <1>4 DEF IInv

(***************************************************************************)
(* Every step of the exploration preserves the invariant.                  *)
(***************************************************************************)
LEMMA NextIInv == IInv /\ [Next]_vars => IInv'
<1> SUFFICES ASSUME IInv, [Next]_vars PROVE IInv'
  OBVIOUS
<1> USE ThreadCount, StateAssumption DEF IInv, fixed, local, history, Goto
<1>c. Counting'
  BY NextCounting DEF Counting, TypeOK
<1>a. active' \in 0 .. N
  BY <1>c DEF Counting
<1> DEFINE Control == TypeOK /\ LocalAtPoint /\ StoppedOnlyAtTheEnd /\ OwnWorkDone
           Work == TodoWatched /\ Quiet /\ Accounted /\ TargetsHandled
<1>1. ASSUME NEW t \in Thread, take_state(t)
      PROVE  Control' /\ Work'
  <2>1. Control'
    BY SMTT(60), <1>1, <1>a
    DEF take_state, take, TypeOK, PC, LocalAtPoint, Exploring,
        StoppedOnlyAtTheEnd, OwnWorkDone
  <2>2. TodoWatched' /\ Quiet'
    BY SMTT(60), <1>1
    DEF take_state, take, TypeOK, PC, LocalAtPoint, Exploring,
        StoppedOnlyAtTheEnd, OwnWorkDone, TodoWatched, Quiet
  <2>3. Accounted'
    BY <1>1
    DEF take_state, take, TypeOK, PC, LocalAtPoint, Exploring,
        StoppedOnlyAtTheEnd, Accounted
  <2>4. TargetsHandled'
    BY SMTT(60), <1>1
    DEF take_state, take, TypeOK, PC, LocalAtPoint, Exploring,
        StoppedOnlyAtTheEnd, TargetsHandled
  <2> QED
    BY SMTT(60), <2>1, <2>2, <2>3, <2>4
<1>2. ASSUME NEW t \in Thread, choose_element(t)
      PROVE  Control' /\ Work'
  <2>1. Control'
    BY SMTT(60), <1>2, <1>a
    DEF choose_element, TypeOK, PC, LocalAtPoint, Exploring,
        StoppedOnlyAtTheEnd, OwnWorkDone
  <2>2. TodoWatched' /\ Quiet'
    BY SMTT(60), <1>2
    DEF choose_element, TypeOK, PC, LocalAtPoint, Exploring,
        StoppedOnlyAtTheEnd, OwnWorkDone, TodoWatched, Quiet
  <2>3. Accounted'
    BY <1>2
    DEF choose_element, TypeOK, PC, LocalAtPoint, Exploring,
        StoppedOnlyAtTheEnd, Accounted
  <2>4. TargetsHandled'
    BY SMTT(60), <1>2
    DEF choose_element, TypeOK, PC, LocalAtPoint, Exploring,
        StoppedOnlyAtTheEnd, TargetsHandled
  <2> QED
    BY <2>1, <2>2, <2>3, <2>4
<1>3. ASSUME NEW t \in Thread, leave_loop(t)
      PROVE  Control' /\ Work'
  <2>1. Control'
    BY SMTT(60), <1>3, <1>a
    DEF leave_loop, TypeOK, PC, LocalAtPoint, Exploring, StoppedOnlyAtTheEnd,
        OwnWorkDone
  <2>2. TodoWatched' /\ Quiet'
    BY <1>3
    DEF leave_loop, TypeOK, PC, LocalAtPoint, Exploring, StoppedOnlyAtTheEnd,
        OwnWorkDone, TodoWatched, Quiet
  <2>3. Accounted'
    BY <1>3
    DEF leave_loop, TypeOK, PC, LocalAtPoint, Exploring, StoppedOnlyAtTheEnd,
        Accounted
  <2>4. TargetsHandled'
    BY SMTT(60), <1>3
    DEF leave_loop, TypeOK, PC, LocalAtPoint, Exploring, StoppedOnlyAtTheEnd,
        TargetsHandled
  <2> QED
    BY <2>1, <2>2, <2>3, <2>4
<1>4. ASSUME NEW t \in Thread, insert_target(t)
      PROVE  Control' /\ Work'
  <2>1. Control'
    BY SMTT(60), <1>4, <1>a
    DEF insert_target, TypeOK, PC, LocalAtPoint, Exploring, StoppedOnlyAtTheEnd,
        OwnWorkDone
  <2>2. TodoWatched' /\ Quiet'
    BY SMTT(60), <1>4
    DEF insert_target, TypeOK, PC, LocalAtPoint, Exploring, StoppedOnlyAtTheEnd,
        OwnWorkDone, TodoWatched, Quiet
  <2>3. Accounted'
    BY SMTT(60), <1>4
    DEF insert_target, TypeOK, PC, LocalAtPoint, Exploring, StoppedOnlyAtTheEnd,
        Accounted
  <2>4. TargetsHandled'
    BY SMTT(60), <1>4
    DEF insert_target, TypeOK, PC, LocalAtPoint, Exploring, StoppedOnlyAtTheEnd,
        TargetsHandled
  <2> QED
    BY <2>1, <2>2, <2>3, <2>4
<1>5. ASSUME NEW t \in Thread, lookup_target(t)
      PROVE  Control' /\ Work'
  <2>1. Control'
    BY SMTT(60), <1>5, <1>a
    DEF lookup_target, Found, TypeOK, PC, LocalAtPoint, Exploring,
        StoppedOnlyAtTheEnd, OwnWorkDone
  <2>2. TodoWatched' /\ Quiet'
    BY SMTT(60), <1>5
    DEF lookup_target, Found, TypeOK, PC, LocalAtPoint, Exploring,
        StoppedOnlyAtTheEnd, OwnWorkDone, TodoWatched, Quiet
  <2>3. Accounted'
    BY SMTT(60), <1>5
    DEF lookup_target, Found, TypeOK, PC, LocalAtPoint, Exploring,
        StoppedOnlyAtTheEnd, Accounted
  <2>4. TargetsHandled'
    BY SMTT(60), <1>5
    DEF lookup_target, Found, TypeOK, PC, LocalAtPoint, Exploring,
        StoppedOnlyAtTheEnd, TargetsHandled
  <2> QED
    BY <2>1, <2>2, <2>3, <2>4
<1>6. ASSUME NEW t \in Thread, insert_looked_up(t)
      PROVE  Control' /\ Work'
  <2>1. Control'
    BY SMTT(60), <1>6, <1>a
    DEF insert_looked_up, TypeOK, PC, LocalAtPoint, Exploring,
        StoppedOnlyAtTheEnd, OwnWorkDone
  <2>2. TodoWatched' /\ Quiet'
    BY SMTT(60), <1>6
    DEF insert_looked_up, TypeOK, PC, LocalAtPoint, Exploring,
        StoppedOnlyAtTheEnd, OwnWorkDone, TodoWatched, Quiet
  <2>3. Accounted'
    BY <1>6
    DEF insert_looked_up, TypeOK, PC, LocalAtPoint, Exploring,
        StoppedOnlyAtTheEnd, Accounted
  <2>4. TargetsHandled'
    BY SMTT(60), <1>6
    DEF insert_looked_up, TypeOK, PC, LocalAtPoint, Exploring,
        StoppedOnlyAtTheEnd, TargetsHandled
  <2> QED
    BY <2>1, <2>2, <2>3, <2>4
<1>7. ASSUME NEW t \in Thread, discover_state(t)
      PROVE  Control' /\ Work'
  <2>1. Control'
    BY SMTT(60), <1>7, <1>a
    DEF discover_state, TypeOK, PC, LocalAtPoint, Exploring,
        StoppedOnlyAtTheEnd, OwnWorkDone
  <2>2. TodoWatched' /\ Quiet'
    BY SMTT(60), <1>7
    DEF discover_state, TypeOK, PC, LocalAtPoint, Exploring,
        StoppedOnlyAtTheEnd, OwnWorkDone, TodoWatched, Quiet
  <2>3. Accounted'
    BY SMTT(60), <1>7
    DEF discover_state, TypeOK, PC, LocalAtPoint, Exploring,
        StoppedOnlyAtTheEnd, Accounted
  <2>4. TargetsHandled'
    BY SMTT(60), <1>7
    DEF discover_state, TypeOK, PC, LocalAtPoint, Exploring,
        StoppedOnlyAtTheEnd, TargetsHandled
  <2> QED
    BY <2>1, <2>2, <2>3, <2>4
<1>8. ASSUME NEW t \in Thread, finish_state(t)
      PROVE  Control' /\ Work'
  <2>1. Control'
    BY SMTT(60), <1>8, <1>a
    DEF finish_state, TypeOK, PC, LocalAtPoint, Exploring, StoppedOnlyAtTheEnd,
        OwnWorkDone
  <2>2. TodoWatched' /\ Quiet'
    BY SMTT(60), <1>8
    DEF finish_state, TypeOK, PC, LocalAtPoint, Exploring, StoppedOnlyAtTheEnd,
        OwnWorkDone, TodoWatched, Quiet
  <2>3. Accounted'
    BY SMTT(60), <1>8
    DEF finish_state, TypeOK, PC, LocalAtPoint, Exploring, StoppedOnlyAtTheEnd,
        Accounted
  <2>4. TargetsHandled'
    BY SMTT(60), <1>8
    DEF finish_state, TypeOK, PC, LocalAtPoint, Exploring, StoppedOnlyAtTheEnd,
        TargetsHandled
  <2> QED
    BY <2>1, <2>2, <2>3, <2>4
<1>9. ASSUME NEW t \in Thread, share_states(t)
      PROVE  Control' /\ Work'
  <2>1. Control'
    BY SMTT(60), <1>9, <1>a
    DEF share_states, TypeOK, PC, LocalAtPoint, Exploring, StoppedOnlyAtTheEnd,
        OwnWorkDone
  <2>2. TodoWatched' /\ Quiet'
    BY SMTT(60), <1>9
    DEF share_states, TypeOK, PC, LocalAtPoint, Exploring, StoppedOnlyAtTheEnd,
        OwnWorkDone, TodoWatched, Quiet
  <2>3. Accounted'
    BY SMTT(60), <1>9
    DEF share_states, TypeOK, PC, LocalAtPoint, Exploring, StoppedOnlyAtTheEnd,
        Accounted
  <2>4. TargetsHandled'
    BY SMTT(60), <1>9
    DEF share_states, TypeOK, PC, LocalAtPoint, Exploring, StoppedOnlyAtTheEnd,
        TargetsHandled
  <2> QED
    BY <2>1, <2>2, <2>3, <2>4
<1>10. ASSUME NEW t \in Thread, notify_all(t)
      PROVE  Control' /\ Work'
  <2>1. Control'
    BY SMTT(60), <1>10, <1>a
    DEF notify_all, NotifyAll, TypeOK, PC, LocalAtPoint, Exploring,
        StoppedOnlyAtTheEnd, OwnWorkDone
  <2>2. TodoWatched' /\ Quiet'
    BY SMTT(60), <1>10
    DEF notify_all, NotifyAll, TypeOK, PC, LocalAtPoint, Exploring,
        StoppedOnlyAtTheEnd, OwnWorkDone, TodoWatched, Quiet
  <2>3. Accounted'
    BY SMTT(60), <1>10
    DEF notify_all, NotifyAll, TypeOK, PC, LocalAtPoint, Exploring,
        StoppedOnlyAtTheEnd, Accounted
  <2>4. TargetsHandled'
    BY SMTT(60), <1>10
    DEF notify_all, NotifyAll, TypeOK, PC, LocalAtPoint, Exploring,
        StoppedOnlyAtTheEnd, TargetsHandled
  <2> QED
    BY <2>1, <2>2, <2>3, <2>4
<1>11. ASSUME NEW t \in Thread, check_todo(t)
      PROVE  Control' /\ Work'
  <2>1. Control'
    BY SMTT(60), <1>11, <1>a
    DEF check_todo, TypeOK, PC, LocalAtPoint, Exploring, StoppedOnlyAtTheEnd,
        OwnWorkDone
  <2>2. TodoWatched' /\ Quiet'
    BY SMTT(60), <1>11
    DEF check_todo, TypeOK, PC, LocalAtPoint, Exploring, StoppedOnlyAtTheEnd,
        OwnWorkDone, TodoWatched, Quiet
  <2>3. Accounted'
    BY SMTT(60), <1>11
    DEF check_todo, TypeOK, PC, LocalAtPoint, Exploring, StoppedOnlyAtTheEnd,
        Accounted
  <2>4. TargetsHandled'
    BY <1>11
    DEF check_todo, TypeOK, PC, LocalAtPoint, Exploring, StoppedOnlyAtTheEnd,
        TargetsHandled
  <2> QED
    BY <2>1, <2>2, <2>3, <2>4
<1>12. ASSUME NEW t \in Thread, become_inactive(t)
      PROVE  Control' /\ Work'
  <2>1. Control'
    <3>p. pc \in [Thread -> PC] /\ must_abort \in BOOLEAN
      BY DEF TypeOK
    <3>0. /\ pc[t] = "decide"
          /\ (must_abort' = TRUE) \/ (must_abort' = must_abort)
          /\ \/ pc' = NotifyAll(t, "take")
             \/ pc' = [pc EXCEPT ![t] = "waiting"]
          /\ UNCHANGED <<fixed, discovered, todo, local, history>>
      BY <1>12, ZenonT(60) DEF become_inactive
    <3>1. /\ pc'[t] \in {"take", "waiting"}
          /\ \A u \in Thread \ {t} :
               pc'[u] = pc[u] \/ (pc[u] = "waiting" /\ pc'[u] = "woken")
      BY <3>p, <3>0 DEF NotifyAll
    <3>2. pc' \in [Thread -> PC]
      BY <3>p, <3>0 DEF NotifyAll, PC
    <3>q. must_abort' \in BOOLEAN /\ (must_abort => must_abort')
      <4>1. CASE must_abort' = TRUE
        BY <4>1
      <4>2. CASE must_abort' = must_abort
        BY SMTT(60), <3>p, <4>2
      <4> QED
        BY <3>0, <4>1, <4>2, ZenonT(60)
    <3>3. TypeOK'
      BY SMTT(60), <1>a, <3>0, <3>2, <3>q DEF TypeOK
    <3>4. LocalAtPoint'
      BY SMTT(60), <3>0, <3>1 DEF LocalAtPoint, Exploring
    <3>5. StoppedOnlyAtTheEnd'
      BY SMTT(60), <3>0, <3>1, <3>q DEF StoppedOnlyAtTheEnd
    <3>6. OwnWorkDone'
      BY SMTT(60), <3>0, <3>1, <3>q DEF OwnWorkDone
    <3> QED
      BY SMTT(60), <3>3, <3>4, <3>5, <3>6
  <2>2. running
    BY <1>12 DEF become_inactive, NotifyAll, StoppedOnlyAtTheEnd
  <2>3. ASSUME active = 1 /\ ~must_abort
        PROVE  TodoWatched' /\ Quiet'
    <3>1. \A u \in Thread \ {t} : u \in Inactive
      BY SMTT(60), <1>12, <2>2, <2>3, LastActive
      DEF become_inactive, NotifyAll, Inactive, ActiveCounts
    <3>2. TodoWatched'
      BY SMTT(60), <1>12, <2>3 DEF become_inactive, NotifyAll, TodoWatched
    <3>3. todo = {}
      BY SMTT(60), <1>12, <2>2, <2>3, <3>1
      DEF become_inactive, NotifyAll, TodoWatched, Inactive
    <3>4. Quiet'
      BY SMTT(60), <1>12, <2>3, <3>1, <3>3
      DEF become_inactive, NotifyAll, TypeOK, PC, LocalAtPoint, Exploring,
          StoppedOnlyAtTheEnd, OwnWorkDone, Inactive, Quiet
    <3> QED
      BY SMTT(60), <3>2, <3>4
  <2>4. ASSUME ~(active = 1 /\ ~must_abort)
        PROVE  TodoWatched' /\ Quiet'
    BY SMTT(60), <1>12, <2>2, <2>4
    DEF become_inactive, NotifyAll, TypeOK, TodoWatched, Quiet
  <2>5. Accounted'
    BY SMTT(60), <1>12 DEF become_inactive, NotifyAll, TypeOK, Accounted
  <2>6. TargetsHandled'
    BY SMTT(60), <1>12 DEF become_inactive, NotifyAll, TypeOK, TargetsHandled
  <2> QED
    BY <2>1, <2>3, <2>4, <2>5, <2>6
<1>13. ASSUME NEW t \in Thread, wake_up(t)
      PROVE  Control' /\ Work'
  <2>1. Control'
    BY SMTT(60), <1>13, <1>a
    DEF wake_up, TypeOK, PC, LocalAtPoint, Exploring, StoppedOnlyAtTheEnd,
        OwnWorkDone
  <2>2. TodoWatched' /\ Quiet'
    BY SMTT(60), <1>13
    DEF wake_up, TypeOK, PC, LocalAtPoint, Exploring, StoppedOnlyAtTheEnd,
        OwnWorkDone, TodoWatched, Quiet
  <2>3. Accounted'
    BY SMTT(60), <1>13
    DEF wake_up, TypeOK, PC, LocalAtPoint, Exploring, StoppedOnlyAtTheEnd,
        Accounted
  <2>4. TargetsHandled'
    BY SMTT(60), <1>13
    DEF wake_up, TypeOK, PC, LocalAtPoint, Exploring, StoppedOnlyAtTheEnd,
        TargetsHandled
  <2> QED
    BY <2>1, <2>2, <2>3, <2>4
<1>14. ASSUME NEW t \in Thread, become_active(t)
      PROVE  Control' /\ Work'
  <2>1. Control'
    BY SMTT(60), <1>14, <1>a
    DEF become_active, TypeOK, PC, LocalAtPoint, Exploring, StoppedOnlyAtTheEnd,
        OwnWorkDone
  <2>2. TodoWatched' /\ Quiet'
    BY SMTT(60), <1>14
    DEF become_active, TypeOK, PC, LocalAtPoint, Exploring, StoppedOnlyAtTheEnd,
        OwnWorkDone, TodoWatched, Quiet
  <2>3. Accounted'
    BY SMTT(60), <1>14
    DEF become_active, TypeOK, PC, LocalAtPoint, Exploring, StoppedOnlyAtTheEnd,
        Accounted
  <2>4. TargetsHandled'
    BY SMTT(60), <1>14
    DEF become_active, TypeOK, PC, LocalAtPoint, Exploring, StoppedOnlyAtTheEnd,
        TargetsHandled
  <2> QED
    BY <2>1, <2>2, <2>3, <2>4
<1>15. ASSUME NEW t \in Thread, abort(t)
      PROVE  Control' /\ Work'
  <2>1. Control'
    BY SMTT(60), <1>15, <1>a
    DEF abort, TypeOK, PC, LocalAtPoint, Exploring, StoppedOnlyAtTheEnd,
        OwnWorkDone
  <2>2. TodoWatched' /\ Quiet'
    BY SMTT(60), <1>15
    DEF abort, TypeOK, PC, LocalAtPoint, Exploring, StoppedOnlyAtTheEnd,
        OwnWorkDone, TodoWatched, Quiet
  <2>3. Accounted'
    BY SMTT(60), <1>15
    DEF abort, TypeOK, PC, LocalAtPoint, Exploring, StoppedOnlyAtTheEnd,
        Accounted
  <2>4. TargetsHandled'
    BY <1>15
    DEF abort, TypeOK, PC, LocalAtPoint, Exploring, StoppedOnlyAtTheEnd,
        TargetsHandled
  <2> QED
    BY <2>1, <2>2, <2>3, <2>4
<1>16. ASSUME generate_state_space
      PROVE  Control' /\ Work'
  <2>1. Control'
    BY <1>16, <1>a, ZenonT(60)
    DEF generate_state_space, Nothing, TypeOK, PC, LocalAtPoint, Exploring,
        StoppedOnlyAtTheEnd, OwnWorkDone
  <2>2. TodoWatched' /\ Quiet'
    BY <1>16, ThreadAssumption
    DEF generate_state_space, StoppedOnlyAtTheEnd, TodoWatched, Quiet
  <2>3. Accounted' /\ TargetsHandled'
    BY <1>16, ZenonT(60) DEF generate_state_space, Nothing, Accounted, TargetsHandled
  <2> QED
    BY <2>1, <2>2, <2>3
<1>17. ASSUME join
      PROVE  Control' /\ Work'
  <2>1. must_abort
    BY <1>17, ThreadAssumption DEF join, StoppedOnlyAtTheEnd
  <2>2. Control'
    BY <1>17, <1>a, <2>1, ZenonT(60)
    DEF join, TypeOK, PC, LocalAtPoint, Exploring, StoppedOnlyAtTheEnd,
        OwnWorkDone, Quiet
  <2>3. Work'
    BY SMTT(60), <1>17, <2>1
    DEF join, TypeOK, TodoWatched, Quiet, Accounted, TargetsHandled
  <2> QED
    BY <2>2, <2>3
<1>18. ASSUME UNCHANGED vars
      PROVE  Control' /\ Work'
  <2>1. Control'
    BY SMTT(60), <1>18
    DEF vars, TypeOK, LocalAtPoint, StoppedOnlyAtTheEnd, OwnWorkDone
  <2>2. TodoWatched' /\ Quiet'
    BY ZenonT(60), <1>18 DEF vars, TodoWatched, Quiet
  <2>3. Accounted' /\ TargetsHandled'
    BY ZenonT(60), <1>18 DEF vars, Accounted, TargetsHandled
  <2> QED
    BY <2>1, <2>2, <2>3
<1>r. Control' /\ Work'
  BY ZenonT(60), <1>1, <1>2, <1>3, <1>4, <1>5, <1>6, <1>7, <1>8, <1>9, <1>10, <1>11, <1>12,
     <1>13, <1>14, <1>15, <1>16, <1>17, <1>18, Zenon
  DEF Next, Step
<1> QED
  BY <1>r, <1>c DEF Counting

(***************************************************************************)
(* The invariant holds in every state of the exploration.                  *)
(***************************************************************************)
THEOREM Invariance == Spec => []IInv
BY InitIInv, NextIInv, PTL DEF Spec

(***************************************************************************)
(* Type correctness; number_of_active_processes stays between 0 and the    *)
(* number of threads and cannot wrap around.                               *)
(***************************************************************************)
THEOREM TypeCorrect == Spec => []TypeOK
<1>1. IInv => TypeOK
  BY DEF IInv
<1> QED
  BY <1>1, Invariance, PTL

(***************************************************************************)
(* number_of_active_processes is the number of threads not in the wait.    *)
(***************************************************************************)
THEOREM ActiveCorrect == Spec => []ActiveCounts
<1>1. IInv => ActiveCounts
  BY DEF IInv
<1> QED
  BY <1>1, Invariance, PTL

(***************************************************************************)
(* Termination detection is sound: m_must_abort is set, other than by      *)
(* abort(), only when no thread has work and the shared todo set is empty. *)
(***************************************************************************)
THEOREM TerminationSound == Spec => []NoWorkLost
<1>1. IInv => NoWorkLost
  BY DEF IInv, Quiet, NoWorkLost
<1> QED
  BY <1>1, Invariance, PTL

(***************************************************************************)
(* When generate_state_space returns without an abort, it has reported and *)
(* finished all discovered states, which are closed under transitions.     *)
(***************************************************************************)
THEOREM Completeness == Spec => []Complete
<1>1. IInv => Complete
  BY Zenon DEF IInv, Quiet, Accounted, TargetsHandled, Complete
<1> QED
  BY <1>1, Invariance, PTL

-----------------------------------------------------------------------------
(***************************************************************************)
(* An explorer remains the one that it is.                                 *)
(***************************************************************************)
LEMMA KindStays == [Next]_vars => stochastic' = stochastic
  BY ZenonT(60) DEF Next, Step, vars, fixed, generate_state_space, join, take_state,
     choose_element, leave_loop, insert_target, lookup_target, insert_looked_up,
     discover_state, finish_state, share_states, notify_all, check_todo,
     become_inactive, wake_up, become_active, abort

(***************************************************************************)
(* Without time and probabilities no state is in two places: insert tells  *)
(* exactly one thread that a state is new.                                 *)
(***************************************************************************)
LEMMA NextOnePlace ==
  ASSUME ~stochastic, ~Timed, IInv, OnePlace, [Next]_vars
  PROVE  OnePlace'
<1> USE StateAssumption DEF OnePlace, fixed, local, history, Goto
<1>t. TypeOK /\ LocalAtPoint /\ Accounted
  BY Zenon DEF IInv
<1>u. /\ mine \in [Thread -> SUBSET State] /\ current \in [Thread -> SUBSET State]
      /\ rest \in [Thread -> SUBSET State] /\ target \in [Thread -> SUBSET State]
      /\ reported \subseteq discovered
  BY <1>t, Zenon DEF TypeOK, Accounted
<1>1. ASSUME NEW t \in Thread, take_state(t)
      PROVE  OnePlace'
  BY SMTT(60), <1>1, <1>u DEF take_state, take
<1>2. ASSUME NEW t \in Thread, choose_element(t)
      PROVE  OnePlace'
  BY SMTT(60), <1>2, <1>u DEF choose_element
<1>3. ASSUME NEW t \in Thread, leave_loop(t)
      PROVE  OnePlace'
  BY ZenonT(60), <1>3 DEF leave_loop
<1>4. ASSUME NEW t \in Thread, insert_target(t)
      PROVE  OnePlace'
  BY SMTT(60), <1>4, <1>u DEF insert_target
<1>5. ASSUME NEW t \in Thread, insert_looked_up(t)
      PROVE  OnePlace'
  BY ZenonT(60), <1>5 DEF insert_looked_up
<1>6. ASSUME NEW t \in Thread, discover_state(t)
      PROVE  OnePlace'
  BY SMTT(60), <1>6, <1>u DEF discover_state
<1>7. ASSUME NEW t \in Thread, finish_state(t)
      PROVE  OnePlace'
  BY SMTT(60), <1>7, <1>u DEF finish_state
<1>8. ASSUME NEW t \in Thread, share_states(t)
      PROVE  OnePlace'
  BY SMTT(60), <1>8, <1>u DEF share_states
<1>9. ASSUME NEW t \in Thread, notify_all(t)
      PROVE  OnePlace'
  BY ZenonT(60), <1>9 DEF notify_all
<1>10. ASSUME NEW t \in Thread, check_todo(t)
      PROVE  OnePlace'
  BY ZenonT(60), <1>10 DEF check_todo
<1>11. ASSUME NEW t \in Thread, become_inactive(t)
      PROVE  OnePlace'
  BY ZenonT(60), <1>11 DEF become_inactive
<1>12. ASSUME NEW t \in Thread, wake_up(t)
      PROVE  OnePlace'
  BY ZenonT(60), <1>12 DEF wake_up
<1>13. ASSUME NEW t \in Thread, become_active(t)
      PROVE  OnePlace'
  BY ZenonT(60), <1>13 DEF become_active
<1>14. ASSUME NEW t \in Thread, abort(t)
      PROVE  OnePlace'
  BY ZenonT(60), <1>14 DEF abort
<1>15. CASE generate_state_space
  BY ZenonT(60), <1>15 DEF generate_state_space, Nothing
<1>16. CASE join
  BY <1>16 DEF join
<1>17. CASE UNCHANGED vars
  BY <1>17, ZenonT(60) DEF vars
<1> QED
  BY ZenonT(60), <1>1, <1>2, <1>3, <1>4, <1>5, <1>6, <1>7, <1>8, <1>9, <1>10, <1>11, <1>12,
     <1>13, <1>14, <1>15, <1>16, <1>17, Zenon
  DEF Next, Step, lookup_target

(***************************************************************************)
(* The two invariants together.                                            *)
(***************************************************************************)
THEOREM OnePlaceInvariance ==
  ASSUME ~Timed
  PROVE  Spec => [](IInv /\ (~stochastic => OnePlace))
<1>1. Init => (~stochastic => OnePlace)
  BY DEF Init, OnePlace, Nothing
<1>2. IInv /\ (~stochastic => OnePlace) /\ [Next]_vars => (~stochastic => OnePlace)'
  <2> SUFFICES ASSUME IInv, ~stochastic => OnePlace, [Next]_vars, ~stochastic'
               PROVE  OnePlace'
    OBVIOUS
  <2>1. ~stochastic
    BY KindStays
  <2> QED
    BY <2>1, NextOnePlace
<1> QED
  BY <1>1, <1>2, InitIInv, NextIInv, PTL DEF Spec

(***************************************************************************)
(* discover_state is invoked only when a state is encountered for the      *)
(* first time.                                                             *)
(***************************************************************************)
THEOREM DiscoveredOnce ==
  ASSUME ~Timed
  PROVE  Spec => DiscoverOnce
<1>1. IInv /\ (~stochastic => OnePlace) /\ [Next]_vars =>
        [~stochastic => \A t \in Thread :
           pc[t] = "discover" /\ pc'[t] # pc[t] => target[t] \cap reported = {}]_vars
  BY DEF OnePlace
<1> QED
  BY <1>1, OnePlaceInvariance, PTL DEF Spec, DiscoverOnce

(***************************************************************************)
(* No state is explored twice.                                             *)
(***************************************************************************)
THEOREM FinishedOnce ==
  ASSUME ~Timed
  PROVE  Spec => FinishOnce
<1>1. IInv /\ (~stochastic => OnePlace) /\ [Next]_vars =>
        [~stochastic => \A t \in Thread :
           current[t] # {} /\ current'[t] = {} => current[t] \cap finished = {}]_vars
  BY DEF OnePlace
<1> QED
  BY <1>1, OnePlaceInvariance, PTL DEF Spec, FinishOnce
=============================================================================
