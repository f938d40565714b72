-------------------------- MODULE ATermPoolProofs ---------------------------
(***************************************************************************)
(* Proofs about ATermPool, for any threads, terms and variables.  First:   *)
(* every step preserves the types, what is said about the positions of the *)
(* threads, and what is said about their variables.                        *)
(***************************************************************************)
EXTENDS ATermPool, TLAPS

(***************************************************************************)
(* Assignments to the local variables of a thread.                         *)
(***************************************************************************)
LEMMA SetTo ==
  ASSUME NEW L \in [Thread -> Locals], NEW t \in Thread, NEW v \in Address
  PROVE  [L EXCEPT ![t].to = v] \in [Thread -> Locals]
BY DEF Locals

LEMMA SetToFrom ==
  ASSUME NEW L \in [Thread -> Locals], NEW t \in Thread,
         NEW v \in Address, NEW w \in Address
  PROVE  [L EXCEPT ![t].to = v, ![t].from = w] \in [Thread -> Locals]
BY Zenon DEF Locals

LEMMA ToFromArgs ==
  ASSUME NEW L \in [Thread -> Locals], NEW t \in Thread,
         NEW v \in Address, NEW w \in Address, NEW u \in Thread
  PROVE  [L EXCEPT ![t].to = v, ![t].from = w][u].args = L[u].args
BY Zenon DEF Locals

LEMMA ToArgs ==
  ASSUME NEW L \in [Thread -> Locals], NEW t \in Thread, NEW v, NEW u \in Thread
  PROVE  [L EXCEPT ![t].to = v][u].args = L[u].args
BY DEF Locals

LEMMA NextArgs ==
  ASSUME NEW L \in [Thread -> Locals], NEW t \in Thread, NEW p, NEW u \in Thread
  PROVE  [L EXCEPT ![t].next = p][u].args = L[u].args
BY DEF Locals

LEMMA SetNext ==
  ASSUME NEW L \in [Thread -> Locals], NEW t \in Thread, NEW p \in PC
  PROVE  [L EXCEPT ![t].next = p] \in [Thread -> Locals]
BY DEF Locals

LEMMA AddArg ==
  ASSUME NEW L \in [Thread -> Locals], NEW t \in Thread, NEW x \in Term
  PROVE  [L EXCEPT ![t].args = @ \cup {x}] \in [Thread -> Locals]
BY DEF Locals

LEMMA ResetLocals ==
  ASSUME NEW L \in [Thread -> Locals], NEW t \in Thread
  PROVE  [L EXCEPT ![t] = NoLocals] \in [Thread -> Locals]
BY DEF Locals, NoLocals, Address, PC

(***************************************************************************)
(* Every step preserves the type invariant.                                *)
(***************************************************************************)
LEMMA NextTypeOK == TypeOK /\ [Next]_vars => TypeOK'
<1> SUFFICES ASSUME TypeOK, [Next]_vars PROVE TypeOK'
  OBVIOUS
<1> USE ThreadAssumption, TermAssumption
    DEF TypeOK, Goto, lockvars, protection, storage, collector, Address
<1> DEFINE Others == /\ writer \in Thread \cup {NoThread}
                     /\ readers \in [Thread -> Nat]
                     /\ m_thread_pools \subseteq Thread
                     /\ m_variables \in [Thread -> SUBSET Address]
                     /\ m_term \in [Address -> SUBSET Term]
                     /\ m_term_set \subseteq Term /\ marked \subseteq Term
                     /\ todo \subseteq Term /\ unswept \subseteq Term
                     /\ roots \subseteq Address /\ DOMAIN index \subseteq Hooked
                     /\ collection_due \in BOOLEAN /\ pc \in [Thread -> PC]
<1>1. ASSUME NEW t \in Thread, NEW v \in Variable, construct(t, v)
      PROVE  TypeOK'
  <2>1. Others'
    BY <1>1 DEF construct
  <2>2. local' \in [Thread -> Locals]
    BY <1>1 DEF construct, Locals, NoLocals, PC
  <2> QED
    BY <2>1, <2>2
<1>2. ASSUME NEW t \in Thread, NEW v \in Variable, destruct(t, v)
      PROVE  TypeOK'
  <2>1. Others'
    BY <1>2 DEF destruct
  <2>2. local' \in [Thread -> Locals]
    BY <1>2 DEF destruct, Locals, NoLocals, PC
  <2> QED
    BY <2>1, <2>2
<1>3. ASSUME NEW t \in Thread, NEW v \in Variable, create(t, v)
      PROVE  TypeOK'
  <2>1. Others'
    BY <1>3 DEF create, RW!AcquireShared, PC
  <2>2. local' \in [Thread -> Locals]
    BY <1>3, SetTo DEF create, PC
  <2> QED
    BY <2>1, <2>2
<1>4. ASSUME NEW t \in Thread, NEW v \in Variable, NEW w \in Variable,
             copy_construct(t, v, w)
      PROVE  TypeOK'
  <2>1. Others'
    BY <1>4 DEF copy_construct, PC
  <2>2. local' \in [Thread -> Locals]
    BY <1>4, SetToFrom, ZenonT(60) DEF copy_construct, PC
  <2> QED
    BY <2>1, <2>2
<1>5. ASSUME NEW t \in Thread, NEW v \in Variable, NEW w \in Variable,
             register_pointer(t, v, w)
      PROVE  TypeOK'
  <2>1. Others'
    BY <1>5 DEF register_pointer, PC
  <2>2. local' \in [Thread -> Locals]
    BY <1>5, SetToFrom, Zenon DEF register_pointer, PC
  <2> QED
    BY <2>1, <2>2
<1>6. ASSUME NEW t \in Thread, NEW v \in Variable, NEW w \in Variable,
             assign(t, v, w)
      PROVE  TypeOK'
  <2>1. Others'
    BY <1>6 DEF assign
  <2>2. local' \in [Thread -> Locals]
    BY <1>6 DEF assign, Locals, NoLocals, PC
  <2> QED
    BY <2>1, <2>2
<1>7. ASSUME NEW t \in Thread, lock_shared(t)
      PROVE  TypeOK'
  <2>1. Others'
    BY <1>7 DEF lock_shared, RW!AcquireShared
  <2>2. local' \in [Thread -> Locals]
    BY <1>7 DEF lock_shared, RW!AcquireShared, Locals, NoLocals, PC
  <2> QED
    BY <2>1, <2>2
<1>8. ASSUME NEW t \in Thread, collect(t)
      PROVE  TypeOK'
  <2>1. Others'
    BY <1>8 DEF collect, PC
  <2>2. local' \in [Thread -> Locals]
    BY <1>8, SetNext, Zenon DEF collect, PC
  <2> QED
    BY <2>1, <2>2
<1>9. ASSUME NEW t \in Thread, start_thread(t)
      PROVE  TypeOK'
  <2>1. Others'
    BY <1>9 DEF start_thread, PC
  <2>2. local' \in [Thread -> Locals]
    BY <1>9 DEF start_thread, Locals, NoLocals, PC
  <2> QED
    BY <2>1, <2>2
<1>10. ASSUME NEW t \in Thread, end_thread(t)
      PROVE  TypeOK'
  <2>1. Others'
    BY <1>10 DEF end_thread, PC
  <2>2. local' \in [Thread -> Locals]
    BY <1>10 DEF end_thread, Locals, NoLocals, PC
  <2> QED
    BY <2>1, <2>2
<1>11. ASSUME NEW t \in Thread, register_copy(t)
      PROVE  TypeOK'
  <2>1. Others'
    BY <1>11 DEF register_copy, Locals, PC
  <2>2. local' \in [Thread -> Locals]
    BY <1>11, ResetLocals DEF register_copy
  <2> QED
    BY <2>1, <2>2
<1>12. ASSUME NEW t \in Thread, write_pointer(t)
      PROVE  TypeOK'
  <2>1. Others'
    BY <1>12 DEF write_pointer, Locals, PC
  <2>2. local' \in [Thread -> Locals]
    BY <1>12, ResetLocals DEF write_pointer
  <2> QED
    BY <2>1, <2>2
<1>13. ASSUME NEW t \in Thread, unlock_shared(t)
      PROVE  TypeOK'
  <2>1. Others'
    BY <1>13 DEF unlock_shared, RW!ReleaseShared
  <2>2. local' \in [Thread -> Locals]
    BY <1>13 DEF unlock_shared, RW!ReleaseShared, Locals, NoLocals, PC
  <2> QED
    BY <2>1, <2>2
<1>14. ASSUME NEW t \in Thread, NEW x \in Term, create_argument(t, x)
      PROVE  TypeOK'
  <2>1. Others'
    BY <1>14 DEF create_argument, emplace, insert
  <2>2. local' \in [Thread -> Locals]
    <3>1. [local EXCEPT ![t].args = @ \cup {x}] \in [Thread -> Locals]
      BY AddArg, ZenonT(60)
    <3> QED
      BY <1>14, <3>1, Zenon DEF create_argument
  <2> QED
    BY <2>1, <2>2
<1>15. ASSUME NEW t \in Thread, NEW x \in Term, create_appl(t, x)
      PROVE  TypeOK'
  <2>1. Others'
    BY <1>15 DEF create_appl, emplace, RW!ReleaseShared, insert, Locals, PC
  <2>2. local' \in [Thread -> Locals]
    BY <1>15, ResetLocals DEF create_appl
  <2> QED
    BY <2>1, <2>2
<1>16. ASSUME NEW t \in Thread, created_term(t)
      PROVE  TypeOK'
  <2>1. Others'
    BY <1>16 DEF created_term, PC
  <2>3. [local EXCEPT ![t].next = "resize"] \in [Thread -> Locals]
    BY <1>16, SetNext, Zenon DEF PC
  <2>2. local' \in {local, [local EXCEPT ![t].next = "resize"]}
    BY <1>16 DEF created_term
  <2> QED
    BY <2>1, <2>2, <2>3
<1>17. ASSUME NEW t \in Thread, collect_impl(t)
      PROVE  TypeOK'
  <2>1. Others'
    BY ZenonT(60), <1>17 DEF collect_impl, Return, Locals, PC
  <2>2. local' \in [Thread -> Locals]
    BY SMTT(60), <1>17 DEF collect_impl, Return, Locals, NoLocals, PC
  <2> QED
    BY <2>1, <2>2
<1>18. ASSUME NEW t \in Thread, try_lock_fails(t)
      PROVE  TypeOK'
  <2>1. Others'
    BY <1>18 DEF try_lock_fails, PC
  <2>2. local' \in [Thread -> Locals]
    BY <1>18 DEF try_lock_fails, Locals, NoLocals, PC
  <2> QED
    BY <2>1, <2>2
<1>19. ASSUME NEW t \in Thread, wait(t)
      PROVE  TypeOK'
  <2>1. Others'
    BY <1>19 DEF wait, Return, Locals, PC
  <2>2. local' \in [Thread -> Locals]
    BY <1>19 DEF wait, Return, Locals, NoLocals, PC
  <2> QED
    BY <2>1, <2>2
<1>20. ASSUME NEW t \in Thread, start_collect(t)
      PROVE  TypeOK'
  <2>1. Others'
    BY <1>20 DEF start_collect, RW!AcquireExclusive, PC
  <2>2. local' \in [Thread -> Locals]
    BY <1>20 DEF start_collect, RW!AcquireExclusive, Locals, NoLocals, PC
  <2> QED
    BY <2>1, <2>2
<1>21. ASSUME NEW t \in Thread, mark(t)
      PROVE  TypeOK'
  <2>1. Others'
    BY <1>21 DEF mark, Contents
  <2>2. local' \in [Thread -> Locals]
    BY <1>21 DEF mark, Locals, NoLocals, PC
  <2> QED
    BY <2>1, <2>2
<1>22. ASSUME NEW t \in Thread, mark_term(t)
      PROVE  TypeOK'
  <2>1. Others'
    BY <1>22 DEF mark_term
  <2>2. local' \in [Thread -> Locals]
    BY <1>22 DEF mark_term, Locals, NoLocals, PC
  <2> QED
    BY <2>1, <2>2
<1>23. ASSUME NEW t \in Thread, start_sweep(t)
      PROVE  TypeOK'
  <2>1. Others'
    BY <1>23 DEF start_sweep, PC
  <2>2. local' \in [Thread -> Locals]
    BY <1>23 DEF start_sweep, Locals, NoLocals, PC
  <2> QED
    BY <2>1, <2>2
<1>24. ASSUME NEW t \in Thread, sweep(t)
      PROVE  TypeOK'
  <2>1. Others'
    BY <1>24 DEF sweep, NextToSweep, erase
  <2>2. local' \in [Thread -> Locals]
    BY <1>24 DEF sweep, NextToSweep, Locals, NoLocals, PC
  <2> QED
    BY <2>1, <2>2
<1>25. ASSUME NEW t \in Thread, end_collect(t)
      PROVE  TypeOK'
  <2>1. Others'
    BY <1>25, Zenon DEF end_collect, PC
  <2>2. local' \in [Thread -> Locals]
    BY <1>25 DEF end_collect, Locals, NoLocals, PC
  <2> QED
    BY <2>1, <2>2
<1>26. ASSUME NEW t \in Thread, unlock(t)
      PROVE  TypeOK'
  <2>1. Others'
    BY <1>26 DEF unlock, RW!ReleaseExclusive, Return, Locals, PC
  <2>2. local' \in [Thread -> Locals]
    BY <1>26 DEF unlock, RW!ReleaseExclusive, Return, Locals, NoLocals, PC
  <2> QED
    BY <2>1, <2>2
<1>27. ASSUME NEW t \in Thread, resize_is_needed(t)
      PROVE  TypeOK'
  <2>1. Others'
    BY <1>27 DEF resize_is_needed, PC
  <2>2. local' \in [Thread -> Locals]
    BY <1>27 DEF resize_is_needed, Locals, NoLocals, PC
  <2> QED
    BY <2>1, <2>2
<1>28. ASSUME NEW t \in Thread, resize_if_needed(t)
      PROVE  TypeOK'
  <2>1. Others'
    BY <1>28 DEF resize_if_needed, RW!AcquireExclusive, PC
  <2>2. local' \in [Thread -> Locals]
    BY SMTT(60), <1>28 DEF resize_if_needed, RW!AcquireExclusive, Locals, NoLocals, PC
  <2> QED
    BY <2>1, <2>2
<1>29. ASSUME NEW t \in Thread, register_thread_aterm_pool(t)
      PROVE  TypeOK'
  <2>1. Others'
    BY <1>29 DEF register_thread_aterm_pool, RW!AcquireExclusive, PC
  <2>2. local' \in [Thread -> Locals]
    BY SMTT(60), <1>29
    DEF register_thread_aterm_pool, RW!AcquireExclusive, Locals, NoLocals, PC
  <2> QED
    BY <2>1, <2>2
<1>30. ASSUME NEW t \in Thread, absorb(t)
      PROVE  TypeOK'
  <2>1. Others'
    BY <1>30 DEF absorb, RW!AcquireExclusive, PC
  <2>2. local' \in [Thread -> Locals]
    BY <1>30, SetNext, Zenon DEF absorb, PC
  <2> QED
    BY <2>1, <2>2
<1>31. ASSUME NEW t \in Thread, remove_thread_aterm_pool(t)
      PROVE  TypeOK'
  <2>1. Others'
    BY <1>31 DEF remove_thread_aterm_pool, RW!AcquireExclusive, PC
  <2>2. local' \in [Thread -> Locals]
    BY <1>31, SetNext, Zenon DEF remove_thread_aterm_pool, PC
  <2> QED
    BY <2>1, <2>2
<1>32. ASSUME UNCHANGED vars PROVE TypeOK'
  BY <1>32 DEF vars
<1> QED
  BY ZenonT(60), <1>1, <1>2, <1>3, <1>4, <1>5, <1>6, <1>7, <1>8, <1>9, <1>10, <1>11, <1>12,
     <1>13, <1>14, <1>15, <1>16, <1>17, <1>18, <1>19, <1>20, <1>21, <1>22,
     <1>23, <1>24, <1>25, <1>26, <1>27, <1>28, <1>29, <1>30, <1>31, <1>32, Zenon
  DEF Next, Start, Step

(***************************************************************************)
(* Every step preserves what is said about the positions of the threads.   *)
(***************************************************************************)
Control == LockAtPoint /\ ReturnPoints /\ PoolsRegistered /\ VariablesAbsorbed

LEMMA NextControl == TypeOK /\ Control /\ [Next]_vars => Control'
<1> SUFFICES ASSUME TypeOK, Control, [Next]_vars PROVE Control'
  OBVIOUS
<1> USE ThreadAssumption DEF TypeOK, Locals, Control, LockAtPoint, ReturnPoints,
    PoolsRegistered, VariablesAbsorbed, Leaving, Goto, lockvars, protection
<1>1. ASSUME NEW t \in Thread, NEW v \in Variable, construct(t, v)
      PROVE  Control'
  BY SMTT(60), <1>1 DEF construct
<1>2. ASSUME NEW t \in Thread, NEW v \in Variable, destruct(t, v)
      PROVE  Control'
  BY <1>2 DEF destruct
<1>3. ASSUME NEW t \in Thread, NEW v \in Variable, create(t, v)
      PROVE  Control'
  BY <1>3 DEF create, RW!AcquireShared
<1>4. ASSUME NEW t \in Thread, NEW v \in Variable, NEW w \in Variable,
             copy_construct(t, v, w)
      PROVE  Control'
  BY <1>4 DEF copy_construct
<1>5. ASSUME NEW t \in Thread, NEW v \in Variable, NEW w \in Variable,
             register_pointer(t, v, w)
      PROVE  Control'
  BY <1>5 DEF register_pointer
<1>6. ASSUME NEW t \in Thread, NEW v \in Variable, NEW w \in Variable,
             assign(t, v, w)
      PROVE  Control'
  BY <1>6 DEF assign
<1>7. ASSUME NEW t \in Thread, lock_shared(t)
      PROVE  Control'
  BY <1>7 DEF lock_shared, RW!AcquireShared
<1>8. ASSUME NEW t \in Thread, collect(t)
      PROVE  Control'
  BY <1>8 DEF collect
<1>9. ASSUME NEW t \in Thread, start_thread(t)
      PROVE  Control'
  BY SMTT(60), <1>9 DEF start_thread
<1>10. ASSUME NEW t \in Thread, end_thread(t)
      PROVE  Control'
  BY SMTT(60), <1>10 DEF end_thread
<1>11. ASSUME NEW t \in Thread, register_copy(t)
      PROVE  Control'
  BY SMTT(60), <1>11 DEF register_copy, NoLocals
<1>12. ASSUME NEW t \in Thread, write_pointer(t)
      PROVE  Control'
  BY <1>12 DEF write_pointer, NoLocals
<1>13. ASSUME NEW t \in Thread, unlock_shared(t)
      PROVE  Control'
  BY <1>13 DEF unlock_shared, RW!ReleaseShared
<1>14. ASSUME NEW t \in Thread, NEW x \in Term, create_argument(t, x)
      PROVE  Control'
  BY SMTT(60), <1>14 DEF create_argument, emplace
<1>15. ASSUME NEW t \in Thread, NEW x \in Term, create_appl(t, x)
      PROVE  Control'
  <2>1. /\ pc[t] = "create" /\ pc'[t] \in {"idle", "created"}
        /\ local'[t] = NoLocals /\ writer' = writer /\ writer # t
        /\ m_thread_pools' = m_thread_pools
        /\ \A u \in Thread \ {t} : /\ pc'[u] = pc[u] /\ local'[u] = local[u]
                                   /\ readers'[u] = readers[u]
                                   /\ m_variables'[u] = m_variables[u]
    BY SMTT(60), <1>15 DEF create_appl, emplace, RW!ReleaseShared
  <2>2. readers[t] > 0 /\ writer = NoThread
    BY SMTT(60), <2>1
  <2>3. t \in m_thread_pools /\ m_variables[t] \subseteq m_variables'[t]
    BY <1>15 DEF create_appl, emplace
  <2> HIDE DEF TypeOK, Locals
  <2>4. LockAtPoint'
    BY SMTT(60), <2>1, <2>2 DEF NoLocals
  <2>5. ReturnPoints' /\ PoolsRegistered'
    BY SMTT(60), <2>1, <2>3 DEF NoLocals
  <2>6. VariablesAbsorbed'
    BY <2>1, <2>3 DEF NoLocals
  <2> QED
    BY ZenonT(60), <2>4, <2>5, <2>6
<1>16. ASSUME NEW t \in Thread, created_term(t)
      PROVE  Control'
  <2>1. CASE local' = local
    BY SMTT(60), <1>16, <2>1 DEF created_term
  <2>2. CASE local' = [local EXCEPT ![t].next = "resize"]
    BY <1>16, <2>2 DEF created_term
  <2> QED
    BY <1>16, <2>1, <2>2 DEF created_term
<1>17. ASSUME NEW t \in Thread, collect_impl(t)
      PROVE  Control'
  <2>1. CASE Return(t)
    BY SMTT(60), <1>17, <2>1 DEF collect_impl, Return, NoLocals
  <2>2. CASE pc' = [pc EXCEPT ![t] = "try_collect"] /\ local' = local
    BY SMTT(60), <1>17, <2>2 DEF collect_impl
  <2> QED
    BY <1>17, <2>1, <2>2 DEF collect_impl
<1>18. ASSUME NEW t \in Thread, try_lock_fails(t)
      PROVE  Control'
  BY SMTT(60), <1>18 DEF try_lock_fails
<1>19. ASSUME NEW t \in Thread, wait(t)
      PROVE  Control'
  BY SMTT(60), <1>19 DEF wait, Return, NoLocals
<1>20. ASSUME NEW t \in Thread, start_collect(t)
      PROVE  Control'
  BY SMTT(60), <1>20 DEF start_collect, RW!AcquireExclusive
<1>21. ASSUME NEW t \in Thread, mark(t)
      PROVE  Control'
  BY SMTT(60), <1>21 DEF mark
<1>22. ASSUME NEW t \in Thread, mark_term(t)
      PROVE  Control'
  BY SMTT(60), <1>22 DEF mark_term
<1>23. ASSUME NEW t \in Thread, start_sweep(t)
      PROVE  Control'
  BY SMTT(60), <1>23 DEF start_sweep
<1>24. ASSUME NEW t \in Thread, sweep(t)
      PROVE  Control'
  BY SMTT(60), <1>24 DEF sweep
<1>25. ASSUME NEW t \in Thread, end_collect(t)
      PROVE  Control'
  BY SMTT(60), <1>25 DEF end_collect
<1>26. ASSUME NEW t \in Thread, unlock(t)
      PROVE  Control'
  BY SMTT(60), <1>26 DEF unlock, RW!ReleaseExclusive, Return, NoLocals
<1>27. ASSUME NEW t \in Thread, resize_is_needed(t)
      PROVE  Control'
  BY SMTT(60), <1>27 DEF resize_is_needed
<1>28. ASSUME NEW t \in Thread, resize_if_needed(t)
      PROVE  Control'
  BY SMTT(60), <1>28 DEF resize_if_needed, RW!AcquireExclusive
<1>29. ASSUME NEW t \in Thread, register_thread_aterm_pool(t)
      PROVE  Control'
  BY <1>29 DEF register_thread_aterm_pool, RW!AcquireExclusive
<1>30. ASSUME NEW t \in Thread, absorb(t)
      PROVE  Control'
  BY <1>30 DEF absorb, RW!AcquireExclusive
<1>31. ASSUME NEW t \in Thread, remove_thread_aterm_pool(t)
      PROVE  Control'
  BY SMTT(60), <1>31 DEF remove_thread_aterm_pool, RW!AcquireExclusive
<1>32. ASSUME UNCHANGED vars PROVE Control'
  BY SMTT(60), <1>32 DEF vars
<1> QED
  BY ZenonT(60), <1>1, <1>2, <1>3, <1>4, <1>5, <1>6, <1>7, <1>8, <1>9, <1>10, <1>11, <1>12,
     <1>13, <1>14, <1>15, <1>16, <1>17, <1>18, <1>19, <1>20, <1>21, <1>22,
     <1>23, <1>24, <1>25, <1>26, <1>27, <1>28, <1>29, <1>30, <1>31, <1>32, Zenon
  DEF Next, Start, Step

(***************************************************************************)
(* Every step preserves what is said about the variables of the threads.   *)
(***************************************************************************)
Variables == VariablesApart /\ VariablesInUse

\* A thread that is not leaving is the only one to use its variables.
LEMMA OnlyOwner ==
  ASSUME TypeOK, Variables, NEW t \in Thread, NEW u \in Thread \ {t},
         NEW v \in Own(t), ~Leaving(t), pc[u] \in {"copy", "write"}
  PROVE  v # local[u].from /\ v # local[u].to
BY DEF TypeOK, Variables, VariablesApart, VariablesInUse, Own, Leaving

\* Steps that move thread t to a point where it uses no variable.
LEMMA MoveStep ==
  ASSUME Variables, NEW t \in Thread, UNCHANGED <<m_variables, m_term>>,
         \A u \in Thread \ {t} : pc'[u] = pc[u] /\ local'[u] = local[u],
         pc'[t] \notin {"copy", "write", "create"},
         local'[t].to \in {local[t].to, IndexMap},
         Leaving(t) => Leaving(t)'
  PROVE  Variables'
<1>1. \A u \in Thread : Leaving(u) => Leaving(u)'
  BY DEF Leaving
<1>2. VariablesApart'
  BY <1>1 DEF Variables, VariablesApart
<1>3. ASSUME NEW u \in Thread, NEW v \in Variable, local[u].to # v
      PROVE  local'[u].to # v
  BY SMTT(60), <1>3, ThreadAssumption
<1>4. VariablesInUse'
  BY <1>3 DEF Variables, VariablesInUse, Own
<1> QED
  BY <1>2, <1>4 DEF Variables

LEMMA NextVariables ==
  TypeOK /\ Control /\ Variables /\ [Next]_vars => Variables'
<1> SUFFICES ASSUME TypeOK, Control, Variables, [Next]_vars PROVE Variables'
  OBVIOUS
<1> USE ThreadAssumption
    DEF TypeOK, Locals, Control, Variables, Leaving, Goto, lockvars, protection,
        Address
<1>1. ASSUME NEW t \in Thread, NEW v \in Variable, construct(t, v)
      PROVE  Variables'
  <2>1. VariablesApart'
    BY SMTT(60), <1>1 DEF construct, VariablesApart, Fresh
  <2>2. VariablesInUse'
    BY SMTT(60), <1>1 DEF construct, VariablesInUse, Fresh, Own
  <2> QED
    BY SMTT(60), <2>1, <2>2
<1>2. ASSUME NEW t \in Thread, NEW v \in Variable, destruct(t, v)
      PROVE  Variables'
  <2>1. VariablesApart'
    BY SMTT(60), <1>2 DEF destruct, VariablesApart
  <2>2. VariablesInUse'
    BY <1>2 DEF destruct, VariablesInUse, VariablesApart, Own
  <2> QED
    BY <2>1, <2>2
<1>3. ASSUME NEW t \in Thread, NEW v \in Variable, create(t, v)
      PROVE  Variables'
  <2>1. VariablesApart'
    BY <1>3 DEF create, RW!AcquireShared, VariablesApart
  <2>2. VariablesInUse'
    BY <1>3 DEF create, RW!AcquireShared, VariablesInUse, Own
  <2> QED
    BY <2>1, <2>2
<1>4. ASSUME NEW t \in Thread, NEW v \in Variable, NEW w \in Variable,
             copy_construct(t, v, w)
      PROVE  Variables'
  <2>1. VariablesApart'
    BY SMTT(60), <1>4 DEF copy_construct, VariablesApart, Fresh
  <2>2. VariablesInUse'
    BY <1>4 DEF copy_construct, VariablesInUse, Fresh, Own
  <2> QED
    BY <2>1, <2>2
<1>5. ASSUME NEW t \in Thread, NEW v \in Variable, NEW w \in Variable,
             register_pointer(t, v, w)
      PROVE  Variables'
  <2>1. VariablesApart'
    BY SMTT(60), <1>5 DEF register_pointer, VariablesApart, Fresh
  <2>2. VariablesInUse'
    BY SMTT(60), <1>5 DEF register_pointer, VariablesInUse, Fresh, Own
  <2> QED
    BY <2>1, <2>2
<1>6. ASSUME NEW t \in Thread, NEW v \in Variable, NEW w \in Variable,
             assign(t, v, w)
      PROVE  Variables'
  <2>1. VariablesApart'
    BY <1>6 DEF assign, VariablesApart
  <2>2. ASSUME NEW u \in Thread, pc[u] \in {"copy", "write"}
        PROVE  m_term'[local[u].from] = m_term[local[u].from]
            /\ m_term'[local[u].to] = m_term[local[u].to]
    <3>1. u # t /\ v \in Own(t) /\ ~Leaving(t)
      BY SMTT(60), <1>6, <2>2 DEF assign
    <3>2. v # local[u].from /\ v # local[u].to
      BY SMTT(60), <2>2, <3>1, OnlyOwner
    <3> QED
      BY <1>6, <3>2 DEF assign
  <2>3. VariablesInUse'
    BY SMTT(60), <1>6, <2>2 DEF assign, VariablesInUse, Own
  <2> QED
    BY <2>1, <2>3
<1>7. ASSUME NEW t \in Thread, lock_shared(t)
      PROVE  Variables'
  BY <1>7, MoveStep DEF lock_shared, RW!AcquireShared
<1>8. ASSUME NEW t \in Thread, collect(t)
      PROVE  Variables'
  BY SMTT(60), <1>8, MoveStep DEF collect
<1>9. ASSUME NEW t \in Thread, start_thread(t)
      PROVE  Variables'
  BY <1>9, MoveStep DEF start_thread
<1>10. ASSUME NEW t \in Thread, end_thread(t)
      PROVE  Variables'
  BY <1>10, MoveStep DEF end_thread
<1>11. ASSUME NEW t \in Thread, register_copy(t)
      PROVE  Variables'
  <2>1. /\ \A u \in Thread \ {t} : /\ m_variables'[u] = m_variables[u]
                                   /\ pc'[u] = pc[u] /\ local'[u] = local[u]
        /\ m_variables'[t] = m_variables[t] \cup {local[t].to}
        /\ pc[t] = "copy" /\ pc'[t] = "idle"
        /\ local'[t].to = IndexMap /\ m_term' = m_term
    BY ZenonT(60), <1>11 DEF register_copy, NoLocals
  <2> HIDE DEF TypeOK, Locals, Control
  <2>2. \A u \in Thread : /\ local[t].to \notin m_variables[u]
                          /\ u # t => local[u].to # local[t].to
    BY <2>1 DEF VariablesInUse
  <2>3. ASSUME NEW u \in Thread, NEW w \in Thread, u # w,
               NEW v \in m_variables'[u] \cap m_variables'[w]
        PROVE  Leaving(u)' \/ Leaving(w)'
    <3>1. \A z \in Thread \ {t} : local[t].to \notin m_variables'[z]
      BY <2>1, <2>2
    <3>2. v # local[t].to
      BY SMTT(60), <2>3, <3>1
    <3>3. v \in m_variables[u] \cap m_variables[w]
      BY SMTT(60), <2>1, <3>2
    <3>4. Leaving(u) \/ Leaving(w)
      BY SMTT(60), <2>3, <3>3 DEF VariablesApart
    <3> QED
      BY <2>1, <3>4
  <2>4. VariablesApart'
    BY SMTT(60), <2>3 DEF VariablesApart
  <2>5. VariablesInUse'
    BY SMTT(60), <2>1, <2>2 DEF VariablesInUse, Own
  <2> QED
    BY SMTT(60), <2>4, <2>5
<1>12. ASSUME NEW t \in Thread, write_pointer(t)
      PROVE  Variables'
  <2>1. VariablesApart'
    BY SMTT(60), <1>12 DEF write_pointer, NoLocals, VariablesApart
  <2>2. ASSUME NEW u \in Thread \ {t}, pc[u] \in {"copy", "write"}
        PROVE  m_term'[local[u].from] = m_term[local[u].from]
            /\ m_term'[local[u].to] = m_term[local[u].to]
    <3>1. local[t].to \in Own(t) /\ ~Leaving(t)
      BY SMTT(60), <1>12 DEF write_pointer, VariablesInUse
    <3>2. local[t].to # local[u].from /\ local[t].to # local[u].to
      BY SMTT(60), <2>2, <3>1, OnlyOwner
    <3> QED
      BY SMTT(60), <1>12, <3>2 DEF write_pointer
  <2>3. /\ \A u \in Thread \ {t} : pc'[u] = pc[u] /\ local'[u] = local[u]
        /\ pc'[t] = "idle" /\ local'[t].to = IndexMap
        /\ m_variables' = m_variables
    BY SMTT(60), <1>12 DEF write_pointer, NoLocals
  <2> HIDE DEF TypeOK, Locals, Control
  <2>4. VariablesInUse'
    BY SMTT(60), <2>2, <2>3 DEF VariablesInUse, Own
  <2> QED
    BY <2>1, <2>4
<1>13. ASSUME NEW t \in Thread, unlock_shared(t)
      PROVE  Variables'
  BY <1>13, MoveStep DEF unlock_shared, RW!ReleaseShared
<1>14. ASSUME NEW t \in Thread, NEW x \in Term, create_argument(t, x)
      PROVE  Variables'
  <2>1. VariablesApart'
    BY <1>14 DEF create_argument, emplace, VariablesApart
  <2>2. VariablesInUse'
    BY <1>14 DEF create_argument, emplace, VariablesInUse, Own
  <2> QED
    BY <2>1, <2>2
<1>15. ASSUME NEW t \in Thread, NEW x \in Term, create_appl(t, x)
      PROVE  Variables'
  <2>a. /\ pc[t] = "create" /\ local' = [local EXCEPT ![t] = NoLocals]
        /\ m_term' = [m_term EXCEPT ![local[t].to] = {x}]
        /\ pc' = [pc EXCEPT ![t] = IF x \in m_term_set THEN "idle" ELSE "created"]
        /\ \/ m_variables' = m_variables
           \/ /\ m_variables' = [m_variables EXCEPT ![t] = @ \cup {IndexMap}]
              /\ \A u \in Thread : IndexMap \notin m_variables[u]
    BY <1>15, Zenon DEF create_appl, emplace
  <2>b. /\ m_variables \in [Thread -> SUBSET Address] /\ pc \in [Thread -> PC]
        /\ local \in [Thread -> Locals] /\ m_term \in [Address -> SUBSET Term]
    BY Zenon
  <2>c. \A u \in Thread : local[u].from \in Address /\ local[u].to \in Address
    BY <2>b
  <2> HIDE DEF TypeOK, Locals, Control
  <2>d. /\ \A u \in Thread \ {t} : /\ m_variables'[u] = m_variables[u]
                                   /\ pc'[u] = pc[u] /\ local'[u] = local[u]
        /\ \/ m_variables'[t] = m_variables[t]
           \/ /\ m_variables'[t] = m_variables[t] \cup {IndexMap}
              /\ \A u \in Thread : IndexMap \notin m_variables[u]
    BY <2>a, <2>b
  <2>1. VariablesApart'
    BY SMTT(60), <2>a, <2>d DEF VariablesApart
  <2>2. ASSUME NEW u \in Thread, pc[u] \in {"copy", "write"}
        PROVE  m_term'[local[u].from] = m_term[local[u].from]
            /\ m_term'[local[u].to] = m_term[local[u].to]
    <3>1. u # t /\ local[t].to \in Own(t) /\ ~Leaving(t)
      BY <2>a, <2>2 DEF VariablesInUse, Leaving
    <3>2. local[t].to # local[u].from /\ local[t].to # local[u].to
      BY <2>2, <3>1, OnlyOwner, ZenonT(60)
    <3> QED
      BY <2>a, <2>b, <2>c, <3>2
  <2>3. ASSUME NEW u \in Thread
        PROVE  /\ Own(u) \subseteq Own(u)'
               /\ (m_variables[u])' \subseteq m_variables[u] \cup {IndexMap}
    BY <2>d DEF Own
  <2>4. pc'[t] \notin {"copy", "write", "create"} /\ local'[t].to = IndexMap
    BY <2>a, <2>b DEF NoLocals
  <2>5. \A u \in Thread \ {t} : pc'[u] = pc[u] /\ local'[u] = local[u]
    BY <2>d, Zenon
  <2>6. VariablesInUse'
    BY <2>2, <2>3, <2>4, <2>5 DEF VariablesInUse
  <2> QED
    BY SMTT(60), <2>1, <2>6
<1>16. ASSUME NEW t \in Thread, created_term(t)
      PROVE  Variables'
  <2>1. local'[t].to = local[t].to /\ \A u \in Thread \ {t} : local'[u] = local[u]
    BY <1>16 DEF created_term
  <2> QED
    BY SMTT(60), <1>16, <2>1, MoveStep DEF created_term
<1>17. ASSUME NEW t \in Thread, collect_impl(t)
      PROVE  Variables'
  <2>1. CASE Return(t)
    BY ZenonT(60), <1>17, <2>1, MoveStep DEF collect_impl, Return, NoLocals, ReturnPoints
  <2>2. CASE pc' = [pc EXCEPT ![t] = "try_collect"] /\ local' = local
    BY SMTT(60), <1>17, <2>2, MoveStep DEF collect_impl
  <2> QED
    BY SMTT(60), <1>17, <2>1, <2>2 DEF collect_impl
<1>18. ASSUME NEW t \in Thread, try_lock_fails(t)
      PROVE  Variables'
  BY SMTT(60), <1>18, MoveStep DEF try_lock_fails
<1>19. ASSUME NEW t \in Thread, wait(t)
      PROVE  Variables'
  BY ZenonT(60), <1>19, MoveStep DEF wait, Return, NoLocals, ReturnPoints
<1>20. ASSUME NEW t \in Thread, start_collect(t)
      PROVE  Variables'
  BY ZenonT(60), <1>20, MoveStep DEF start_collect, RW!AcquireExclusive
<1>21. ASSUME NEW t \in Thread, mark(t)
      PROVE  Variables'
  BY ZenonT(60), <1>21, MoveStep DEF mark
<1>22. ASSUME NEW t \in Thread, mark_term(t)
      PROVE  Variables'
  BY ZenonT(60), <1>22, MoveStep DEF mark_term
<1>23. ASSUME NEW t \in Thread, start_sweep(t)
      PROVE  Variables'
  BY ZenonT(60), <1>23, MoveStep DEF start_sweep
<1>24. ASSUME NEW t \in Thread, sweep(t)
      PROVE  Variables'
  BY ZenonT(60), <1>24, MoveStep DEF sweep
<1>25. ASSUME NEW t \in Thread, end_collect(t)
      PROVE  Variables'
  BY ZenonT(60), <1>25, MoveStep DEF end_collect
<1>26. ASSUME NEW t \in Thread, unlock(t)
      PROVE  Variables'
  BY ZenonT(60), <1>26, MoveStep
  DEF unlock, RW!ReleaseExclusive, Return, NoLocals, ReturnPoints
<1>27. ASSUME NEW t \in Thread, resize_is_needed(t)
      PROVE  Variables'
  BY SMTT(60), <1>27, MoveStep DEF resize_is_needed
<1>28. ASSUME NEW t \in Thread, resize_if_needed(t)
      PROVE  Variables'
  BY SMTT(60), <1>28, MoveStep DEF resize_if_needed, RW!AcquireExclusive
<1>29. ASSUME NEW t \in Thread, register_thread_aterm_pool(t)
      PROVE  Variables'
  BY <1>29, MoveStep DEF register_thread_aterm_pool, RW!AcquireExclusive
<1>30. ASSUME NEW t \in Thread, absorb(t)
      PROVE  Variables'
  <2>1. VariablesApart'
    BY <1>30 DEF absorb, RW!AcquireExclusive, VariablesApart
  <2>2. VariablesInUse'
    BY <1>30 DEF absorb, RW!AcquireExclusive, VariablesInUse, Own
  <2> QED
    BY <2>1, <2>2
<1>31. ASSUME NEW t \in Thread, remove_thread_aterm_pool(t)
      PROVE  Variables'
  <2>1. VariablesApart'
    BY <1>31 DEF remove_thread_aterm_pool, RW!AcquireExclusive, VariablesApart
  <2>2. VariablesInUse'
    BY SMTT(60), <1>31
    DEF remove_thread_aterm_pool, RW!AcquireExclusive, VariablesInUse, Own
  <2> QED
    BY <2>1, <2>2
<1>32. ASSUME UNCHANGED vars PROVE Variables'
  <2>1. UNCHANGED <<m_variables, m_term, pc, local>>
    BY <1>32, Zenon DEF vars, protection
  <2> HIDE DEF TypeOK, Locals, Control
  <2>2. VariablesApart'
    BY <2>1, Zenon DEF VariablesApart, Leaving
  <2>3. VariablesInUse'
    BY <2>1, Zenon DEF VariablesInUse, Own
  <2> QED
    BY <2>2, <2>3, Zenon
<1> QED
  BY ZenonT(60), <1>1, <1>2, <1>3, <1>4, <1>5, <1>6, <1>7, <1>8, <1>9, <1>10, <1>11, <1>12,
     <1>13, <1>14, <1>15, <1>16, <1>17, <1>18, <1>19, <1>20, <1>21, <1>22,
     <1>23, <1>24, <1>25, <1>26, <1>27, <1>28, <1>29, <1>30, <1>31, <1>32, Zenon
  DEF Next, Start, Step

-----------------------------------------------------------------------------
(***************************************************************************)
(* Second: every step preserves what is said about the terms and the       *)
(* collector.                                                              *)
(***************************************************************************)
Heap ==
  /\ CollectorIdle /\ Marking /\ SweepsTermsOnly
  /\ KeptClosed /\ AccessibleKept /\ HookedIndexed

\* Steps that change neither the protection sets nor the terms nor the marks.
LEMMA QuietStep ==
  ASSUME Heap, UNCHANGED <<protection, storage, collector>>,
         \A t \in Thread : /\ pc'[t] = "mark" <=> pc[t] = "mark"
                           /\ pc'[t] = "sweep" <=> pc[t] = "sweep"
                           /\ local'[t].args \subseteq local[t].args
  PROVE  Heap'
<1> USE DEF protection, storage, collector, Heap
<1>1. Sweeping' = Sweeping /\ Protection' = Protection
  BY ZenonT(60) DEF Sweeping, Protection
<1>2. Kept' = Kept /\ \A v : Contents(v)' = Contents(v)
  BY <1>1 DEF Kept, Contents
<1>3. CollectorIdle' /\ SweepsTermsOnly' /\ KeptClosed' /\ HookedIndexed'
  BY <1>1, <1>2 DEF CollectorIdle, SweepsTermsOnly, KeptClosed, HookedIndexed
<1>4. Marking'
  BY <1>1, <1>2 DEF Marking
<1>5. AccessibleKept'
  BY <1>1, <1>2 DEF AccessibleKept
<1> QED
  BY <1>3, <1>4, <1>5

\* Without an exclusive section there is no collection.
LEMMA NoCollection ==
  ASSUME LockAtPoint, CollectorIdle, writer = NoThread
  PROVE  /\ \A t \in Thread : pc[t] \notin {"mark", "sweep"}
         /\ roots = {} /\ todo = {} /\ unswept = {} /\ marked = {}
         /\ Kept = m_term_set
BY ThreadAssumption DEF LockAtPoint, CollectorIdle, Kept, Sweeping

\* Steps outside collections have to keep the terms closed and protected.
LEMMA FreeStep ==
  ASSUME LockAtPoint, Heap, writer = NoThread, UNCHANGED collector,
         \A t \in Thread : pc'[t] \notin {"mark", "sweep"},
         \A x \in m_term_set' : Arg[x] \subseteq m_term_set',
         \A v \in Protection' : Contents(v)' \subseteq m_term_set',
         \A t \in Thread : local'[t].args \subseteq m_term_set',
         HookedIndexed'
  PROVE  Heap'
<1>1. roots = {} /\ todo = {} /\ unswept = {} /\ marked = {}
  BY NoCollection DEF Heap
<1>2. ~Sweeping' /\ Kept' = m_term_set'
  BY DEF Sweeping, Kept
<1>3. CollectorIdle' /\ Marking' /\ SweepsTermsOnly'
  BY <1>1, <1>2 DEF CollectorIdle, Marking, SweepsTermsOnly, collector
<1>4. KeptClosed' /\ AccessibleKept'
  BY <1>2 DEF KeptClosed, AccessibleKept
<1> QED
  BY <1>3, <1>4 DEF Heap

\* A thread that marks or sweeps is the only one that does, and no thread has
\* unprotected arguments.
LEMMA CollectorAlone ==
  ASSUME LockAtPoint, NEW t \in Thread, pc[t] \in {"mark", "sweep"}
  PROVE  /\ \A u \in Thread \ {t} : pc[u] \notin {"mark", "sweep"}
         /\ \A u \in Thread : local[u].args = {}
<1>1. writer = t /\ writer # NoThread
  BY ThreadAssumption DEF LockAtPoint
<1>2. \A u \in Thread \ {t} : pc[u] \notin {"mark", "sweep"}
  BY <1>1 DEF LockAtPoint
<1>3. \A u \in Thread : local[u].args = {}
  BY <1>1 DEF LockAtPoint
<1> QED
  BY <1>2, <1>3

\* The steps of the collector.
CollectorStepOf(t) ==
  \/ start_collect(t) \/ mark(t) \/ mark_term(t) \/ start_sweep(t)
  \/ sweep(t) \/ end_collect(t)

LEMMA CollectorSteps ==
  ASSUME TypeOK, Control, Heap, NEW t \in Thread, CollectorStepOf(t)
  PROVE  Heap'
<1> USE DEF Goto, lockvars, protection, storage
<1>a. LockAtPoint /\ pc \in [Thread -> PC]
  BY DEF TypeOK, Control
<1>1. CASE start_collect(t)
  <2>1. writer = NoThread /\ roots' = Protection
    BY <1>1, Zenon DEF start_collect, RW!AcquireExclusive, Protection
  <2>2. /\ \A u \in Thread : pc[u] \notin {"mark", "sweep"}
        /\ roots = {} /\ todo = {} /\ unswept = {} /\ marked = {}
        /\ Kept = m_term_set
    BY <1>a, <2>1, NoCollection DEF Heap
  <2>3. ~Sweeping' /\ Kept' = m_term_set /\ Protection' = Protection
    BY <1>a, <1>1, <2>2, Zenon DEF start_collect, Sweeping, Kept, Protection
  <2>4. \A v : Contents(v)' = Contents(v)
    BY <1>1, Zenon DEF start_collect, Contents
  <2>5. CollectorIdle' /\ SweepsTermsOnly'
    BY <1>a, <1>1, <2>2, <2>3, Zenon
    DEF start_collect, CollectorIdle, SweepsTermsOnly
  <2>6. Marking'
    BY <1>1, <2>1, <2>2, <2>3, <2>4 DEF start_collect, Marking
  <2>7. KeptClosed' /\ AccessibleKept' /\ HookedIndexed'
    BY <1>1, <2>2, <2>3, <2>4, Zenon
       DEF start_collect, Heap, KeptClosed, AccessibleKept, HookedIndexed
  <2> QED
    BY <2>5, <2>6, <2>7 DEF Heap
<1>2. CASE mark(t) \/ mark_term(t)
  <2>1. /\ UNCHANGED <<lockvars, protection, storage, unswept, pc, local>>
        /\ pc[t] = "mark"
    BY <1>2 DEF mark, mark_term
  <2>2. /\ Protection' = Protection /\ ~Sweeping /\ ~Sweeping'
        /\ Kept = m_term_set /\ Kept' = m_term_set
    BY <1>a, <2>1, CollectorAlone, Zenon DEF Protection, Sweeping, Kept
  <2>3. \A v : Contents(v)' = Contents(v)
    BY <2>1, Zenon DEF Contents
  <2>4. Marking'
    <3>1. CASE mark(t)
      <4>1. PICK v \in roots : /\ roots' = roots \ {v}
                               /\ todo' = Contents(v) \ marked
                               /\ marked' = marked \cup Contents(v)
                               /\ todo = {}
        BY <3>1 DEF mark
      <4>2. v \in Protection /\ Contents(v) \subseteq m_term_set
        BY <2>1, <2>2 DEF Marking, Heap, AccessibleKept
      <4>3. /\ marked' \subseteq m_term_set /\ todo' \subseteq marked'
            /\ roots' \subseteq Protection
            /\ \A x \in marked' \ todo' : Arg[x] \subseteq marked'
        BY <2>1, <4>1, <4>2 DEF Marking, Heap
      <4>4. ASSUME NEW p \in Protection, NEW x \in Contents(p)
            PROVE  x \in marked' \/ \E w \in roots' : x \in Contents(w)
        <5>1. x \in marked \/ \E w \in roots : x \in Contents(w)
          BY <2>1 DEF Marking, Heap
        <5> QED
          BY <4>1, <5>1
      <4>5. \A p \in Protection' :
              Contents(p)' \subseteq marked' \cup UNION {Contents(w)' : w \in roots'}
        BY <2>2, <2>3, <4>4
      <4> QED
        BY <2>1, <2>2, <4>3, <4>5 DEF Marking
    <3>2. CASE mark_term(t)
      <4>1. PICK x \in todo : /\ todo' = (todo \ {x}) \cup (Arg[x] \ marked)
                              /\ marked' = marked \cup Arg[x]
                              /\ roots' = roots
        BY <3>2, Zenon DEF mark_term
      <4>2. Arg[x] \subseteq m_term_set
        BY <2>1, <2>2 DEF Marking, Heap, KeptClosed
      <4>3. /\ marked' \subseteq m_term_set /\ todo' \subseteq marked'
            /\ \A y \in marked' \ todo' : Arg[y] \subseteq marked'
        BY <2>1, <4>1, <4>2 DEF Marking, Heap
      <4>4. /\ roots \subseteq Protection
            /\ \A p \in Protection :
                 Contents(p) \subseteq marked' \cup UNION {Contents(w) : w \in roots}
        BY <2>1, <4>1 DEF Marking, Heap
      <4>5. \A p \in Protection' :
              Contents(p)' \subseteq marked' \cup UNION {Contents(w)' : w \in roots'}
        BY <2>2, <2>3, <4>1, <4>4
      <4> QED
        BY <2>1, <2>2, <4>1, <4>3, <4>4, <4>5 DEF Marking
    <3> QED
      BY <1>2, <3>1, <3>2
  <2>5. CollectorIdle' /\ SweepsTermsOnly'
    BY <2>1, <2>2 DEF Heap, CollectorIdle, SweepsTermsOnly
  <2>6. KeptClosed' /\ AccessibleKept' /\ HookedIndexed'
    BY <2>1, <2>2, <2>3 DEF Heap, KeptClosed, AccessibleKept, HookedIndexed
  <2> QED
    BY <2>4, <2>5, <2>6 DEF Heap
<1>3. CASE start_sweep(t)
  <2>1. /\ UNCHANGED <<lockvars, protection, storage, marked, roots, todo, local>>
        /\ pc[t] = "mark" /\ pc' = [pc EXCEPT ![t] = "sweep"]
        /\ roots = {} /\ todo = {} /\ unswept' = m_term_set
    BY <1>3 DEF start_sweep
  <2>2. Sweeping' /\ (\A u \in Thread : pc'[u] # "mark")
    BY <1>a, <2>1, CollectorAlone, Zenon DEF Sweeping
  <2>3. Kept' = marked /\ Protection' = Protection
    BY <2>1, <2>2, Zenon DEF Kept, Protection
  <2>4. \A v : Contents(v)' = Contents(v)
    BY <2>1 DEF Contents
  <2>5. \A u \in Thread : local[u].args = {}
    BY <1>a, <2>1, CollectorAlone
  <2>6. CollectorIdle' /\ Marking' /\ SweepsTermsOnly'
    BY <2>1, <2>2 DEF Heap, CollectorIdle, Marking, SweepsTermsOnly
  <2>7. /\ \A x \in marked : Arg[x] \subseteq marked
        /\ \A v \in Protection : Contents(v) \subseteq marked
        /\ HookedIndexed
    BY <2>1 DEF Heap, Marking
  <2>8. KeptClosed' /\ AccessibleKept' /\ HookedIndexed'
    BY <2>1, <2>3, <2>4, <2>5, <2>7, ZenonT(60)
       DEF KeptClosed, AccessibleKept, HookedIndexed
  <2> QED
    BY <2>6, <2>8 DEF Heap
<1>4. CASE sweep(t)
  <2>1. /\ UNCHANGED <<lockvars, protection, roots, todo, pc, local>>
        /\ pc[t] = "sweep"
    BY <1>4 DEF sweep
  <2>2. /\ Sweeping /\ Sweeping' /\ Protection' = Protection
        /\ \A u \in Thread : pc[u] # "mark"
    BY <1>a, <2>1, CollectorAlone, Zenon DEF Sweeping, Protection
  <2>3. PICK x \in unswept :
          /\ unswept' = unswept \ {x}
          /\ \/ x \in marked /\ marked' = marked \ {x} /\ UNCHANGED storage
             \/ /\ x \notin marked /\ marked' = marked
                /\ m_term_set' = m_term_set \ {x}
                /\ x \in Hooked => index' = [k \in DOMAIN index \ {x} |-> index[k]]
                /\ x \notin Hooked => index' = index
    BY <1>4, Zenon DEF sweep, NextToSweep, erase
  <2>4. marked \subseteq unswept /\ unswept \subseteq m_term_set
    BY <2>2 DEF Heap, SweepsTermsOnly
  <2>5. Kept' = Kept
    BY <2>2, <2>3, <2>4 DEF Kept
  <2>6. \A v : Contents(v)' \subseteq Contents(v)
    BY <2>1, <2>3 DEF Contents
  <2>7. CollectorIdle' /\ Marking' /\ SweepsTermsOnly'
    BY <2>1, <2>2, <2>3, <2>4
       DEF Heap, CollectorIdle, Marking, SweepsTermsOnly
  <2>8. KeptClosed' /\ AccessibleKept'
    BY <2>1, <2>2, <2>5, <2>6 DEF Heap, KeptClosed, AccessibleKept
  <2>9. HookedIndexed'
    BY <2>2, <2>3 DEF Heap, HookedIndexed
  <2> QED
    BY <2>7, <2>8, <2>9 DEF Heap
<1>5. CASE end_collect(t)
  <2>1. /\ UNCHANGED <<lockvars, protection, storage, collector, local>>
        /\ pc[t] = "sweep" /\ pc' = [pc EXCEPT ![t] = "unlock"] /\ unswept = {}
    BY <1>5 DEF end_collect
  <2>2. /\ Sweeping /\ ~Sweeping' /\ Protection' = Protection
        /\ \A u \in Thread : pc'[u] \notin {"mark", "sweep"}
    BY <1>a, <2>1, CollectorAlone DEF Sweeping, Protection
  <2>3. marked = {} /\ roots = {} /\ todo = {}
    BY <1>a, <2>1, <2>2, CollectorAlone, Zenon
       DEF Heap, SweepsTermsOnly, CollectorIdle
  <2>4. Kept = m_term_set /\ Kept' = m_term_set
    BY <2>1, <2>2, <2>3 DEF Kept
  <2>5. \A v : Contents(v)' = Contents(v)
    BY <2>1, Zenon DEF Contents
  <2>6. CollectorIdle' /\ Marking' /\ SweepsTermsOnly'
    BY <2>1, <2>2, <2>3
       DEF collector, CollectorIdle, Marking, SweepsTermsOnly
  <2>7. KeptClosed' /\ AccessibleKept' /\ HookedIndexed'
    BY <2>1, <2>2, <2>4, <2>5, Zenon
       DEF Heap, KeptClosed, AccessibleKept, HookedIndexed
  <2> QED
    BY <2>6, <2>7 DEF Heap
<1> QED
  BY <1>1, <1>2, <1>3, <1>4, <1>5, Zenon DEF CollectorStepOf

\* Before a free step all terms of all variables exist.
LEMMA BeforeFreeStep ==
  ASSUME Control, Heap, writer = NoThread
  PROVE  /\ \A u \in Thread : pc[u] \notin {"mark", "sweep"}
         /\ \A x \in m_term_set : Arg[x] \subseteq m_term_set
         /\ \A v \in Protection : Contents(v) \subseteq m_term_set
         /\ \A u \in Thread : local[u].args \subseteq m_term_set
         /\ HookedIndexed
BY NoCollection DEF Control, Heap, KeptClosed, AccessibleKept

LEMMA OwnProtected ==
  ASSUME Control, NEW t \in Thread, NEW v \in Own(t)
  PROVE  /\ v \in Protection /\ v # IndexMap /\ Contents(v) = m_term[v]
BY DEF Control, PoolsRegistered, Own, Protection, Contents

LEMMA UsableTerms ==
  ASSUME NEW t, NEW y \in Usable(t)
  PROVE  y \in local[t].args \/ \E v \in Own(t) : y \in m_term[v]
BY DEF Usable

\* A thread that adds an address to its pool, or removes it, protects no other
\* address and leaves all others protected.
LEMMA ProtectionNear ==
  ASSUME NEW v, m_thread_pools' = m_thread_pools,
         \A u \in m_thread_pools : /\ m_variables[u] \subseteq m_variables'[u] \cup {v}
                                  /\ m_variables'[u] \subseteq m_variables[u] \cup {v}
  PROVE  /\ Protection \subseteq Protection' \cup {v}
         /\ Protection' \subseteq Protection \cup {v}
<1>1. ASSUME NEW w \in Protection PROVE w \in Protection' \cup {v}
  BY SMTT(60) DEF Protection
<1>2. ASSUME NEW w \in Protection' PROVE w \in Protection \cup {v}
  BY SMTT(60) DEF Protection
<1> QED
  BY <1>1, <1>2

LEMMA ProtectionGrows ==
  ASSUME NEW v, m_thread_pools' = m_thread_pools,
         \A u \in m_thread_pools : /\ m_variables[u] \subseteq m_variables'[u]
                                  /\ m_variables'[u] \subseteq m_variables[u] \cup {v}
  PROVE  Protection \subseteq Protection' /\ Protection' \subseteq Protection \cup {v}
<1>1. ASSUME NEW w \in Protection PROVE w \in Protection'
  BY SMTT(60) DEF Protection
<1>2. ASSUME NEW w \in Protection' PROVE w \in Protection \cup {v}
  BY SMTT(60) DEF Protection
<1> QED
  BY <1>1, <1>2

\* Adding a term whose arguments are in variables or in the argument array.
LEMMA EmplaceStep ==
  ASSUME TypeOK, Control, Heap, NEW t \in Thread, NEW x \in Term,
         writer = NoThread, pc[t] = "create",
         Arg[x] \subseteq Usable(t), emplace(t, x),
         UNCHANGED m_thread_pools
  PROVE  /\ m_term_set' = m_term_set \cup {x}
         /\ \A y \in m_term_set' : Arg[y] \subseteq m_term_set'
         /\ Protection \subseteq Protection'
         /\ Protection' \subseteq Protection \cup {IndexMap}
         /\ IndexMap \in Protection' => Contents(IndexMap)' \subseteq m_term_set'
         /\ HookedIndexed'
<1>1. /\ \A y \in m_term_set : Arg[y] \subseteq m_term_set
      /\ \A v \in Protection : Contents(v) \subseteq m_term_set
      /\ \A u \in Thread : local[u].args \subseteq m_term_set
      /\ HookedIndexed
  BY BeforeFreeStep
<1>2. ASSUME NEW y \in Arg[x] PROVE y \in m_term_set
  <2>1. CASE y \in local[t].args
    BY <1>1, <2>1
  <2>2. ASSUME NEW v \in Own(t), y \in m_term[v] PROVE y \in m_term_set
    <3>1. v \in Protection /\ Contents(v) = m_term[v]
      BY OwnProtected
    <3> QED
      BY <1>1, <2>2, <3>1
  <2>3. y \in Usable(t)
    OBVIOUS
  <2>4. y \in local[t].args \/ \E v \in Own(t) : y \in m_term[v]
    BY <2>3, UsableTerms
  <2> QED
    BY <2>1, <2>2, <2>4
<1>3. m_term_set' = m_term_set \cup {x}
  BY DEF emplace
<1>4. t \in m_thread_pools
  BY DEF Control, PoolsRegistered
<1>5. \A u \in Thread : m_variables[u] \subseteq m_variables'[u]
                     /\ m_variables'[u] \subseteq m_variables[u] \cup {IndexMap}
  BY DEF emplace, TypeOK
<1>6. /\ Protection \subseteq Protection'
      /\ Protection' \subseteq Protection \cup {IndexMap}
  BY <1>5 DEF Protection, TypeOK
<1>7. DOMAIN index' = DOMAIN index \cup ({x} \cap Hooked)
  BY Zenon DEF emplace, insert
<1>8. x \in Hooked => IndexMap \in Protection'
  <2>1. CASE \E u \in Thread : IndexMap \in m_variables[u]
    BY <1>6, <2>1 DEF Control, PoolsRegistered, Protection
  <2>2. CASE \A u \in Thread : IndexMap \notin m_variables[u]
    BY <1>4, <2>2 DEF emplace, Protection, TypeOK
  <2> QED
    BY <2>1, <2>2
<1>9. HookedIndexed'
  BY <1>1, <1>3, <1>6, <1>7, <1>8, Zenon DEF HookedIndexed
<1>10. ASSUME NEW h \in DOMAIN index' PROVE Arg[h] \subseteq m_term_set
  <2>1. CASE h = x
    BY <1>2, <2>1
  <2>2. CASE h \in DOMAIN index
    <3>1. IndexMap \in Protection
      BY <1>1, <2>2 DEF HookedIndexed
    <3> QED
      BY <1>1, <2>2, <3>1 DEF Contents
  <2> QED
    BY <1>7, <2>1, <2>2, Zenon
<1>11. Contents(IndexMap)' \subseteq m_term_set'
  BY <1>3, <1>10 DEF Contents
<1> QED
  BY <1>1, <1>2, <1>3, <1>6, <1>9, <1>11

\* The steps outside collections: no thread has the exclusive lock.
FreeStepOf(t) ==
  \/ \E v \in Variable : construct(t, v) \/ destruct(t, v)
  \/ \E v, w \in Variable : register_pointer(t, v, w) \/ assign(t, v, w)
  \/ register_copy(t)
  \/ \E x \in Term : create_argument(t, x) \/ create_appl(t, x)
  \/ register_thread_aterm_pool(t) \/ absorb(t) \/ remove_thread_aterm_pool(t)

LEMMA FreeStepUnlocked ==
  ASSUME LockAtPoint, NEW t \in Thread, FreeStepOf(t)
  PROVE  writer = NoThread
<1>1. CASE pc[t] = "create"
  <2>1. readers[t] # 0
    BY <1>1 DEF LockAtPoint
  <2>2. writer # NoThread => \A u \in Thread : readers[u] = 0
    BY Zenon DEF LockAtPoint
  <2> QED
    BY <2>1, <2>2, Zenon
<1> QED
  BY <1>1, ZenonT(60)
  DEF FreeStepOf, construct, destruct, register_pointer, assign, register_copy,
      Shared, create_argument, create_appl, register_thread_aterm_pool, absorb,
      remove_thread_aterm_pool, RW!AcquireExclusive

LEMMA FreeSteps ==
  ASSUME TypeOK, Control, Variables, Heap, NEW t \in Thread, FreeStepOf(t)
  PROVE  Heap'
<1> USE DEF Goto, lockvars, storage
<1>a. /\ m_thread_pools \subseteq Thread /\ IndexMap \notin Variable
      /\ m_variables \in [Thread -> SUBSET Address]
      /\ m_term \in [Address -> SUBSET Term]
      /\ pc \in [Thread -> PC] /\ local \in [Thread -> Locals]
  BY ThreadAssumption DEF TypeOK
<1>1. writer = NoThread
  BY FreeStepUnlocked, Zenon DEF Control
<1>2. /\ \A u \in Thread : pc[u] \notin {"mark", "sweep"}
      /\ \A x \in m_term_set : Arg[x] \subseteq m_term_set
      /\ \A v \in Protection : Contents(v) \subseteq m_term_set
      /\ \A u \in Thread : local[u].args \subseteq m_term_set
      /\ HookedIndexed
  BY <1>1, BeforeFreeStep
<1> DEFINE Good == /\ UNCHANGED collector
                   /\ \A u \in Thread : pc'[u] \notin {"mark", "sweep"}
                   /\ \A x \in m_term_set' : Arg[x] \subseteq m_term_set'
                   /\ \A v \in Protection' : Contents(v)' \subseteq m_term_set'
                   /\ \A u \in Thread : local'[u].args \subseteq m_term_set'
                   /\ HookedIndexed'
<1> SUFFICES Good
  BY <1>1, FreeStep, Zenon DEF Control
<1>3. ASSUME NEW v \in Variable, construct(t, v) \/ destruct(t, v)
      PROVE  Good
  <2>1. /\ UNCHANGED <<m_thread_pools, storage, collector, pc, local>>
        /\ m_term' = [m_term EXCEPT ![v] = {}]
        /\ m_variables' = [m_variables EXCEPT ![t] = @ \cup {v}]
           \/ m_variables' = [m_variables EXCEPT ![t] = @ \ {v}]
    BY <1>3 DEF construct, destruct
  <2>2. /\ Protection' \subseteq Protection \cup {v}
        /\ Protection \subseteq Protection' \cup {v}
    <3>1. \A u \in m_thread_pools :
            /\ m_variables[u] \subseteq m_variables'[u] \cup {v}
            /\ m_variables'[u] \subseteq m_variables[u] \cup {v}
      BY <1>a, <2>1
    <3> QED
      BY <2>1, <3>1, ProtectionNear, Zenon
  <2>3. IndexMap \in Protection => IndexMap \in Protection'
    BY <1>a, <2>2
  <2>4. \A w : Contents(w)' \subseteq Contents(w) \/ w \notin Address
    BY <1>a, <2>1, Zenon DEF Contents, Address
  <2>5. Contents(v)' = {} /\ Protection \subseteq Address
    BY SMTT(60), <1>a, <2>1 DEF Contents, Address, Protection
  <2>6. HookedIndexed'
    BY <1>2, <2>1, <2>3 DEF HookedIndexed
  <2> QED
    BY <1>2, <2>1, <2>2, <2>4, <2>5, <2>6, ZenonT(60)
<1>4. ASSUME NEW v \in Variable, NEW w \in Variable,
             register_pointer(t, v, w) \/ assign(t, v, w)
      PROVE  Good
  <2>1. /\ UNCHANGED <<m_thread_pools, storage, collector>>
        /\ m_term' = [m_term EXCEPT ![v] = {}]
           \/ m_term' = [m_term EXCEPT ![v] = m_term[w]]
        /\ m_variables' = [m_variables EXCEPT ![t] = @ \cup {v}]
        /\ w \in Own(t)
    <3>1. CASE register_pointer(t, v, w)
      BY <3>1 DEF register_pointer, Own
    <3>2. CASE assign(t, v, w)
      <4>1. m_variables' = m_variables /\ v \in m_variables[t]
        BY <3>2 DEF assign, protection, Own
      <4>2. m_variables' = [m_variables EXCEPT ![t] = @ \cup {v}]
        BY <1>a, <4>1
      <4> QED
        BY <3>2, <4>2, ZenonT(60) DEF assign
    <3> QED
      BY <1>4, <3>1, <3>2
  <2>2. /\ \A u \in Thread : pc'[u] \notin {"mark", "sweep"}
        /\ \A u \in Thread : local'[u].args = local[u].args
    BY <1>a, <1>2, <1>4 DEF register_pointer, assign, Locals
  <2>3. Protection' \subseteq Protection \cup {v} /\ Protection \subseteq Protection'
    <3>1. \A u \in m_thread_pools : /\ m_variables[u] \subseteq m_variables'[u]
                                    /\ m_variables'[u] \subseteq m_variables[u] \cup {v}
      BY <1>a, <2>1
    <3> QED
      BY <2>1, <3>1, ProtectionGrows, Zenon
  <2>4. m_term[w] \subseteq m_term_set
    <3>1. w \in Protection /\ Contents(w) = m_term[w]
      BY <2>1, OwnProtected
    <3> QED
      BY <1>2, <3>1, Zenon
  <2>5. \A u \in Address \ {v} : Contents(u)' = Contents(u)
    BY <1>a, <2>1, Zenon DEF Contents, Address
  <2>6. Contents(v)' \subseteq m_term_set /\ Protection \subseteq Address
    BY <1>a, <2>1, <2>4 DEF Contents, Address, Protection
  <2>7. HookedIndexed'
    BY <1>2, <2>1, <2>3 DEF HookedIndexed
  <2>8. \A u \in Protection' : Contents(u)' \subseteq m_term_set
    BY <1>2, <2>3, <2>5, <2>6, Zenon
  <2> QED
    BY <1>2, <2>1, <2>2, <2>7, <2>8
<1>5. ASSUME register_copy(t) PROVE Good
  <2>1. /\ UNCHANGED <<m_thread_pools, m_term, storage, collector>>
        /\ m_variables' = [m_variables EXCEPT ![t] = @ \cup {local[t].to}]
        /\ local[t].to \in Variable /\ local[t].from \in Own(t)
        /\ m_term[local[t].to] = m_term[local[t].from]
    BY <1>5, Zenon DEF register_copy, Variables, VariablesInUse
  <2>2. /\ \A u \in Thread : pc'[u] \notin {"mark", "sweep"}
        /\ \A u \in Thread : local'[u].args \subseteq local[u].args
    BY <1>a, <1>2, <1>5, ZenonT(60) DEF register_copy, NoLocals
  <2>3. /\ Protection' \subseteq Protection \cup {local[t].to}
        /\ Protection \subseteq Protection'
    <3>1. \A u \in m_thread_pools :
            /\ m_variables[u] \subseteq m_variables'[u]
            /\ m_variables'[u] \subseteq m_variables[u] \cup {local[t].to}
      BY <1>a, <2>1
    <3> QED
      BY <2>1, <3>1, ProtectionGrows, Zenon
  <2>4. \A u : Contents(u)' = Contents(u)
    BY <2>1, Zenon DEF Contents
  <2>5. Contents(local[t].to) \subseteq m_term_set
    <3>1. /\ local[t].from \in Protection
          /\ Contents(local[t].from) = m_term[local[t].from]
      BY <2>1, OwnProtected, Zenon
    <3>2. Contents(local[t].to) = m_term[local[t].to]
      BY <1>a, <2>1, Zenon DEF Contents
    <3> QED
      BY <1>2, <2>1, <3>1, <3>2, Zenon
  <2>6. HookedIndexed'
    BY <1>2, <2>1, <2>3, Zenon DEF HookedIndexed
  <2> QED
    BY <1>2, <2>1, <2>2, <2>3, <2>4, <2>5, <2>6, ZenonT(60)
<1>6. ASSUME NEW x \in Term, create_argument(t, x) \/ create_appl(t, x)
      PROVE  Good
  <2>1. /\ pc[t] = "create" /\ Arg[x] \subseteq Usable(t) /\ emplace(t, x)
        /\ UNCHANGED <<m_thread_pools, collector>>
    BY <1>6 DEF create_argument, create_appl
  <2>2. /\ m_term_set' = m_term_set \cup {x}
        /\ \A y \in m_term_set' : Arg[y] \subseteq m_term_set'
        /\ Protection \subseteq Protection'
        /\ Protection' \subseteq Protection \cup {IndexMap}
        /\ IndexMap \in Protection' => Contents(IndexMap)' \subseteq m_term_set'
        /\ HookedIndexed'
    BY <1>1, <2>1, EmplaceStep, ZenonT(60)
  <2>3. \A u \in Thread : local'[u].args \subseteq m_term_set'
    BY <1>a, <1>2, <1>6, <2>2
    DEF create_argument, create_appl, Locals, NoLocals
  <2>4. \A u \in Thread : pc'[u] \notin {"mark", "sweep"}
    BY <1>a, <1>2, <1>6 DEF create_argument, create_appl
  <2>5. ASSUME NEW v \in Protection \ {IndexMap}
        PROVE  Contents(v)' \subseteq m_term_set'
    <3>1. v \in Address /\ m_term[v] \subseteq m_term_set
      BY <1>a, <1>2 DEF Contents, Protection
    <3>2. m_term'[v] = m_term[v] \/ m_term'[v] = {x}
      BY <1>a, <1>6, <3>1 DEF create_argument, create_appl
    <3> QED
      BY <2>2, <3>1, <3>2, Zenon DEF Contents
  <2> QED
    BY <2>1, <2>2, <2>3, <2>4, <2>5, ZenonT(60)
<1>7. ASSUME register_thread_aterm_pool(t) \/ absorb(t) \/ remove_thread_aterm_pool(t)
      PROVE  Good
  <2>1. UNCHANGED <<m_term, storage, collector>>
    BY <1>7 DEF register_thread_aterm_pool, absorb, remove_thread_aterm_pool
  <2>2. /\ \A u \in Thread : pc'[u] \notin {"mark", "sweep"}
        /\ \A u \in Thread : local'[u].args = local[u].args
    <3>1. pc' = [pc EXCEPT ![t] = "unlock"]
      BY <1>7
      DEF register_thread_aterm_pool, absorb, remove_thread_aterm_pool
    <3>2. local' = local \/ \E p : local' = [local EXCEPT ![t].next = p]
      BY <1>7
      DEF register_thread_aterm_pool, absorb, remove_thread_aterm_pool
    <3>3. ASSUME NEW u \in Thread PROVE local'[u].args = local[u].args
      <4>1. ASSUME NEW p, local' = [local EXCEPT ![t].next = p]
            PROVE  local'[u].args = local[u].args
        BY <1>a, <4>1, NextArgs
      <4> QED
        BY <3>2, <4>1
    <3> QED
      BY <1>a, <1>2, <3>1, <3>3, Zenon
  <2>3. Protection' = Protection
    <3>1. CASE register_thread_aterm_pool(t)
      BY <1>a, <3>1
      DEF register_thread_aterm_pool, Protection, Control, PoolsRegistered
    <3>2. CASE absorb(t)
      BY <1>a, <3>2 DEF absorb, Protection, Control, PoolsRegistered
    <3>3. CASE remove_thread_aterm_pool(t)
      <4>1. t # Main /\ m_variables[t] \subseteq m_variables[Main]
        BY SMTT(60), <3>3 DEF remove_thread_aterm_pool, Control, PoolsRegistered,
           VariablesAbsorbed, Leaving
      <4> QED
        BY <1>a, <3>3, <4>1
           DEF remove_thread_aterm_pool, Protection, Control, PoolsRegistered
    <3> QED
      BY SMTT(60), <1>7, <3>1, <3>2, <3>3
  <2>4. \A v : Contents(v)' = Contents(v)
    BY <2>1 DEF Contents
  <2>5. HookedIndexed'
    BY <1>2, <2>1, <2>3, ZenonT(60) DEF HookedIndexed
  <2> QED
    BY <1>2, <2>1, <2>2, <2>3, <2>4, <2>5, ZenonT(60)
<1> QED
  BY <1>3, <1>4, <1>5, <1>6, <1>7, ZenonT(60) DEF FreeStepOf

\* The two steps on variables that a collection does not exclude: they write to
\* an address that is not protected or that holds no term.
UnlockedStepOf(t) ==
  \/ \E v, w \in Variable : copy_construct(t, v, w)
  \/ write_pointer(t)

LEMMA UnlockedWrites ==
  ASSUME TypeOK, Control, Variables, NEW t \in Thread, UnlockedStepOf(t)
  PROVE  \E v \in Address :
           /\ UNCHANGED <<m_thread_pools, m_variables, storage, collector>>
           /\ \/ v \in Variable /\ v \notin Protection
                 /\ \E w \in Variable : m_term' = [m_term EXCEPT ![v] = m_term[w]]
              \/ /\ v \in Protection /\ v # IndexMap /\ m_term[v] = {}
                 /\ \E w \in Own(t) : m_term' = [m_term EXCEPT ![v] = m_term[w]]
<1> USE DEF TypeOK, Goto, storage
<1>1. CASE write_pointer(t)
  <2>1. /\ local[t].to \in Own(t) /\ local[t].from \in Own(t)
        /\ m_term[local[t].to] = {}
    BY <1>1, Zenon DEF write_pointer, Variables, VariablesInUse
  <2>2. local[t].to \in Protection /\ local[t].to # IndexMap
    BY <2>1, OwnProtected, Zenon
  <2> QED
    BY <1>1, <2>1, <2>2, Zenon DEF write_pointer, Locals
<1>2. CASE \E v, w \in Variable : copy_construct(t, v, w)
  <2>1. PICK v, w \in Variable : copy_construct(t, v, w)
    BY <1>2
  <2>2. v \in Address /\ v \notin Protection
    <3>1. \A u \in Thread : v \notin m_variables[u]
      BY <2>1, Zenon DEF copy_construct, Fresh
    <3> QED
      BY <3>1 DEF Protection, Address
  <2> QED
    BY <2>1, <2>2, Zenon DEF copy_construct
<1> QED
  BY <1>1, <1>2, Zenon DEF UnlockedStepOf

LEMMA UnlockedSteps ==
  ASSUME TypeOK, Control, Variables, Heap, NEW t \in Thread, UnlockedStepOf(t)
  PROVE  Heap'
<1> USE ThreadAssumption DEF TypeOK, Goto, lockvars, storage
<1>1. PICK v \in Address :
        /\ UNCHANGED <<m_thread_pools, m_variables, storage, collector>>
        /\ \/ v \in Variable /\ v \notin Protection
              /\ \E w \in Variable : m_term' = [m_term EXCEPT ![v] = m_term[w]]
           \/ /\ v \in Protection /\ v # IndexMap /\ m_term[v] = {}
              /\ \E w \in Own(t) : m_term' = [m_term EXCEPT ![v] = m_term[w]]
  BY UnlockedWrites, Zenon
<1>2. /\ \A u \in Thread : /\ pc'[u] = "mark" <=> pc[u] = "mark"
                           /\ pc'[u] = "sweep" <=> pc[u] = "sweep"
                           /\ local'[u].args \subseteq local[u].args
  <2>1. CASE write_pointer(t)
    BY <2>1, Zenon DEF write_pointer, NoLocals
  <2>2. CASE \E v1, w1 \in Variable : copy_construct(t, v1, w1)
    <3>1. PICK v1, w1 \in Variable : copy_construct(t, v1, w1)
      BY <2>2
    <3>2. \A u \in Thread : local'[u].args = local[u].args
      <4>1. \A u \in Thread :
              [local EXCEPT ![t].to = v1, ![t].from = w1][u].args = local[u].args
        BY ToFromArgs DEF Address
      <4> QED
        BY <3>1, <4>1, Zenon DEF copy_construct
    <3> QED
      BY <3>1, <3>2, Zenon DEF copy_construct
  <2> QED
    BY <2>1, <2>2, Zenon DEF UnlockedStepOf
<1>3. Sweeping' = Sweeping /\ Protection' = Protection
  BY <1>1, <1>2 DEF Sweeping, Protection
<1>4. Kept' = Kept
  BY <1>1, <1>3 DEF Kept, collector
<1>5. Protection \subseteq Address
  BY DEF Protection
<1>6. \A u \in Address \ {v} : Contents(u)' = Contents(u)
  BY <1>1, Zenon DEF Contents
<1>7. v \in Protection =>
        /\ Contents(v) = {}
        /\ \E w \in Protection : Contents(v)' = Contents(w)
  BY <1>1, OwnProtected, ZenonT(60) DEF Contents, Address
<1>8. CollectorIdle' /\ SweepsTermsOnly' /\ KeptClosed' /\ HookedIndexed'
  BY <1>1, <1>2, <1>3, <1>4, Zenon
     DEF Heap, CollectorIdle, SweepsTermsOnly, KeptClosed, HookedIndexed, collector
<1>9. AccessibleKept'
  <2> HIDE DEF TypeOK, Goto, lockvars, storage
  <2>1. /\ \A w \in Protection : Contents(w) \subseteq Kept
        /\ \A u \in Thread : local[u].args \subseteq Kept
    BY ZenonT(60) DEF Heap, AccessibleKept
  <2>2. ASSUME NEW w \in Protection PROVE Contents(w)' \subseteq Kept
    <3>1. CASE w = v
      <4>1. PICK p \in Protection : Contents(v)' = Contents(p)
        BY <1>7, <3>1, Zenon
      <4>2. Contents(w)' = Contents(v)'
        BY <3>1
      <4>3. Contents(p) \subseteq Kept
        BY <2>1, Zenon
      <4> QED
        BY <4>1, <4>2, <4>3, Zenon
    <3>2. CASE w # v
      <4>1. w \in Address \ {v}
        BY <1>5, <3>2, Zenon
      <4>2. Contents(w)' = Contents(w)
        BY <1>6, <4>1, Zenon
      <4> QED
        BY <2>1, <4>2, Zenon
    <3> QED
      BY <3>1, <3>2, Zenon
  <2>3. \A u \in Thread : local'[u].args \subseteq Kept
    BY <1>2, <2>1, ZenonT(60)
  <2> QED
    BY <1>3, <1>4, <2>2, <2>3, Zenon DEF AccessibleKept
<1>10. ASSUME roots \subseteq Protection
       PROVE  UNION {Contents(w) : w \in roots}
                \subseteq UNION {Contents(w)' : w \in roots}
  <2>1. ASSUME NEW w \in roots PROVE Contents(w) \subseteq Contents(w)'
    BY <1>5, <1>6, <1>7, <1>10
  <2> QED
    BY <2>1
<1>11. Marking'
  <2> SUFFICES ASSUME \E u \in Thread : pc[u] = "mark"
               PROVE  Marking'
    BY <1>2, Zenon DEF Marking
  <2>1. /\ roots \subseteq Protection
        /\ \A u \in Protection :
             Contents(u) \subseteq marked \cup UNION {Contents(w) : w \in roots}
    BY Zenon DEF Heap, Marking
  <2>2. \A u \in Protection :
          Contents(u)' \subseteq marked \cup UNION {Contents(w)' : w \in roots}
    BY <1>5, <1>6, <1>7, <1>10, <2>1, ZenonT(60)
  <2> QED
    BY <1>1, <1>3, <2>1, <2>2, Zenon DEF Heap, Marking, collector
<1> QED
  BY SMTT(60), <1>8, <1>9, <1>11 DEF Heap

\* The steps that change neither the protection sets nor the terms.
QuietStepOf(t) ==
  \/ \E v \in Variable : create(t, v)
  \/ lock_shared(t) \/ unlock_shared(t) \/ collect(t) \/ start_thread(t)
  \/ end_thread(t) \/ created_term(t) \/ collect_impl(t) \/ try_lock_fails(t)
  \/ wait(t) \/ unlock(t) \/ resize_is_needed(t) \/ resize_if_needed(t)

LEMMA QuietUnchanged ==
  ASSUME NEW t, QuietStepOf(t)
  PROVE  UNCHANGED <<protection, storage, collector>>
BY Zenon DEF QuietStepOf, create, lock_shared, unlock_shared, collect,
   start_thread, end_thread, created_term, collect_impl, try_lock_fails, wait,
   unlock, resize_is_needed, resize_if_needed

LEMMA KindsOfSteps ==
  ASSUME Next
  PROVE  \E t \in Thread : \/ QuietStepOf(t) \/ CollectorStepOf(t)
                           \/ FreeStepOf(t) \/ UnlockedStepOf(t)
BY ZenonT(60) DEF Next, Start, Step, QuietStepOf, CollectorStepOf, FreeStepOf,
   UnlockedStepOf

LEMMA NextHeap ==
  TypeOK /\ Control /\ Variables /\ Heap /\ [Next]_vars => Heap'
<1> SUFFICES ASSUME TypeOK, Control, Variables, Heap, [Next]_vars PROVE Heap'
  OBVIOUS
<1>1. ASSUME NEW t \in Thread, QuietStepOf(t) PROVE Heap'
  <2> USE DEF TypeOK, Goto, QuietStepOf
  <2>1. UNCHANGED <<protection, storage, collector>>
    BY <1>1, QuietUnchanged, Zenon
  <2>2. local[t].next \notin {"mark", "sweep"}
    BY DEF Control, ReturnPoints
  <2>3. \A u \in Thread : /\ pc'[u] = "mark" <=> pc[u] = "mark"
                          /\ pc'[u] = "sweep" <=> pc[u] = "sweep"
    BY SMTT(60), <1>1, <2>2 DEF create, lock_shared, unlock_shared, collect, start_thread,
       end_thread, created_term, collect_impl, try_lock_fails, wait, unlock,
       resize_is_needed, resize_if_needed, Return
  <2>4. \/ local' = local \/ local' = [local EXCEPT ![t] = NoLocals]
        \/ \E v \in Variable : local' = [local EXCEPT ![t].to = v]
        \/ \E p \in PC : local' = [local EXCEPT ![t].next = p]
    BY <1>1 DEF create, lock_shared, unlock_shared, collect, start_thread,
       end_thread, created_term, collect_impl, try_lock_fails, wait, unlock,
       resize_is_needed, resize_if_needed, Return, PC
  <2>5. ASSUME NEW u \in Thread PROVE local'[u].args \subseteq local[u].args
    <3>1. local \in [Thread -> Locals]
      BY SMTT(60)
    <3>2. CASE local' = [local EXCEPT ![t] = NoLocals]
      BY <3>1, <3>2 DEF NoLocals
    <3>3. ASSUME NEW v \in Variable, local' = [local EXCEPT ![t].to = v]
          PROVE  local'[u].args \subseteq local[u].args
      BY <3>1, <3>3, ToArgs
    <3>4. ASSUME NEW p \in PC, local' = [local EXCEPT ![t].next = p]
          PROVE  local'[u].args \subseteq local[u].args
      BY <3>1, <3>4, NextArgs
    <3> QED
      BY <2>4, <3>2, <3>3, <3>4
  <2> QED
    BY <2>1, <2>3, <2>5, QuietStep, ZenonT(60)
<1>2. ASSUME UNCHANGED vars PROVE Heap'
  BY <1>2, QuietStep DEF vars
<1> QED
  BY <1>1, <1>2, KindsOfSteps, CollectorSteps, FreeSteps, UnlockedSteps, ZenonT(60)

-----------------------------------------------------------------------------
(***************************************************************************)
(* The invariant is inductive: it holds initially and every step of every  *)
(* thread preserves it.                                                    *)
(***************************************************************************)
LEMMA InitIInv == Init => IInv
<1> SUFFICES ASSUME Init PROVE IInv
  OBVIOUS
<1> USE ThreadAssumption, TermAssumption DEF Init, RW!Init
<1>1. TypeOK
  BY Zenon DEF TypeOK, Locals, NoLocals, PC, Address
<1>2. Control
  BY DEF Control, LockAtPoint, ReturnPoints, PoolsRegistered, VariablesAbsorbed,
     Leaving, NoLocals
<1>3. Variables
  BY Zenon DEF Variables, VariablesApart, VariablesInUse
<1>4. Protection = {} /\ ~Sweeping /\ Kept = {}
  BY DEF Protection, Sweeping, Kept
<1>5. Heap
  BY <1>4, Zenon DEF Heap, CollectorIdle, Marking, SweepsTermsOnly, KeptClosed,
     AccessibleKept, HookedIndexed, NoLocals
<1> QED
  BY <1>1, <1>2, <1>3, <1>5 DEF IInv, Control, Variables, Heap

LEMMA NextIInv == IInv /\ [Next]_vars => IInv'
BY NextTypeOK, NextControl, NextVariables, NextHeap
   DEF IInv, Control, Variables, Heap

THEOREM Invariance == Spec => []IInv
BY InitIInv, NextIInv, PTL DEF Spec

(***************************************************************************)
(* The variables of the pool and of its threads have their types.          *)
(***************************************************************************)
THEOREM TypeCorrect == Spec => []TypeOK
<1>1. IInv => TypeOK
  BY DEF IInv
<1> QED
  BY <1>1, Invariance, PTL

(***************************************************************************)
(* A collection destroys no term that a variable, a container, a copy that *)
(* is not yet registered or an argument array of create_appl refers to.    *)
(***************************************************************************)
THEOREM CollectionIsSafe == Spec => []AccessibleTermsExist
<1>1. IInv => AccessibleTermsExist
  <2> SUFFICES ASSUME IInv PROVE AccessibleTermsExist
    OBVIOUS
  <2> USE DEF IInv
  <2>1. Kept \subseteq m_term_set
    BY DEF Kept, SweepsTermsOnly
  <2>2. \A v \in Protection : Contents(v) \subseteq m_term_set
    BY <2>1, Zenon DEF AccessibleKept
  <2>3. ASSUME NEW t \in Thread, pc[t] = "copy"
        PROVE  m_term[local[t].to] \subseteq m_term_set
    <3>1. local[t].from \in Own(t) /\ m_term[local[t].to] = m_term[local[t].from]
      BY <2>3 DEF VariablesInUse
    <3> QED
      BY <2>2, <3>1, OwnProtected DEF Control
  <2> QED
    BY <2>1, <2>2, <2>3 DEF AccessibleTermsExist, AccessibleKept
<1> QED
  BY <1>1, Invariance, PTL

(***************************************************************************)
(* Except in the middle of a sweep, every term that exists has all its     *)
(* arguments, as the debugging function verify_sweep checks.               *)
(***************************************************************************)
THEOREM TermsAreComplete == Spec => []ArgumentsExist
<1>1. IInv => ArgumentsExist
  BY DEF IInv, ArgumentsExist, KeptClosed, Kept
<1> QED
  BY <1>1, Invariance, PTL

(***************************************************************************)
(* When a deletion hook is called, the arguments of its term exist and     *)
(* the term has an index, in whatever order the storages are swept.        *)
(***************************************************************************)
THEOREM HooksAreSafe == Spec => []HookFindsItsTerm
<1>1. IInv => HookFindsItsTerm
  <2> SUFFICES ASSUME IInv, Sweeping, NEW x \in (unswept \cap Hooked) \ marked
               PROVE  Arg[x] \subseteq m_term_set /\ x \in DOMAIN index
    BY DEF HookFindsItsTerm
  <2> USE DEF IInv
  <2>1. Kept \subseteq m_term_set /\ x \in m_term_set
    BY DEF Kept, SweepsTermsOnly
  <2>2. x \in DOMAIN index /\ IndexMap \in Protection
    BY <2>1 DEF HookedIndexed
  <2>3. Contents(IndexMap) \subseteq m_term_set
    BY <2>1, <2>2 DEF AccessibleKept
  <2>4. Arg[x] \subseteq Contents(IndexMap)
    BY <2>2 DEF Contents
  <2> QED
    BY <2>2, <2>3, <2>4
<1> QED
  BY <1>1, Invariance, PTL

(***************************************************************************)
(* A variable leaves the registered protection sets only when it is        *)
(* destroyed: a thread that ends hands its variables to the main thread    *)
(* before its pool is removed.                                             *)
(***************************************************************************)
THEOREM VariablesStayProtected == Spec => NoVariableOrphaned
<1> DEFINE Stays == \A v \in Protection :
                      v \in Protection' \/ \E t \in Thread : destruct(t, v)
<1>1. IInv /\ [Next]_vars => [Stays]_vars
  <2> SUFFICES ASSUME IInv, Next, NEW v \in Protection, v \notin Protection'
               PROVE  \E t \in Thread : destruct(t, v)
    OBVIOUS
  <2>1. PICK t \in Thread : Start(t) \/ Step(t)
    BY DEF Next
  <2>2. PICK u \in m_thread_pools : v \in m_variables[u]
    BY Zenon DEF Protection
  <2>3. u \notin m_thread_pools' \/ v \notin m_variables'[u]
    BY DEF Protection
  <2> USE DEF IInv, TypeOK, protection
  <2>4. CASE remove_thread_aterm_pool(t)
    <3>1. t # Main /\ Main \in m_thread_pools
      BY <2>4 DEF remove_thread_aterm_pool, Goto, PoolsRegistered
    <3>2. u = t
      BY <2>2, <2>3, <2>4 DEF remove_thread_aterm_pool
    <3>3. v \in m_variables[Main]
      BY <2>2, <2>4, <3>2
         DEF remove_thread_aterm_pool, Goto, VariablesAbsorbed, Leaving
    <3> QED
      BY <2>4, <3>1, <3>3, ThreadAssumption
         DEF remove_thread_aterm_pool, Protection
  <2>5. ASSUME NEW w \in Variable, destruct(t, w) PROVE w = v
    BY <2>2, <2>3, <2>5 DEF destruct
  <2>6. ASSUME \/ \E w \in Variable : construct(t, w)
               \/ \E w, x \in Variable : register_pointer(t, w, x)
               \/ \E x \in Term : create_argument(t, x) \/ create_appl(t, x)
               \/ register_copy(t) \/ register_thread_aterm_pool(t) \/ absorb(t)
        PROVE  FALSE
    <3>1. m_thread_pools \subseteq m_thread_pools'
      BY <2>6, Zenon
      DEF construct, register_pointer, create_argument, create_appl,
         register_copy, register_thread_aterm_pool, absorb
    <3>2. m_variables[u] \subseteq m_variables'[u]
      <4>1. \/ \E S : m_variables' = [m_variables EXCEPT ![t] = @ \cup S]
            \/ \E S : m_variables' = [m_variables EXCEPT ![Main] = @ \cup S]
            \/ m_variables' = m_variables
        BY <2>6, Zenon
        DEF construct, register_pointer, create_argument, create_appl,
           emplace, register_copy, register_thread_aterm_pool, absorb
      <4> QED
        BY <2>2, <4>1
    <3> QED
      BY <2>2, <2>3, <3>1, <3>2, Zenon
  <2>7. ASSUME UNCHANGED <<m_thread_pools, m_variables>> PROVE FALSE
    BY <2>2, <2>3, <2>7
  <2>8. ASSUME \/ \E w \in Variable : create(t, w)
               \/ \E w, x \in Variable : copy_construct(t, w, x) \/ assign(t, w, x)
               \/ lock_shared(t) \/ unlock_shared(t) \/ collect(t)
               \/ start_thread(t) \/ end_thread(t) \/ write_pointer(t)
               \/ created_term(t) \/ collect_impl(t) \/ try_lock_fails(t)
               \/ wait(t) \/ start_collect(t) \/ mark(t) \/ mark_term(t)
               \/ start_sweep(t) \/ sweep(t) \/ end_collect(t) \/ unlock(t)
               \/ resize_is_needed(t) \/ resize_if_needed(t)
        PROVE  UNCHANGED <<m_thread_pools, m_variables>>
    BY <2>8, Zenon
    DEF create, copy_construct, assign, lock_shared, unlock_shared,
       collect, start_thread, end_thread, write_pointer, created_term,
       collect_impl, try_lock_fails, wait, start_collect, mark, mark_term,
       start_sweep, sweep, end_collect, unlock, resize_is_needed,
       resize_if_needed
  <2> QED
    BY <2>1, <2>4, <2>5, <2>6, <2>7, <2>8, Zenon DEF Start, Step
<1> QED
  BY <1>1, Invariance, PTL DEF Spec, NoVariableOrphaned

(***************************************************************************)
(* While a thread marks or sweeps, every protected variable stays          *)
(* protected and keeps its terms, although threads go on constructing      *)
(* variables without any lock.                                             *)
(***************************************************************************)
THEOREM CollectionSeesStableRoots == Spec => ProtectionStable
<1> DEFINE Stable ==
      (\E t \in Thread : pc[t] \in {"mark", "sweep"}) =>
        /\ Protection \subseteq Protection'
        /\ \A v \in Protection \ {IndexMap} : m_term[v] \subseteq m_term'[v]
<1>1. IInv /\ [Next]_vars => [Stable]_vars
  <2> SUFFICES ASSUME IInv, Next, NEW c \in Thread, pc[c] \in {"mark", "sweep"}
               PROVE  /\ Protection \subseteq Protection'
                      /\ \A v \in Protection \ {IndexMap} : m_term[v] \subseteq m_term'[v]
    BY Zenon
  <2>a. TypeOK /\ Control /\ Variables /\ LockAtPoint
    BY Zenon DEF IInv, Control, Variables
  <2>b. writer = c /\ writer # NoThread
    BY <2>a, ThreadAssumption DEF LockAtPoint
  <2>1. PICK t \in Thread : \/ QuietStepOf(t) \/ CollectorStepOf(t)
                            \/ FreeStepOf(t) \/ UnlockedStepOf(t)
    BY KindsOfSteps
  <2>2. ASSUME UNCHANGED protection
        PROVE  Protection' = Protection /\ m_term' = m_term
    BY <2>2, Zenon DEF Protection, protection
  <2>3. CASE QuietStepOf(t)
    BY <2>2, <2>3, QuietUnchanged, Zenon
  <2>4. CASE CollectorStepOf(t)
    <3>1. UNCHANGED protection
      BY <2>4, Zenon DEF CollectorStepOf, start_collect, mark, mark_term,
         start_sweep, sweep, end_collect, protection
    <3> QED
      BY <2>2, <3>1, Zenon
  <2>5. CASE FreeStepOf(t)
    BY <2>a, <2>b, <2>5, FreeStepUnlocked, Zenon
  <2>6. CASE UnlockedStepOf(t)
    <3>1. PICK w \in Address :
            /\ UNCHANGED <<m_thread_pools, m_variables>>
            /\ w \notin Protection \/ m_term[w] = {}
            /\ \E T : m_term' = [m_term EXCEPT ![w] = T]
      BY <2>a, <2>6, UnlockedWrites, Zenon
    <3>2. Protection' = Protection /\ Protection \subseteq Address
      BY <2>a, <3>1 DEF Protection, TypeOK
    <3>3. m_term \in [Address -> SUBSET Term]
      BY <2>a DEF TypeOK
    <3>4. ASSUME NEW v \in Protection PROVE m_term[v] \subseteq m_term'[v]
      <4>1. CASE v = w
        BY <3>1, <4>1, Zenon
      <4>2. CASE v # w
        BY <3>1, <3>2, <3>3, <4>2
      <4> QED
        BY <4>1, <4>2
    <3> QED
      BY <3>2, <3>4, Zenon
  <2> QED
    BY <2>1, <2>3, <2>4, <2>5, <2>6, Zenon
<1> QED
  BY <1>1, Invariance, PTL DEF Spec, ProtectionStable
=============================================================================
