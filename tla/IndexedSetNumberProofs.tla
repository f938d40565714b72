------------------------ MODULE IndexedSetNumberProofs ------------------------
(***************************************************************************)
(* Proofs about the calls of IndexedSet: each is where its thread is, and  *)
(* takes effect on the numbering of KeyNumbering in one step.              *)
(***************************************************************************)
EXTENDS IndexedSetTableProofs

(***************************************************************************)
(* The shared lock is held exactly where the code holds it.                *)
(***************************************************************************)
LEMMA NextShared ==
  ASSUME Types, ExclusiveAtPoint, SharedAtPoint, [Next]_vars,
         \A u \in Thread : pc'[u] # "failed"
  PROVE  SharedAtPoint'
<1> USE DEF Goto, tables, lockvars, InShared, Holding, Drawn, Walking
<1>1. ASSUME NEW t \in Thread, NEW k \in Key, insert(t, k)
      PROVE  SharedAtPoint'
  BY SMTT(60), <1>1, ThreadAssumption DEF insert, RW!AcquireShared, Types, ExclusiveAtPoint, SharedAtPoint
<1>2. ASSUME NEW t \in Thread, NEW k \in Key, index(t, k)
      PROVE  SharedAtPoint'
  BY SMTT(60), <1>2, ThreadAssumption DEF index, RW!AcquireShared, Types, ExclusiveAtPoint, SharedAtPoint
<1>3. ASSUME NEW t \in Thread, enough_reserved(t)
      PROVE  SharedAtPoint'
  BY SMTT(60), <1>3, ThreadAssumption DEF enough_reserved, Types, ExclusiveAtPoint, SharedAtPoint
<1>4. ASSUME NEW t \in Thread, give_up_guard(t)
      PROVE  SharedAtPoint'
  BY SMTT(60), <1>4, ThreadAssumption DEF give_up_guard, RW!ReleaseShared, Types, ExclusiveAtPoint, SharedAtPoint
<1>5. ASSUME NEW t \in Thread, reserve_indices(t)
      PROVE  SharedAtPoint'
  BY SMTT(60), <1>5, ThreadAssumption DEF reserve_indices, RW!AcquireExclusive, Types, ExclusiveAtPoint, SharedAtPoint
<1>6. ASSUME NEW t \in Thread, grow(t)
      PROVE  SharedAtPoint'
  BY SMTT(60), <1>6, ThreadAssumption DEF grow, Types, ExclusiveAtPoint, SharedAtPoint
<1>7. ASSUME NEW t \in Thread, end_reserve(t)
      PROVE  SharedAtPoint'
  BY SMTT(60), <1>7, ThreadAssumption DEF end_reserve, RW!ReleaseExclusive, Types, ExclusiveAtPoint, SharedAtPoint
<1>8. ASSUME NEW t \in Thread, relock(t)
      PROVE  SharedAtPoint'
  BY SMTT(60), <1>8, ThreadAssumption DEF relock, RW!AcquireShared, Types, ExclusiveAtPoint, SharedAtPoint
<1>9. ASSUME NEW t \in Thread, put_in_hashtable(t)
      PROVE  SharedAtPoint'
  BY SMTT(60), <1>9, ThreadAssumption DEF put_in_hashtable, Examine, Finish, Types, ExclusiveAtPoint, SharedAtPoint
<1>10. ASSUME NEW t \in Thread, compare_exchange(t)
      PROVE  SharedAtPoint'
  BY SMTT(60), <1>10, ThreadAssumption DEF compare_exchange, Examine, Finish, Types, ExclusiveAtPoint, SharedAtPoint
<1>11. ASSUME NEW t \in Thread, fetch_add(t)
      PROVE  SharedAtPoint'
  <2>1. pc'[t] = "store"
    BY SMTT(60), <1>11 DEF fetch_add, Types
  <2> QED
    BY SMTT(60), <1>11, <2>1, ThreadAssumption DEF fetch_add, Types, ExclusiveAtPoint, SharedAtPoint
<1>12. ASSUME NEW t \in Thread, store_key(t)
      PROVE  SharedAtPoint'
  BY SMTT(60), <1>12, ThreadAssumption DEF store_key, Types, ExclusiveAtPoint, SharedAtPoint
<1>13. ASSUME NEW t \in Thread, publish(t)
      PROVE  SharedAtPoint'
  BY SMTT(60), <1>13, ThreadAssumption DEF publish, Types, ExclusiveAtPoint, SharedAtPoint
<1>14. ASSUME NEW t \in Thread, lookup(t)
      PROVE  SharedAtPoint'
  BY SMTT(60), <1>14, ThreadAssumption DEF lookup, Finish, Types, ExclusiveAtPoint, SharedAtPoint
<1>15. ASSUME NEW t \in Thread, return(t)
      PROVE  SharedAtPoint'
  BY SMTT(60), <1>15, ThreadAssumption DEF return, RW!ReleaseShared, Types, ExclusiveAtPoint, SharedAtPoint
<1>16. ASSUME NEW t \in Thread, size(t)
      PROVE  SharedAtPoint'
  BY SMTT(60), <1>16, ThreadAssumption DEF size, RW!AcquireShared, Types, ExclusiveAtPoint, SharedAtPoint
<1>17. ASSUME NEW t \in Thread, read_size(t)
      PROVE  SharedAtPoint'
  BY SMTT(60), <1>17, ThreadAssumption DEF read_size, Finish, Types, ExclusiveAtPoint, SharedAtPoint
<1>18. ASSUME NEW t \in Thread, operator_at(t)
      PROVE  SharedAtPoint'
  BY SMTT(60), <1>18, ThreadAssumption DEF operator_at, Types, ExclusiveAtPoint, SharedAtPoint
<1>19. ASSUME NEW t \in Thread, end_operator_at(t)
      PROVE  SharedAtPoint'
  BY SMTT(60), <1>19, ThreadAssumption DEF end_operator_at, Types, ExclusiveAtPoint, SharedAtPoint
<1>20. ASSUME NEW t \in Thread, clear(t)
      PROVE  SharedAtPoint'
  BY SMTT(60), <1>20, ThreadAssumption DEF clear, RW!AcquireExclusive, Types, ExclusiveAtPoint, SharedAtPoint
<1>21. ASSUME NEW t \in Thread, erase(t)
      PROVE  SharedAtPoint'
  BY SMTT(60), <1>21, ThreadAssumption DEF erase, Types, ExclusiveAtPoint, SharedAtPoint
<1>22. ASSUME NEW t \in Thread, end_clear(t)
      PROVE  SharedAtPoint'
  BY SMTT(60), <1>22, ThreadAssumption DEF end_clear, RW!ReleaseExclusive, Types, ExclusiveAtPoint, SharedAtPoint
<1>23. ASSUME UNCHANGED vars
      PROVE  SharedAtPoint'
  BY ZenonT(60), <1>23 DEF vars, SharedAtPoint
<1> QED
  BY ONLY SMTT(60), [Next]_vars, <1>1, <1>2, <1>3, <1>4, <1>5, <1>6, <1>7, <1>8, <1>9, <1>10, <1>11, <1>12, <1>13, <1>14, <1>15, <1>16, <1>17, <1>18, <1>19, <1>20, <1>21, <1>22, <1>23 DEF Next, Insert

(***************************************************************************)
(* The call of every thread is where the code has it.                      *)
(***************************************************************************)
LEMMA CallFrame ==
  ASSUME Types, Types', CallAtPoint, NEW t \in Thread, CallOf(t)', next_index <= next_index',
         \A u \in Thread \ {t} : pc'[u] = pc[u] /\ call'[u] = call[u]
  PROVE  CallAtPoint'
<1>1. ASSUME NEW u \in Thread, u # t PROVE CallOf(u)'
  <2>1. \A i \in 0 .. next_index - 1 : i \in 0 .. next_index' - 1
    BY DEF Types
  <2>2. pc'[u] = pc[u] /\ call'[u] = call[u] /\ CallOf(u)
    BY <1>1 DEF CallAtPoint
  <2> QED
    BY ZenonT(60), <2>1, <2>2 DEF CallOf
<1> QED
  BY <1>1 DEF CallAtPoint

LEMMA CallReturns ==
  ASSUME NEW t \in Thread, pc'[t] = "return", call'[t].op # "none", call'[t].done
  PROVE  CallOf(t)'
BY Zenon DEF CallOf, Inserting, Drawn

LEMMA NextCalls ==
  ASSUME Types, Types', ClearsAlone, CallAtPoint, [Next]_vars,
         \A u \in Thread : pc'[u] # "failed"
  PROVE  CallAtPoint'
<1> USE DEF Goto, tables, lockvars
<1> DEFINE Others(t) == \A u \in Thread \ {t} : pc'[u] = pc[u] /\ call'[u] = call[u]
<1>1. ASSUME NEW t \in Thread, NEW k \in Key, insert(t, k)
      PROVE  CallAtPoint'
  <2>1. Others(t) /\ next_index <= next_index'
    BY SMTT(60), <1>1 DEF insert, Types
  <2>2. CallOf(t)'
    BY ZenonT(60), <1>1 DEF insert, Types, CallAtPoint, CallOf, Inserting, Drawn, Pending, Done
  <2> QED
    BY SMTT(60), <2>1, <2>2, CallFrame
<1>2. ASSUME NEW t \in Thread, NEW k \in Key, index(t, k)
      PROVE  CallAtPoint'
  <2>1. Others(t) /\ next_index <= next_index'
    BY <1>2 DEF index, Types
  <2>2. CallOf(t)'
    BY ZenonT(60), <1>2 DEF index, Types, CallAtPoint, CallOf, Inserting, Drawn, Pending, Done
  <2> QED
    BY <2>1, <2>2, CallFrame
<1>3. ASSUME NEW t \in Thread, enough_reserved(t)
      PROVE  CallAtPoint'
  <2>1. Others(t) /\ next_index <= next_index'
    BY <1>3 DEF enough_reserved, Types
  <2>2. CallOf(t)'
    BY Zenon, <1>3 DEF enough_reserved, Types, CallAtPoint, CallOf, Inserting, Drawn, Pending, Done
  <2> QED
    BY <2>1, <2>2, CallFrame
<1>4. ASSUME NEW t \in Thread, give_up_guard(t)
      PROVE  CallAtPoint'
  <2>1. Others(t) /\ next_index <= next_index'
    BY <1>4 DEF give_up_guard, Types
  <2>2. CallOf(t)'
    BY ZenonT(60), <1>4 DEF give_up_guard, Types, CallAtPoint, CallOf, Inserting, Drawn, Pending, Done
  <2> QED
    BY <2>1, <2>2, CallFrame
<1>5. ASSUME NEW t \in Thread, reserve_indices(t)
      PROVE  CallAtPoint'
  <2>1. Others(t) /\ next_index <= next_index'
    BY <1>5 DEF reserve_indices, Types
  <2>2. CallOf(t)'
    BY ZenonT(60), <1>5 DEF reserve_indices, Types, CallAtPoint, CallOf, Inserting, Drawn, Pending, Done
  <2> QED
    BY <2>1, <2>2, CallFrame
<1>6. ASSUME NEW t \in Thread, grow(t)
      PROVE  CallAtPoint'
  <2>1. Others(t) /\ next_index <= next_index'
    BY <1>6 DEF grow, Types
  <2>2. CallOf(t)'
    BY ZenonT(60), <1>6 DEF grow, Types, CallAtPoint, CallOf, Inserting, Drawn, Pending, Done
  <2> QED
    BY <2>1, <2>2, CallFrame
<1>7. ASSUME NEW t \in Thread, end_reserve(t)
      PROVE  CallAtPoint'
  <2>1. Others(t) /\ next_index <= next_index'
    BY <1>7 DEF end_reserve, Types
  <2>2. CallOf(t)'
    BY ZenonT(60), <1>7 DEF end_reserve, Types, CallAtPoint, CallOf, Inserting, Drawn, Pending, Done
  <2> QED
    BY <2>1, <2>2, CallFrame
<1>8. ASSUME NEW t \in Thread, relock(t)
      PROVE  CallAtPoint'
  <2>1. Others(t) /\ next_index <= next_index'
    BY <1>8 DEF relock, Types
  <2>2. CallOf(t)'
    BY ZenonT(60), <1>8 DEF relock, Types, CallAtPoint, CallOf, Inserting, Drawn, Pending, Done
  <2> QED
    BY <2>1, <2>2, CallFrame
<1>9. ASSUME NEW t \in Thread, put_in_hashtable(t)
      PROVE  CallAtPoint'
  <2>1. Others(t) /\ next_index <= next_index'
    BY <1>9 DEF put_in_hashtable, Examine, Finish, Types
  <2>2. CallOf(t)'
    <3>1. PICK k \in Key : call[t] = Pending("insert", k)
      BY ZenonT(60), <1>9 DEF put_in_hashtable, CallAtPoint, CallOf, Inserting
    <3>2. CASE call'[t] = call[t] /\ pc'[t] \in {"probe", "cas", "fetch"}
      BY Zenon, <3>1, <3>2 DEF CallOf, Inserting, Drawn
    <3>3. CASE call'[t] # call[t] \/ pc'[t] \notin {"probe", "cas", "fetch"}
      <4>1. /\ pc'[t] = "return"
            /\ \E r : call'[t] = Done(call[t].op, call[t].key, r)
        BY ZenonT(60), <1>9, <3>3 DEF put_in_hashtable, Examine, Finish, Types
      <4>2. call'[t].op # "none" /\ call'[t].done
        BY SMTT(60), <3>1, <4>1 DEF Pending, Done
      <4> QED
        BY <4>1, <4>2, CallReturns
    <3> QED
      BY SMTT(60), <3>2, <3>3
  <2> QED
    BY <2>1, <2>2, CallFrame
<1>10. ASSUME NEW t \in Thread, compare_exchange(t)
      PROVE  CallAtPoint'
  <2>1. Others(t) /\ next_index <= next_index'
    BY SMTT(60), <1>10 DEF compare_exchange, Examine, Finish, Types
  <2>2. CallOf(t)'
    <3>1. PICK k \in Key : call[t] = Pending("insert", k)
      BY ZenonT(60), <1>10 DEF compare_exchange, CallAtPoint, CallOf, Inserting
    <3>2. CASE call'[t] = call[t] /\ pc'[t] \in {"probe", "cas", "fetch"}
      BY Zenon, <3>1, <3>2 DEF CallOf, Inserting, Drawn
    <3>3. CASE call'[t] # call[t] \/ pc'[t] \notin {"probe", "cas", "fetch"}
      <4>1. /\ pc'[t] = "return"
            /\ \E r : call'[t] = Done(call[t].op, call[t].key, r)
        BY ZenonT(60), <1>10, <3>3 DEF compare_exchange, Examine, Finish, Types
      <4>2. call'[t].op # "none" /\ call'[t].done
        BY <3>1, <4>1 DEF Pending, Done
      <4> QED
        BY <4>1, <4>2, CallReturns
    <3> QED
      BY <3>2, <3>3
  <2> QED
    BY <2>1, <2>2, CallFrame
<1>11. ASSUME NEW t \in Thread, fetch_add(t)
      PROVE  CallAtPoint'
  <2>1. Others(t) /\ next_index <= next_index'
    BY <1>11 DEF fetch_add, Types
  <2>2. CallOf(t)'
    <3>1. PICK k \in Key : call[t] = Pending("insert", k)
      BY ZenonT(60), <1>11 DEF fetch_add, CallAtPoint, CallOf, Inserting
    <3>2. pc'[t] = "store" /\ next_index \in 0 .. next_index' - 1
      BY <1>11 DEF fetch_add, Types
    <3>3. call'[t] = Done("insert", k, <<next_index, TRUE>>)
      BY SMTT(60), <1>11, <3>1 DEF fetch_add, Types, Pending
    <3> QED
      BY ZenonT(60), <3>2, <3>3 DEF CallOf, Inserting, Drawn
  <2> QED
    BY <2>1, <2>2, CallFrame
<1>12. ASSUME NEW t \in Thread, store_key(t)
      PROVE  CallAtPoint'
  <2>1. Others(t) /\ next_index <= next_index'
    BY SMTT(60), <1>12 DEF store_key, Types
  <2>2. CallOf(t)'
    BY ZenonT(60), <1>12 DEF store_key, Types, CallAtPoint, CallOf, Inserting, Drawn, Pending, Done
  <2> QED
    BY <2>1, <2>2, CallFrame
<1>13. ASSUME NEW t \in Thread, publish(t)
      PROVE  CallAtPoint'
  <2>1. Others(t) /\ next_index <= next_index'
    BY <1>13 DEF publish, Types
  <2>2. CallOf(t)'
    <3>1. pc'[t] = "return" /\ call'[t] = call[t]
      BY <1>13 DEF publish, Types
    <3>2. PICK k, i : call[t] = Done("insert", k, <<i, TRUE>>)
      BY ZenonT(60), <1>13 DEF publish, CallAtPoint, CallOf, Drawn
    <3>3. call[t].op # "none" /\ call[t].done
      BY SMTT(60), <3>2 DEF Done
    <3> QED
      BY <3>1, <3>3, CallReturns
  <2> QED
    BY <2>1, <2>2, CallFrame
<1>14. ASSUME NEW t \in Thread, lookup(t)
      PROVE  CallAtPoint'
  <2>1. Others(t) /\ next_index <= next_index'
    BY <1>14 DEF lookup, Finish, Types
  <2>2. CallOf(t)'
    <3>1. PICK k \in Key : call[t] = Pending("index", k)
      BY Zenon, <1>14 DEF lookup, CallAtPoint, CallOf
    <3>2. CASE call'[t] = call[t] /\ pc'[t] = "lookup"
      BY ZenonT(60), <3>1, <3>2 DEF CallOf, Inserting, Drawn
    <3>3. CASE call'[t] # call[t] \/ pc'[t] # "lookup"
      <4>1. /\ pc'[t] = "return"
            /\ \E r : call'[t] = Done(call[t].op, call[t].key, r)
        BY ZenonT(60), <1>14, <3>3 DEF lookup, Finish, Types
      <4>2. call'[t].op # "none" /\ call'[t].done
        BY SMTT(60), <3>1, <4>1 DEF Pending, Done
      <4> QED
        BY <4>1, <4>2, CallReturns
    <3> QED
      BY SMTT(60), <3>2, <3>3
  <2> QED
    BY <2>1, <2>2, CallFrame
<1>15. ASSUME NEW t \in Thread, return(t)
      PROVE  CallAtPoint'
  <2>1. Others(t) /\ next_index <= next_index'
    BY SMTT(60), <1>15 DEF return, Types
  <2>2. CallOf(t)'
    BY SMTT(60), <1>15 DEF return, Types, CallAtPoint, CallOf, Inserting, Drawn, Pending, Done
  <2> QED
    BY <2>1, <2>2, CallFrame
<1>16. ASSUME NEW t \in Thread, size(t)
      PROVE  CallAtPoint'
  <2>1. Others(t) /\ next_index <= next_index'
    BY SMTT(60), <1>16 DEF size, Types
  <2>2. CallOf(t)'
    BY SMTT(60), <1>16 DEF size, Types, CallAtPoint, CallOf, Inserting, Drawn, Pending, Done
  <2> QED
    BY <2>1, <2>2, CallFrame
<1>17. ASSUME NEW t \in Thread, read_size(t)
      PROVE  CallAtPoint'
  <2>1. Others(t) /\ next_index <= next_index'
    BY SMTT(60), <1>17 DEF read_size, Finish, Types
  <2>2. CallOf(t)'
    <3>1. pc'[t] = "return" /\ call'[t] = Done(call[t].op, call[t].key, next_index)
      BY SMTT(60), <1>17 DEF read_size, Finish, Types
    <3>2. call[t] = Pending("size", npos)
      BY ZenonT(60), <1>17 DEF read_size, CallAtPoint, CallOf
    <3>3. call'[t].op # "none" /\ call'[t].done
      BY SMTT(60), <3>1, <3>2 DEF Pending, Done
    <3> QED
      BY SMTT(60), <3>1, <3>3, CallReturns
  <2> QED
    BY <2>1, <2>2, CallFrame
<1>18. ASSUME NEW t \in Thread, operator_at(t)
      PROVE  CallAtPoint'
  <2>1. Others(t) /\ next_index <= next_index'
    BY SMTT(60), <1>18 DEF operator_at, Types
  <2>2. CallOf(t)'
    BY ZenonT(60), <1>18 DEF operator_at, Types, CallAtPoint, CallOf, Inserting, Drawn, Pending, Done
  <2> QED
    BY <2>1, <2>2, CallFrame
<1>19. ASSUME NEW t \in Thread, end_operator_at(t)
      PROVE  CallAtPoint'
  <2>1. Others(t) /\ next_index <= next_index'
    BY <1>19 DEF end_operator_at, Types
  <2>2. CallOf(t)'
    BY ZenonT(60), <1>19 DEF end_operator_at, Types, CallAtPoint, CallOf, Inserting, Drawn, Pending, Done
  <2> QED
    BY <2>1, <2>2, CallFrame
<1>20. ASSUME NEW t \in Thread, clear(t)
      PROVE  CallAtPoint'
  <2>1. Others(t) /\ next_index <= next_index'
    BY SMTT(60), <1>20 DEF clear, Types
  <2>2. CallOf(t)'
    BY <1>20 DEF clear, Types, CallAtPoint, CallOf, Inserting, Drawn, Pending, Done
  <2> QED
    BY <2>1, <2>2, CallFrame
<1>21. ASSUME NEW t \in Thread, erase(t)
      PROVE  CallAtPoint'
  <2>1. \A u \in Thread \ {t} : pc'[u] = "idle" /\ call'[u] = Idle
    BY ZenonT(60), <1>21 DEF erase, Types, ClearsAlone, CallAtPoint, CallOf
  <2>2. pc'[t] = "erased" /\ call'[t] = Done("clear", npos, npos)
    BY SMTT(60), <1>21 DEF erase, Types
  <2> QED
    BY ZenonT(60), <2>1, <2>2 DEF CallAtPoint, CallOf, Inserting, Drawn
<1>22. ASSUME NEW t \in Thread, end_clear(t)
      PROVE  CallAtPoint'
  <2>1. Others(t) /\ next_index <= next_index'
    BY <1>22 DEF end_clear, Types
  <2>2. CallOf(t)'
    BY SMTT(60), <1>22 DEF end_clear, Types, CallAtPoint, CallOf, Inserting, Drawn, Pending, Done
  <2> QED
    BY <2>1, <2>2, CallFrame
<1>23. ASSUME UNCHANGED vars
      PROVE  CallAtPoint'
  BY ZenonT(60), <1>23 DEF vars, CallAtPoint, CallOf
<1> QED
  BY ONLY [Next]_vars, <1>1, <1>2, <1>3, <1>4, <1>5, <1>6, <1>7, <1>8, <1>9, <1>10, <1>11, <1>12, <1>13, <1>14, <1>15, <1>16, <1>17, <1>18, <1>19, <1>20, <1>21, <1>22, <1>23 DEF Next, Insert

(***************************************************************************)
(* The numbering that the tables stand for: the key of an index is the one *)
(* in m_keys, or the one that the thread which drew it is about to write.  *)
(***************************************************************************)
NumbersRight ==
  /\ Numbered = [i \in 1 .. next_index |-> Numbered[i]]
  /\ \A t \in Thread : pc[t] = "store" =>
       DrawnIndex(t) + 1 \in 1 .. next_index /\ Numbered[DrawnIndex(t) + 1] = Key_of(t)
  /\ \A i \in 1 .. next_index :
       (\A t \in Thread : pc[t] = "store" => DrawnIndex(t) + 1 # i) => Numbered[i] = keys[i]

LEMMA Numbers == IInv /\ TInv => NumbersRight
<1> SUFFICES ASSUME IInv, TInv PROVE NumbersRight
  OBVIOUS
<1>1. Types /\ CallAtPoint /\ IndicesInTable /\ next_index \in Nat
  BY DEF IInv, TInv, Types
<1>2. \A t \in Thread : pc[t] = "store" =>
        /\ DrawnIndex(t) \in Nat /\ DrawnIndex(t) < next_index
        /\ call[t].result[1] = DrawnIndex(t)
  BY Zenon, <1>1, DrawnInRange DEF Drawn, DrawnIndex
<1>3. ASSUME NEW t \in Thread, pc[t] = "store"
      PROVE  DrawnIndex(t) + 1 \in 1 .. next_index /\ Numbered[DrawnIndex(t) + 1] = Key_of(t)
  <2>1. PICK i \in 1 .. next_index : i = DrawnIndex(t) + 1 /\ i - 1 = DrawnIndex(t)
    BY <1>1, <1>2, <1>3
  <2> DEFINE P(u) == pc[u] = "store" /\ call[u].result[1] = i - 1
             c == CHOOSE u \in Thread : P(u)
  <2>2. P(t)
    BY <1>2, <1>3, <2>1
  <2>3. c \in Thread /\ P(c)
    BY Zenon, <2>2
  <2>4. Numbered[i] = Key_of(c)
    BY Zenon, <2>2 DEF Numbered
  <2> HIDE DEF c
  <2>5. c = t
    BY SMTT(60), <1>1, <1>2, <1>3, <2>1, <2>3 DEF IndicesInTable, Drawn
  <2> QED
    BY <2>1, <2>4, <2>5
<1>4. ASSUME NEW i \in 1 .. next_index, \A t \in Thread : pc[t] = "store" => DrawnIndex(t) + 1 # i
      PROVE  Numbered[i] = keys[i]
  <2>1. \A t \in Thread : ~(pc[t] = "store" /\ call[t].result[1] = i - 1)
    BY <1>1, <1>2, <1>4
  <2> QED
    BY Zenon, <2>1 DEF Numbered
<1>5. Numbered = [i \in 1 .. next_index |-> Numbered[i]]
  BY Zenon DEF Numbered
<1> QED
  BY <1>3, <1>4, <1>5 DEF NumbersRight

LEMMA NumbersAfter == IInv' /\ TInv' => NumbersRight'
BY Numbers, PTL

(***************************************************************************)
(* Every number has its own key, and its key is where the table says.      *)
(***************************************************************************)
LEMMA NumberHeld ==
  ASSUME IInv, TInv, NEW i \in 1 .. next_index
  PROVE  /\ Numbered[i] \in Key
         /\ \E p \in DOMAIN hashtable :
              /\ Holds(p, Numbered[i])
              /\ \/ hashtable[p] \in Nat /\ hashtable[p] + 1 = i
                 \/ \E t \in Thread : pc[t] \in Drawn /\ DrawnIndex(t) + 1 = i /\ pos[t] = p
<1>1. /\ Types /\ CallAtPoint /\ IndicesInTable /\ TableShape /\ next_index \in Nat
      /\ NumbersRight
  BY Numbers DEF IInv, TInv, Types
<1>2. \A t \in Thread : pc[t] \in Drawn =>
        DrawnIndex(t) \in Nat /\ DrawnIndex(t) < next_index /\ Key_of(t) \in Key
  BY Zenon, <1>1, DrawnInRange
<1>3. CASE \E t \in Thread : pc[t] \in Drawn /\ DrawnIndex(t) = i - 1
  <2>1. PICK t \in Thread : pc[t] \in Drawn /\ DrawnIndex(t) = i - 1
    BY <1>3
  <2>2. DrawnIndex(t) + 1 = i /\ pos[t] \in DOMAIN hashtable /\ pc[t] \in Holding
    BY <1>1, <2>1 DEF TableShape, Holding
  <2>3. CASE pc[t] = "store"
    BY ZenonT(60), <1>1, <1>2, <2>1, <2>2, <2>3 DEF NumbersRight, Holds
  <2>4. CASE pc[t] = "publish"
    <3>1. \A u \in Thread : pc[u] = "store" => DrawnIndex(u) + 1 # i
      <4>1. \A u \in Thread : pc[u] = "store" => DrawnIndex(u) # DrawnIndex(t)
        BY <1>1, <2>1, <2>4 DEF IndicesInTable, Drawn
      <4>2. \A u \in Thread : pc[u] = "store" => DrawnIndex(u) \in Nat
        BY <1>2 DEF Drawn
      <4> QED
        BY <2>1, <4>1, <4>2
    <3>2. Numbered[i] = keys[i] /\ keys[i] = Key_of(t)
      BY SMTT(60), <1>1, <2>2, <2>4, <3>1 DEF NumbersRight, IndicesInTable
    <3> QED
      BY ZenonT(60), <1>2, <2>1, <2>2, <3>2 DEF Holds
  <2> QED
    BY <2>1, <2>3, <2>4 DEF Drawn
<1>4. CASE ~\E t \in Thread : pc[t] \in Drawn /\ DrawnIndex(t) = i - 1
  <2>1. i - 1 \in 0 .. next_index - 1 /\ i - 1 \in Nat /\ (i - 1) + 1 = i
    BY <1>1
  <2>2. PICK p \in DOMAIN hashtable : hashtable[p] = i - 1
    BY ZenonT(60), <1>1, <1>4, <2>1 DEF IndicesInTable
  <2>3. keys[i] \in Key
    BY <1>1, <2>1, <2>2 DEF IndicesInTable
  <2>4. \A u \in Thread : pc[u] = "store" => DrawnIndex(u) + 1 # i
    BY <1>2, <1>4 DEF Drawn
  <2>5. Numbered[i] = keys[i]
    BY <1>1, <2>4 DEF NumbersRight
  <2> QED
    BY ZenonT(60), <2>1, <2>2, <2>3, <2>5 DEF Holds
<1> QED
  BY <1>3, <1>4

LEMMA NumbersDistinct ==
  ASSUME IInv, TInv, NEW i \in 1 .. next_index, NEW j \in 1 .. next_index,
         Numbered[i] = Numbered[j]
  PROVE  i = j
<1> DEFINE At(p, n) == \/ hashtable[p] \in Nat /\ hashtable[p] + 1 = n
                       \/ \E t \in Thread : pc[t] \in Drawn /\ DrawnIndex(t) + 1 = n /\ pos[t] = p
<1>1. PICK p \in DOMAIN hashtable : Holds(p, Numbered[i]) /\ At(p, i) /\ Numbered[i] \in Key
  BY Zenon, NumberHeld
<1>2. PICK q \in DOMAIN hashtable : Holds(q, Numbered[j]) /\ At(q, j)
  BY Zenon, NumberHeld
<1>3. p = q
  BY Zenon, <1>1, <1>2 DEF TInv, KeysInTable
<1>4. ASSUME NEW t \in Thread, pc[t] \in Drawn, pos[t] = p
      PROVE  hashtable[p] \notin Nat
  BY <1>4, SpecialAssumption DEF TInv, ClaimsAtPositions, Holding
<1>5. \A t, u \in Thread : pc[t] \in Drawn /\ pc[u] \in Drawn /\ pos[t] = p /\ pos[u] = p => t = u
  BY DEF TInv, ClaimsAtPositions, Holding
<1>6. CASE hashtable[p] \in Nat
  BY ZenonT(60), <1>1, <1>2, <1>3, <1>4, <1>6
<1>7. CASE hashtable[p] \notin Nat
  <2>1. PICK t \in Thread : pc[t] \in Drawn /\ DrawnIndex(t) + 1 = i /\ pos[t] = p
    BY Zenon, <1>1, <1>7
  <2>2. PICK u \in Thread : pc[u] \in Drawn /\ DrawnIndex(u) + 1 = j /\ pos[u] = p
    BY Zenon, <1>2, <1>3, <1>7
  <2> QED
    BY Zenon, <1>5, <2>1, <2>2
<1> QED
  BY <1>6, <1>7

\* A published key has the number that its entry shows.
LEMMA NumberFound ==
  ASSUME IInv, TInv, NEW p \in DOMAIN hashtable, hashtable[p] \in Nat,
         NEW k, k = keys[hashtable[p] + 1]
  PROVE  KN!Positions(k) # {} /\ KN!IndexOf(k) = hashtable[p]
<1>1. /\ Types /\ IndicesInTable /\ next_index \in Nat /\ NumbersRight /\ CallAtPoint
  BY Numbers DEF IInv, TInv, Types
<1>2. PICK i \in 1 .. next_index : i = hashtable[p] + 1 /\ i - 1 = hashtable[p]
  BY <1>1 DEF IndicesInTable
<1>3. \A u \in Thread : pc[u] = "store" => DrawnIndex(u) \in Nat /\ DrawnIndex(u) # hashtable[p]
  BY Zenon, <1>1, DrawnInRange DEF IndicesInTable, Drawn
<1>4. Numbered[i] = k
  <2>1. \A u \in Thread : pc[u] = "store" => DrawnIndex(u) + 1 # i
    BY <1>2, <1>3
  <2> QED
    BY Zenon, <1>1, <1>2, <2>1 DEF NumbersRight
<1>5. DOMAIN Numbered = 1 .. next_index
  BY DEF Numbered
<1>6. i \in KN!Positions(k) /\ \A j \in KN!Positions(k) : j = i
  BY Zenon, <1>4, <1>5, NumbersDistinct DEF KN!Positions
<1>7. (CHOOSE j \in KN!Positions(k) : TRUE) = i
  BY Zenon, <1>6
<1> QED
  BY Zenon, <1>2, <1>6, <1>7 DEF KN!IndexOf

\* A key that no entry has, or will have, is not numbered.
LEMMA NumberAbsent ==
  ASSUME IInv, TInv, NEW k \in Key, \A p \in DOMAIN hashtable : ~Holds(p, k)
  PROVE  KN!Positions(k) = {}
<1>1. DOMAIN Numbered = 1 .. next_index
  BY DEF Numbered
<1>2. \A i \in 1 .. next_index : Numbered[i] # k
  BY Zenon, NumberHeld
<1> QED
  BY Zenon, <1>1, <1>2 DEF KN!Positions

\* A key that a thread has claimed an entry for, and drawn no index, is not numbered.
LEMMA NumberClaimed ==
  ASSUME IInv, TInv, NEW t \in Thread, pc[t] = "fetch", Key_of(t) \in Key
  PROVE  KN!Positions(Key_of(t)) = {}
<1>1. DOMAIN Numbered = 1 .. next_index
  BY DEF Numbered
<1>2. ASSUME NEW i \in 1 .. next_index, Numbered[i] = Key_of(t)
      PROVE  FALSE
  <2>1. PICK p \in DOMAIN hashtable :
          /\ Holds(p, Numbered[i])
          /\ \/ hashtable[p] \in Nat
             \/ \E u \in Thread : pc[u] \in Drawn /\ pos[u] = p
    BY Zenon, NumberHeld
  <2>2. /\ pos[t] \in DOMAIN hashtable /\ pc[t] \in Holding /\ pc[t] \notin Drawn
        /\ hashtable[pos[t]] \notin Nat
    BY SpecialAssumption DEF TInv, TableShape, ClaimsAtPositions, Holding, Drawn
  <2>3. Holds(pos[t], Key_of(t))
    BY Zenon, <2>2 DEF Holds
  <2>4. p = pos[t]
    BY ZenonT(60), <1>2, <2>1, <2>2, <2>3 DEF TInv, KeysInTable
  <2>5. PICK u \in Thread : pc[u] \in Drawn /\ pos[u] = pos[t]
    BY SMTT(60), <2>1, <2>2, <2>4
  <2>6. u = t
    BY <2>2, <2>5 DEF TInv, ClaimsAtPositions, Holding
  <2> QED
    BY <2>2, <2>5, <2>6
<1> QED
  BY Zenon, <1>1, <1>2 DEF KN!Positions

(***************************************************************************)
(* The steps that leave the numbering as it is.                            *)
(***************************************************************************)
LEMMA SameNumbers ==
  ASSUME NumbersRight, NumbersRight', next_index' = next_index,
         \A u \in Thread : /\ pc'[u] = "store" <=> pc[u] = "store"
                           /\ pc[u] = "store" => call'[u] = call[u],
         \A i \in 1 .. next_index : keys'[i] = keys[i]
  PROVE  Numbered' = Numbered
<1>1. \A u \in Thread : pc[u] = "store" =>
        Key_of(u)' = Key_of(u) /\ DrawnIndex(u)' = DrawnIndex(u)
  BY Zenon DEF Key_of, DrawnIndex
<1>2. ASSUME NEW i \in 1 .. next_index
      PROVE  Numbered'[i] = Numbered[i]
  <2>1. CASE \E u \in Thread : pc[u] = "store" /\ DrawnIndex(u) + 1 = i
    <3>1. PICK u \in Thread : pc[u] = "store" /\ DrawnIndex(u) + 1 = i
      BY <2>1
    <3>2. Numbered[i] = Key_of(u)
      BY Zenon, <3>1 DEF NumbersRight
    <3>3. Numbered'[i] = Key_of(u)'
      BY Zenon, <1>1, <3>1 DEF NumbersRight
    <3> QED
      BY ZenonT(60), <1>1, <3>1, <3>2, <3>3
  <2>2. CASE ~\E u \in Thread : pc[u] = "store" /\ DrawnIndex(u) + 1 = i
    <3>1. Numbered[i] = keys[i]
      BY Zenon, <2>2 DEF NumbersRight
    <3>2. Numbered'[i] = keys'[i]
      BY ZenonT(60), <1>1, <2>2 DEF NumbersRight
    <3> QED
      BY Zenon, <3>1, <3>2
  <2> QED
    BY <2>1, <2>2
<1>3. /\ Numbered = [i \in 1 .. next_index |-> Numbered[i]]
      /\ Numbered' = [i \in 1 .. next_index |-> Numbered'[i]]
  BY Zenon DEF NumbersRight
<1> QED
  BY Zenon, <1>2, <1>3

(***************************************************************************)
(* Each step of the set is a step of the numbering, or leaves it alone.    *)
(***************************************************************************)
LEMMA StutterNumbers ==
  ASSUME NumbersRight, NumbersRight', UNCHANGED <<keys, next_index, call>>,
         \A u \in Thread : pc'[u] = "store" <=> pc[u] = "store"
  PROVE  UNCHANGED KN!nvars
<1>1. Numbered' = Numbered
  BY SameNumbers
<1> QED
  BY <1>1 DEF KN!nvars

LEMMA DrawNumbers ==
  ASSUME IInv, TInv, NumbersRight', NEW t \in Thread, fetch_add(t), pc'[t] = "store"
  PROVE  KN!Next
<1>1. Types /\ CallAtPoint /\ NumbersRight /\ next_index \in Nat
  BY Numbers DEF IInv, TInv, Types
<1>2. pc[t] = "fetch" /\ next_index' = next_index + 1 /\ keys' = keys
  BY DEF fetch_add
<1>3. PICK k \in Key : call[t] = Pending("insert", k)
  BY Zenon, <1>1, <1>2 DEF CallAtPoint, CallOf, Inserting
<1>4. Key_of(t) = k
  BY <1>3 DEF Key_of, Pending
<1>5. KN!Positions(k) = {}
  BY <1>2, <1>4, NumberClaimed
<1>6. /\ call' = [call EXCEPT ![t] = Done("insert", k, <<next_index, TRUE>>)]
      /\ call'[t] = Done("insert", k, <<next_index, TRUE>>)
      /\ \A u \in Thread \ {t} : pc'[u] = pc[u] /\ call'[u] = call[u]
  BY Zenon, <1>1, <1>4 DEF fetch_add, Key_of, Types
<1>7. Key_of(t)' = k /\ DrawnIndex(t)' = next_index
  BY <1>6 DEF Key_of, DrawnIndex, Done
<1>8. \A u \in Thread \ {t} : Key_of(u)' = Key_of(u) /\ DrawnIndex(u)' = DrawnIndex(u)
  BY Zenon, <1>6 DEF Key_of, DrawnIndex
<1>9. Numbered'[next_index + 1] = k
  BY Zenon, <1>7 DEF NumbersRight
<1>10. ASSUME NEW i \in 1 .. next_index
       PROVE  Numbered'[i] = Numbered[i]
  <2>1. i \in 1 .. next_index' /\ i # next_index + 1
    BY <1>1, <1>2
  <2>2. CASE \E u \in Thread : pc[u] = "store" /\ DrawnIndex(u) + 1 = i
    <3>1. PICK u \in Thread : pc[u] = "store" /\ DrawnIndex(u) + 1 = i
      BY <2>2
    <3>2. u # t
      BY <1>2, <3>1
    <3>3. Numbered[i] = Key_of(u)
      BY Zenon, <1>1, <3>1 DEF NumbersRight
    <3>4. Numbered'[i] = Key_of(u)'
      BY ZenonT(60), <1>6, <1>8, <3>1, <3>2 DEF NumbersRight
    <3> QED
      BY ZenonT(60), <1>8, <3>2, <3>3, <3>4
  <2>3. CASE ~\E u \in Thread : pc[u] = "store" /\ DrawnIndex(u) + 1 = i
    <3>1. Numbered[i] = keys[i]
      BY Zenon, <1>1, <2>3 DEF NumbersRight
    <3>2. \A u \in Thread : pc'[u] = "store" => DrawnIndex(u)' + 1 # i
      BY ZenonT(60), <1>6, <1>7, <1>8, <2>1, <2>3
    <3>3. Numbered'[i] = keys'[i]
      BY Zenon, <2>1, <3>2 DEF NumbersRight
    <3> QED
      BY ZenonT(60), <1>2, <3>1, <3>3
  <2> QED
    BY <2>2, <2>3
<1>11. Numbered \in Seq(Key) /\ Len(Numbered) = next_index
  <2>1. Numbered \in [1 .. next_index -> Key]
    BY Zenon, <1>1, NumberHeld DEF NumbersRight
  <2> QED
    BY <1>1, <2>1
<1>12. Numbered' = Append(Numbered, k)
  <2>1. Numbered' = [i \in 1 .. next_index + 1 |-> Numbered'[i]]
    BY Zenon, <1>2 DEF NumbersRight
  <2>2. Append(Numbered, k) = [i \in 1 .. next_index + 1 |->
                                 IF i = next_index + 1 THEN k ELSE Numbered[i]]
    <3>1. PICK s \in Seq(Key) : s = Append(Numbered, k)
      <4>1. PICK n \in Seq(Key) : n = Numbered
        BY Zenon, <1>11
      <4>2. Append(n, k) \in Seq(Key)
        OBVIOUS
      <4> QED
        BY Zenon, <4>1, <4>2
    <3>2. Len(s) = next_index + 1 /\ s[next_index + 1] = k
      BY <1>1, <1>11, <3>1
    <3>3. \A i \in 1 .. next_index : s[i] = Numbered[i]
      BY <1>1, <1>11, <3>1
    <3>4. s = [i \in 1 .. next_index + 1 |-> s[i]]
      BY <3>2
    <3>5. \A i \in 1 .. next_index + 1 : s[i] = IF i = next_index + 1 THEN k ELSE Numbered[i]
      BY <1>1, <3>2, <3>3
    <3> QED
      BY ZenonT(60), <3>1, <3>4, <3>5
  <2>3. \A i \in 1 .. next_index + 1 :
          Numbered'[i] = IF i = next_index + 1 THEN k ELSE Numbered[i]
    <3>1. \A i \in 1 .. next_index + 1 : i = next_index + 1 \/ i \in 1 .. next_index
      BY <1>1
    <3> QED
      BY Zenon, <1>9, <1>10, <3>1
  <2> QED
    BY ZenonT(60), <2>1, <2>2, <2>3
<1>13. KN!InsertNew(t, k)
  BY SMTT(60), <1>3, <1>5, <1>6, <1>11, <1>12 DEF KN!InsertNew, KN!Pending, KN!Done, Pending, Done
<1> QED
  BY Zenon, <1>13 DEF KN!Next

LEMMA StoreNumbers ==
  ASSUME IInv, TInv, NumbersRight', next_index <= Len(keys), NEW t \in Thread, store_key(t)
  PROVE  UNCHANGED KN!nvars
<1>1. /\ Types /\ CallAtPoint /\ NumbersRight /\ IndicesInTable /\ next_index \in Nat
      /\ next_index <= Len(keys) /\ keys \in Seq(Key \cup {NoKey})
  BY Numbers DEF IInv, TInv, Types
<1>2. /\ pc[t] = "store" /\ UNCHANGED <<next_index, call>>
      /\ keys' = [keys EXCEPT ![DrawnIndex(t) + 1] = Key_of(t)]
      /\ \A u \in Thread : pc'[u] = "store" <=> pc[u] = "store" /\ u # t
  BY <1>1 DEF store_key, Goto, DrawnIndex, Types
<1>3. DrawnIndex(t) \in Nat /\ DrawnIndex(t) < next_index
  BY Zenon, <1>1, <1>2, DrawnInRange DEF Drawn
<1>4. /\ keys'[DrawnIndex(t) + 1] = Key_of(t)
      /\ \A i \in 1 .. next_index : i # DrawnIndex(t) + 1 => keys'[i] = keys[i]
  BY <1>1, <1>2, <1>3
<1>5. \A u \in Thread : Key_of(u)' = Key_of(u) /\ DrawnIndex(u)' = DrawnIndex(u)
  BY Zenon, <1>2 DEF Key_of, DrawnIndex
<1>6. \A u \in Thread : pc'[u] = "store" => DrawnIndex(u) + 1 # DrawnIndex(t) + 1
  <2>1. ASSUME NEW u \in Thread, pc[u] = "store", u # t
        PROVE  DrawnIndex(u) \in Nat /\ DrawnIndex(u) # DrawnIndex(t)
    BY Zenon, <1>1, <1>2, <2>1, DrawnInRange DEF IndicesInTable, Drawn
  <2> QED
    BY <1>2, <1>3, <2>1
<1>7. ASSUME NEW i \in 1 .. next_index
      PROVE  Numbered'[i] = Numbered[i]
  <2>1. CASE i = DrawnIndex(t) + 1
    <3>1. Numbered[i] = Key_of(t)
      BY Zenon, <1>1, <1>2, <2>1 DEF NumbersRight
    <3>2. Numbered'[i] = keys'[i]
      BY ZenonT(60), <1>2, <1>5, <1>6, <2>1 DEF NumbersRight
    <3> QED
      BY Zenon, <1>4, <2>1, <3>1, <3>2
  <2>2. CASE i # DrawnIndex(t) + 1 /\ \E u \in Thread : pc[u] = "store" /\ DrawnIndex(u) + 1 = i
    <3>1. PICK u \in Thread : pc[u] = "store" /\ DrawnIndex(u) + 1 = i
      BY <2>2
    <3>2. u # t
      BY <2>2, <3>1
    <3>3. Numbered[i] = Key_of(u)
      BY Zenon, <1>1, <3>1 DEF NumbersRight
    <3>4. Numbered'[i] = Key_of(u)'
      BY ZenonT(60), <1>2, <1>5, <3>1, <3>2 DEF NumbersRight
    <3> QED
      BY Zenon, <1>5, <3>3, <3>4
  <2>3. CASE i # DrawnIndex(t) + 1 /\ ~\E u \in Thread : pc[u] = "store" /\ DrawnIndex(u) + 1 = i
    <3>1. Numbered[i] = keys[i]
      BY Zenon, <1>1, <2>3 DEF NumbersRight
    <3>2. Numbered'[i] = keys'[i]
      BY ZenonT(60), <1>2, <1>5, <2>3 DEF NumbersRight
    <3> QED
      BY ZenonT(60), <1>4, <2>3, <3>1, <3>2
  <2> QED
    BY <2>1, <2>2, <2>3
<1>8. /\ Numbered = [i \in 1 .. next_index |-> Numbered[i]]
      /\ Numbered' = [i \in 1 .. next_index |-> Numbered'[i]]
  BY Zenon, <1>1, <1>2 DEF NumbersRight
<1>9. Numbered' = Numbered
  BY ZenonT(60), <1>7, <1>8
<1> QED
  BY <1>2, <1>9 DEF KN!nvars

LEMMA GrowNumbers ==
  ASSUME IInv, TInv, NumbersRight', NEW t \in Thread, grow(t), Grown
  PROVE  UNCHANGED KN!nvars
<1>1. Types /\ NumbersRight /\ next_index \in Nat
  BY Numbers DEF IInv, Types
<1>2. /\ UNCHANGED <<next_index, call>>
      /\ \A u \in Thread : pc'[u] = "store" <=> pc[u] = "store"
  BY <1>1 DEF grow, Goto, Types
<1>3. \A i \in 1 .. next_index : keys'[i] = keys[i]
  <2>1. \A i \in 1 .. next_index : i - 1 \in 0 .. next_index - 1 /\ (i - 1) + 1 = i
    BY <1>1
  <2> QED
    BY Zenon, <2>1 DEF Grown
<1>4. Numbered' = Numbered
  BY SMTT(60), <1>1, <1>2, <1>3, SameNumbers
<1> QED
  BY <1>2, <1>4 DEF KN!nvars

\* A walk that meets its key delivers its number.
LEMMA ExamineNumbers ==
  ASSUME IInv, TInv, NumbersRight', NEW t \in Thread, pc[t] \in {"probe", "cas"},
         Examine(t, hashtable[pos[t]]), UNCHANGED <<keys, next_index>>
  PROVE  KN!Next \/ UNCHANGED KN!nvars
<1>1. Types /\ CallAtPoint /\ NumbersRight /\ pos[t] \in DOMAIN hashtable
  BY Numbers DEF IInv, TInv, TableShape
<1>2. /\ \A u \in Thread : pc'[u] = "store" <=> pc[u] = "store"
      /\ \A u \in Thread : pc[u] = "store" => u # t
  BY <1>1 DEF Examine, Types
<1>3. CASE UNCHANGED call
  BY <1>1, <1>2, <1>3, StutterNumbers
<1>4. CASE /\ hashtable[pos[t]] \in Nat /\ keys[hashtable[pos[t]] + 1] = Key_of(t)
           /\ Finish(t, <<hashtable[pos[t]], FALSE>>)
  <2>1. PICK k \in Key : call[t] = Pending("insert", k)
    BY ZenonT(60), <1>1 DEF CallAtPoint, CallOf, Inserting
  <2>2. Key_of(t) = k
    BY <2>1 DEF Key_of, Pending
  <2>3. KN!Positions(k) # {} /\ KN!IndexOf(k) = hashtable[pos[t]]
    BY ZenonT(60), <1>1, <1>4, <2>2, NumberFound
  <2>4. call' = [call EXCEPT ![t] = Done("insert", k, <<hashtable[pos[t]], FALSE>>)]
    BY SMTT(60), <1>1, <1>4, <2>1 DEF Finish, Pending
  <2>5. Numbered' = Numbered
    BY SMTT(60), <1>1, <1>2, <2>4, SameNumbers DEF Types
  <2>6. KN!InsertOld(t, k)
    BY <2>1, <2>3, <2>4, <2>5 DEF KN!InsertOld, KN!Pending, KN!Done, Pending, Done
  <2> QED
    BY Zenon, <2>6 DEF KN!Next
<1> QED
  BY ZenonT(60), <1>3, <1>4 DEF Examine

LEMMA LookupNumbers ==
  ASSUME IInv, TInv, NumbersRight', NEW t \in Thread, lookup(t)
  PROVE  KN!Next \/ UNCHANGED KN!nvars
<1>1. /\ Types /\ CallAtPoint /\ NumbersRight /\ pos[t] \in DOMAIN hashtable
      /\ TableInv /\ WalksPassed
  BY Numbers DEF IInv, TInv, TableInv, TableShape
<1>2. pc[t] = "lookup" /\ UNCHANGED <<keys, next_index>>
  BY DEF lookup, tables
<1>3. /\ \A u \in Thread : pc'[u] = "store" <=> pc[u] = "store"
      /\ \A u \in Thread : pc[u] = "store" => u # t
  BY <1>1, <1>2 DEF lookup, Types
<1>4. PICK k \in Key : call[t] = Pending("index", k)
  BY ZenonT(60), <1>1, <1>2 DEF CallAtPoint, CallOf
<1>5. Key_of(t) = k
  BY <1>4 DEF Key_of, Pending
<1>6. ASSUME NEW r, Finish(t, r), r = IF KN!Positions(k) = {} THEN npos ELSE KN!IndexOf(k)
      PROVE  KN!Next
  <2>1. call' = [call EXCEPT ![t] = Done("index", k, r)]
    BY SMTT(60), <1>1, <1>4, <1>6 DEF Finish, Pending
  <2>2. Numbered' = Numbered
    BY SMTT(60), <1>1, <1>2, <1>3, <2>1, SameNumbers DEF Types
  <2>3. KN!Index(t, k)
    BY SMTT(60), <1>4, <1>6, <2>1, <2>2 DEF KN!Index, KN!Pending, KN!Done, Pending, Done
  <2> QED
    BY Zenon, <2>3 DEF KN!Next
<1>7. CASE UNCHANGED call
  BY SMTT(60), <1>1, <1>2, <1>3, <1>7, StutterNumbers
<1>8. CASE hashtable[pos[t]] = EMPTY /\ Finish(t, npos)
  <2>1. \A p \in DOMAIN hashtable : ~Holds(p, k)
    BY SMTT(60), <1>1, <1>2, <1>5, <1>8, AbsentKey DEF Walking
  <2>2. KN!Positions(k) = {}
    BY <2>1, NumberAbsent
  <2> QED
    BY ZenonT(60), <1>6, <1>8, <2>2
<1>9. CASE /\ hashtable[pos[t]] \in Nat /\ keys[hashtable[pos[t]] + 1] = Key_of(t)
           /\ Finish(t, hashtable[pos[t]])
  <2>1. KN!Positions(k) # {} /\ KN!IndexOf(k) = hashtable[pos[t]]
    BY ZenonT(60), <1>1, <1>5, <1>9, NumberFound
  <2> QED
    BY Zenon, <1>6, <1>9, <2>1
<1> QED
  BY ZenonT(60), <1>7, <1>8, <1>9 DEF lookup

\* The steps at which a call begins or ends.
LEMMA CallNumbers ==
  ASSUME IInv, TInv, NumbersRight', NEW t \in Thread, UNCHANGED tables,
         pc[t] # "store", pc'[t] # "store",
         \A u \in Thread \ {t} : pc'[u] = pc[u] /\ call'[u] = call[u],
         \/ \E k \in Key : KN!Idle = call[t] /\ call' = [call EXCEPT ![t] = KN!Pending("insert", k)]
         \/ \E k \in Key : KN!Idle = call[t] /\ call' = [call EXCEPT ![t] = KN!Pending("index", k)]
         \/ KN!Idle = call[t] /\ call' = [call EXCEPT ![t] = KN!Pending("size", npos)]
         \/ KN!Idle = call[t] /\ call' = [call EXCEPT ![t] = KN!Pending("clear", npos)]
         \/ call[t].op # "none" /\ call[t].done /\ call' = [call EXCEPT ![t] = KN!Idle]
  PROVE  KN!Next
<1>1. Numbered' = Numbered
  <2>1. NumbersRight
    BY Numbers
  <2>2. \A u \in Thread : (pc'[u] = "store" <=> pc[u] = "store") /\ (pc[u] = "store" => call'[u] = call[u])
    BY Zenon
  <2>3. keys' = keys /\ next_index' = next_index
    BY DEF tables
  <2> QED
    BY SMTT(60), <2>1, <2>2, <2>3, SameNumbers
<1>2. \/ \E k \in Key : KN!Invoke(t, "insert", k) \/ KN!Invoke(t, "index", k)
      \/ KN!Invoke(t, "size", npos) \/ KN!Invoke(t, "clear", npos) \/ KN!Return(t)
  BY Zenon, <1>1 DEF KN!Invoke, KN!Return
<1> QED
  BY ZenonT(60), <1>2 DEF KN!Next

LEMMA ReadSizeNumbers ==
  ASSUME IInv, TInv, NumbersRight', NEW t \in Thread, read_size(t)
  PROVE  KN!Next
<1>1. Types /\ CallAtPoint /\ NumbersRight /\ next_index \in Nat
  BY Numbers DEF IInv, TInv, Types
<1>2. /\ pc[t] = "size" /\ Finish(t, next_index) /\ UNCHANGED <<keys, next_index>>
      /\ \A u \in Thread : pc'[u] = "store" <=> pc[u] = "store"
  BY <1>1 DEF read_size, Goto, tables, Types
<1>3. call[t] = Pending("size", npos)
  BY Zenon, <1>1, <1>2 DEF CallAtPoint, CallOf
<1>4. call' = [call EXCEPT ![t] = Done("size", npos, next_index)]
  BY <1>1, <1>2, <1>3 DEF Finish, Pending
<1>5. \A u \in Thread : pc[u] = "store" => call'[u] = call[u]
  BY <1>1, <1>2, <1>4 DEF Types
<1>6. Numbered' = Numbered
  BY <1>1, <1>2, <1>5, SameNumbers
<1>7. Len(Numbered) = next_index
  <2>1. Numbered = [i \in 1 .. next_index |-> Numbered[i]]
    BY <1>1 DEF NumbersRight
  <2>2. PICK n : n = Numbered /\ n = [i \in 1 .. next_index |-> n[i]]
    BY Zenon, <2>1
  <2>3. Len(n) = next_index
    BY SMTT(60), <1>1, <2>2
  <2> QED
    BY ZenonT(60), <2>2, <2>3
<1>8. KN!Size(t)
  BY SMTT(60), <1>3, <1>4, <1>6, <1>7 DEF KN!Size, KN!Pending, KN!Done, Pending, Done
<1> QED
  BY Zenon, <1>8 DEF KN!Next

LEMMA EraseNumbers ==
  ASSUME IInv, TInv, NumbersRight', NEW t \in Thread, erase(t)
  PROVE  KN!Next
<1>1. pc[t] = "erase" /\ next_index' = 0 /\ call' = [call EXCEPT ![t] = Done("clear", npos, npos)]
  BY SMTT(60) DEF erase, Goto
<1>2. call[t] = Pending("clear", npos)
  BY ZenonT(60), <1>1 DEF TInv, CallAtPoint, CallOf
<1>3. Numbered' = <<>>
  <2>1. Numbered' = [i \in 1 .. 0 |-> Numbered'[i]]
    BY Zenon, <1>1 DEF NumbersRight
  <2>2. PICK n : n = Numbered' /\ n = [i \in 1 .. 0 |-> n[i]]
    BY Zenon, <2>1
  <2>3. n = <<>>
    BY <2>2
  <2> QED
    BY <2>2, <2>3
<1>4. KN!Clear(t)
  BY <1>1, <1>2, <1>3 DEF KN!Clear, KN!Pending, KN!Done, Pending, Done
<1> QED
  BY Zenon, <1>4 DEF KN!Next

NumberStep == KN!Next \/ UNCHANGED KN!nvars

LEMMA NextNumbers ==
  ASSUME IInv, TInv, IInv', TInv', [Next]_vars, next_index <= Len(keys),
         \A u \in Thread : grow(u) => Grown
  PROVE  NumberStep
<1>a. /\ Types /\ CallAtPoint /\ NumbersRight /\ NumbersRight'
      /\ \A u \in Thread : pc'[u] # "failed"
  BY SMTT(60), Numbers, NumbersAfter DEF IInv, TInv, EveryClaimHasAnIndex
<1>1. ASSUME NEW t \in Thread, NEW k \in Key, insert(t, k)
      PROVE  NumberStep
  <2>1. /\ UNCHANGED tables /\ pc[t] # "store" /\ pc'[t] # "store"
        /\ \A u \in Thread \ {t} : pc'[u] = pc[u] /\ call'[u] = call[u]
    BY <1>a, <1>1 DEF insert, Goto, Types
  <2>2. call[t] = Idle /\ call' = [call EXCEPT ![t] = Pending("insert", k)]
    BY Zenon, <1>a, <1>1 DEF insert, Goto, CallAtPoint, CallOf
  <2> QED
    BY Zenon, <1>a, <2>1, <2>2, CallNumbers DEF NumberStep, KN!Idle, KN!Pending, Idle, Pending, Done
<1>2. ASSUME NEW t \in Thread, NEW k \in Key, index(t, k)
      PROVE  NumberStep
  <2>1. /\ UNCHANGED tables /\ pc[t] # "store" /\ pc'[t] # "store"
        /\ \A u \in Thread \ {t} : pc'[u] = pc[u] /\ call'[u] = call[u]
    BY <1>a, <1>2 DEF index, Goto, Types
  <2>2. call[t] = Idle /\ call' = [call EXCEPT ![t] = Pending("index", k)]
    BY Zenon, <1>a, <1>2 DEF index, Goto, CallAtPoint, CallOf
  <2> QED
    BY Zenon, <1>a, <2>1, <2>2, CallNumbers DEF NumberStep, KN!Idle, KN!Pending, Idle, Pending, Done
<1>3. ASSUME NEW t \in Thread, enough_reserved(t)
      PROVE  NumberStep
  <2>1. /\ UNCHANGED <<keys, next_index, call>>
        /\ \A u \in Thread : pc'[u] = "store" <=> pc[u] = "store"
    BY SMTT(60), <1>a, <1>3 DEF enough_reserved, Goto, Types, tables
  <2> QED
    BY SMTT(60), <1>a, <2>1, StutterNumbers DEF NumberStep
<1>4. ASSUME NEW t \in Thread, give_up_guard(t)
      PROVE  NumberStep
  <2>1. /\ UNCHANGED <<keys, next_index, call>>
        /\ \A u \in Thread : pc'[u] = "store" <=> pc[u] = "store"
    BY SMTT(60), <1>a, <1>4 DEF give_up_guard, Goto, Types, tables
  <2> QED
    BY <1>a, <2>1, StutterNumbers DEF NumberStep
<1>5. ASSUME NEW t \in Thread, reserve_indices(t)
      PROVE  NumberStep
  <2>1. /\ UNCHANGED <<keys, next_index, call>>
        /\ \A u \in Thread : pc'[u] = "store" <=> pc[u] = "store"
    BY <1>a, <1>5 DEF reserve_indices, Goto, Types, tables
  <2> QED
    BY <1>a, <2>1, StutterNumbers DEF NumberStep
<1>6. ASSUME NEW t \in Thread, grow(t)
      PROVE  NumberStep
  BY SMTT(60), <1>a, <1>6, GrowNumbers DEF NumberStep
<1>7. ASSUME NEW t \in Thread, end_reserve(t)
      PROVE  NumberStep
  <2>1. /\ UNCHANGED <<keys, next_index, call>>
        /\ \A u \in Thread : pc'[u] = "store" <=> pc[u] = "store"
    BY SMTT(60), <1>a, <1>7 DEF end_reserve, Goto, Types, tables
  <2> QED
    BY <1>a, <2>1, StutterNumbers DEF NumberStep
<1>8. ASSUME NEW t \in Thread, relock(t)
      PROVE  NumberStep
  <2>1. /\ UNCHANGED <<keys, next_index, call>>
        /\ \A u \in Thread : pc'[u] = "store" <=> pc[u] = "store"
    BY SMTT(60), <1>a, <1>8 DEF relock, Goto, Types, tables
  <2> QED
    BY <1>a, <2>1, StutterNumbers DEF NumberStep
<1>9. ASSUME NEW t \in Thread, put_in_hashtable(t)
      PROVE  NumberStep
  <2>1. pc[t] = "probe" /\ UNCHANGED <<keys, next_index>>
    BY <1>9 DEF put_in_hashtable, tables
  <2>2. CASE pc' = [pc EXCEPT ![t] = "cas"] /\ UNCHANGED call
    <3>1. \A u \in Thread : pc'[u] = "store" <=> pc[u] = "store"
      BY SMTT(60), <1>a, <2>1, <2>2 DEF Types
    <3> QED
      BY SMTT(60), <1>a, <2>1, <2>2, <3>1, StutterNumbers DEF NumberStep
  <2>3. CASE Examine(t, hashtable[pos[t]])
    BY SMTT(60), <1>a, <2>1, <2>3, ExamineNumbers DEF NumberStep
  <2> QED
    BY SMTT(60), <1>9, <2>2, <2>3 DEF put_in_hashtable
<1>10. ASSUME NEW t \in Thread, compare_exchange(t)
      PROVE  NumberStep
  <2>1. pc[t] = "cas" /\ UNCHANGED <<keys, next_index>>
    BY <1>10 DEF compare_exchange
  <2>2. CASE pc' = [pc EXCEPT ![t] = "fetch"] /\ UNCHANGED call
    <3>1. \A u \in Thread : pc'[u] = "store" <=> pc[u] = "store"
      BY SMTT(60), <1>a, <2>1, <2>2 DEF Types
    <3> QED
      BY SMTT(60), <1>a, <2>1, <2>2, <3>1, StutterNumbers DEF NumberStep
  <2>3. CASE Examine(t, hashtable[pos[t]])
    BY SMTT(60), <1>a, <2>1, <2>3, ExamineNumbers DEF NumberStep
  <2> QED
    BY SMTT(60), <1>10, <2>2, <2>3 DEF compare_exchange
<1>11. ASSUME NEW t \in Thread, fetch_add(t)
      PROVE  NumberStep
  <2>1. pc'[t] = "store"
    BY SMTT(60), <1>a, <1>11 DEF fetch_add, Types
  <2> QED
    BY SMTT(60), <1>a, <1>11, <2>1, DrawNumbers DEF NumberStep
<1>12. ASSUME NEW t \in Thread, store_key(t)
      PROVE  NumberStep
  BY SMTT(60), <1>a, <1>12, StoreNumbers DEF NumberStep
<1>13. ASSUME NEW t \in Thread, publish(t)
      PROVE  NumberStep
  <2>1. /\ UNCHANGED <<keys, next_index, call>>
        /\ \A u \in Thread : pc'[u] = "store" <=> pc[u] = "store"
    BY SMTT(60), <1>a, <1>13 DEF publish, Goto, Types
  <2> QED
    BY <1>a, <2>1, StutterNumbers DEF NumberStep
<1>14. ASSUME NEW t \in Thread, lookup(t)
      PROVE  NumberStep
  BY SMTT(60), <1>a, <1>14, LookupNumbers DEF NumberStep
<1>15. ASSUME NEW t \in Thread, return(t)
      PROVE  NumberStep
  <2>1. /\ UNCHANGED tables /\ pc[t] # "store" /\ pc'[t] # "store"
        /\ \A u \in Thread \ {t} : pc'[u] = pc[u] /\ call'[u] = call[u]
    BY <1>a, <1>15 DEF return, Goto, Types
  <2>2. call[t].op # "none" /\ call[t].done /\ call' = [call EXCEPT ![t] = Idle]
    BY Zenon, <1>a, <1>15 DEF return, Goto, CallAtPoint, CallOf
  <2> QED
    BY ZenonT(60), <1>a, <2>1, <2>2, CallNumbers DEF NumberStep, KN!Idle, KN!Pending, Idle, Pending, Done
<1>16. ASSUME NEW t \in Thread, size(t)
      PROVE  NumberStep
  <2>1. /\ UNCHANGED tables /\ pc[t] # "store" /\ pc'[t] # "store"
        /\ \A u \in Thread \ {t} : pc'[u] = pc[u] /\ call'[u] = call[u]
    BY <1>a, <1>16 DEF size, Goto, Types
  <2>2. call[t] = Idle /\ call' = [call EXCEPT ![t] = Pending("size", npos)]
    BY Zenon, <1>a, <1>16 DEF size, Goto, CallAtPoint, CallOf
  <2> QED
    BY ZenonT(60), <1>a, <2>1, <2>2, CallNumbers DEF NumberStep, KN!Idle, KN!Pending, Idle, Pending, Done
<1>17. ASSUME NEW t \in Thread, read_size(t)
      PROVE  NumberStep
  BY SMTT(60), <1>a, <1>17, ReadSizeNumbers DEF NumberStep
<1>18. ASSUME NEW t \in Thread, operator_at(t)
      PROVE  NumberStep
  <2>1. /\ UNCHANGED <<keys, next_index, call>>
        /\ \A u \in Thread : pc'[u] = "store" <=> pc[u] = "store"
    BY SMTT(60), <1>a, <1>18 DEF operator_at, Goto, Types, tables
  <2> QED
    BY <1>a, <2>1, StutterNumbers DEF NumberStep
<1>19. ASSUME NEW t \in Thread, end_operator_at(t)
      PROVE  NumberStep
  <2>1. /\ UNCHANGED <<keys, next_index, call>>
        /\ \A u \in Thread : pc'[u] = "store" <=> pc[u] = "store"
    BY SMTT(60), <1>a, <1>19 DEF end_operator_at, Goto, Types, tables
  <2> QED
    BY <1>a, <2>1, StutterNumbers DEF NumberStep
<1>20. ASSUME NEW t \in Thread, clear(t)
      PROVE  NumberStep
  <2>1. /\ UNCHANGED tables /\ pc[t] # "store" /\ pc'[t] # "store"
        /\ \A u \in Thread \ {t} : pc'[u] = pc[u] /\ call'[u] = call[u]
    BY <1>a, <1>20 DEF clear, Goto, Types
  <2>2. call[t] = Idle /\ call' = [call EXCEPT ![t] = Pending("clear", npos)]
    BY Zenon, <1>a, <1>20 DEF clear, Goto, CallAtPoint, CallOf
  <2> QED
    BY ZenonT(60), <1>a, <2>1, <2>2, CallNumbers DEF NumberStep, KN!Idle, KN!Pending, Idle, Pending, Done
<1>21. ASSUME NEW t \in Thread, erase(t)
      PROVE  NumberStep
  BY <1>a, <1>21, EraseNumbers DEF NumberStep
<1>22. ASSUME NEW t \in Thread, end_clear(t)
      PROVE  NumberStep
  <2>1. /\ UNCHANGED tables /\ pc[t] # "store" /\ pc'[t] # "store"
        /\ \A u \in Thread \ {t} : pc'[u] = pc[u] /\ call'[u] = call[u]
    BY <1>a, <1>22 DEF end_clear, Goto, Types
  <2>2. call[t] = Done("clear", npos, npos) /\ call' = [call EXCEPT ![t] = Idle]
    BY Zenon, <1>a, <1>22 DEF end_clear, Goto, CallAtPoint, CallOf
  <2>3. call[t].op # "none" /\ call[t].done
    BY <2>2 DEF Done
  <2> QED
    BY ZenonT(60), <1>a, <2>1, <2>2, <2>3, CallNumbers DEF NumberStep, KN!Idle, KN!Pending, Idle, Pending, Done
<1>23. CASE UNCHANGED vars
  <2>1. UNCHANGED <<keys, next_index, call>> /\ \A u \in Thread : pc'[u] = "store" <=> pc[u] = "store"
    BY <1>23 DEF vars, tables
  <2> QED
    BY SMTT(60), <1>a, <2>1, StutterNumbers DEF NumberStep
<1> QED
  BY SMTT(60), <1>1, <1>2, <1>3, <1>4, <1>5, <1>6, <1>7, <1>8, <1>9, <1>10, <1>11, <1>12, <1>13, <1>14, <1>15, <1>16, <1>17, <1>18, <1>19, <1>20, <1>21, <1>22, <1>23 DEF Next, Insert
=============================================================================
