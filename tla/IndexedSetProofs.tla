--------------------------- MODULE IndexedSetProofs ---------------------------
(***************************************************************************)
(* The theorems about IndexedSet, for any number of threads, any set of    *)
(* keys, any hash function and any reservation fraction: IInv and TInv are *)
(* inductive, and with them the indexed_set implements KeyNumbering.       *)
(***************************************************************************)
EXTENDS IndexedSetNumberProofs, FiniteSetTheorems

(***************************************************************************)
(* There are at least as many shared mutexes as threads, and at least one. *)
(***************************************************************************)
LEMMA MutexCount ==
  /\ Cardinality(Thread) \in Nat
  /\ mutexes \in Nat /\ mutexes >= 1 /\ Cardinality(Thread) <= mutexes
BY ThreadAssumption, FS_CardinalityType DEF mutexes

(***************************************************************************)
(* The number of threads that may draw an index, and how it changes when   *)
(* one thread starts or stops to be one of them.                           *)
(***************************************************************************)
LEMMA ClaimCount ==
  ASSUME NEW C \in SUBSET Thread
  PROVE  /\ Cardinality(C) \in Nat /\ Cardinality(C) <= mutexes
         /\ \A t \in Thread :
              /\ t \notin C => Cardinality(C \cup {t}) = Cardinality(C) + 1
              /\ t \in C => Cardinality(C \ {t}) = Cardinality(C) - 1
<1>1. /\ IsFiniteSet(C) /\ Cardinality(C) \in Nat
      /\ Cardinality(C) <= Cardinality(Thread)
  BY ThreadAssumption, FS_Subset, FS_CardinalityType
<1>2. Cardinality(C) <= mutexes
  BY <1>1, MutexCount
<1>3. ASSUME NEW t \in Thread, t \notin C
      PROVE  Cardinality(C \cup {t}) = Cardinality(C) + 1
  BY SMTT(60), <1>1, <1>3, FS_AddElement
<1>4. ASSUME NEW t \in Thread, t \in C
      PROVE  Cardinality(C \ {t}) = Cardinality(C) - 1
  BY ZenonT(60), <1>1, <1>4, FS_RemoveElement
<1> QED
  BY SMTT(60), <1>1, <1>2, <1>3, <1>4

(***************************************************************************)
(* reserve_indices adds at least one entry per mutex to m_keys.            *)
(***************************************************************************)
LEMMA MaxOfTwo ==
  ASSUME NEW a \in Nat, NEW b \in Nat
  PROVE  Max({a, b}) \in Nat /\ Max({a, b}) >= b
<1>1. \E x \in {a, b} : \A y \in {a, b} : x >= y
  OBVIOUS
<1> QED
  BY <1>1 DEF Max

(***************************************************************************)
(* What reserve_indices and insert do to m_keys: append entries, and       *)
(* assign to one of them.                                                  *)
(***************************************************************************)
LEMMA ConstantSequence ==
  ASSUME NEW S, NEW x \in S, NEW n \in Nat
  PROVE  [i \in 1 .. n |-> x] \in Seq(S) /\ Len([i \in 1 .. n |-> x]) = n
<1>1. [i \in 1 .. n |-> x] \in [1 .. n -> S]
  OBVIOUS
<1> QED
  BY <1>1

LEMMA AssignEntry ==
  ASSUME NEW S, NEW s \in Seq(S), NEW i, NEW x \in S
  PROVE  [s EXCEPT ![i] = x] \in Seq(S) /\ Len([s EXCEPT ![i] = x]) = Len(s)
<1>1. Len(s) \in Nat /\ s \in [1 .. Len(s) -> S]
  OBVIOUS
<1>2. [s EXCEPT ![i] = x] \in [1 .. Len(s) -> S]
  BY ZenonT(60), <1>1
<1> QED
  BY <1>1, <1>2

(***************************************************************************)
(* A step that lets no new thread draw an index keeps the invariant.       *)
(***************************************************************************)
LEMMA SameClaims ==
  ASSUME Types, Types', EveryClaimHasAnIndex, next_index' = next_index,
         Len(keys') = Len(keys), Claiming' \subseteq Claiming,
         \A t \in Thread : pc'[t] # "failed"
  PROVE  EveryClaimHasAnIndex'
<1>1. Claiming \in SUBSET Thread /\ Claiming' \in SUBSET Thread
  BY DEF Claiming
<1>2. /\ Cardinality(Claiming) \in Nat /\ Cardinality(Claiming') \in Nat
      /\ IsFiniteSet(Claiming)
  BY SMTT(60), <1>1, ClaimCount, ThreadAssumption, FS_Subset
<1>3. Cardinality(Claiming') <= Cardinality(Claiming)
  BY <1>2, FS_Subset
<1>4. Len(keys) \in Nat
  BY DEF Types
<1> QED
  BY SMTT(60), <1>2, <1>3, <1>4 DEF EveryClaimHasAnIndex, Types

(***************************************************************************)
(* The empty set satisfies the invariant.                                  *)
(***************************************************************************)
LEMMA InitIInv == Init => IInv
<1> SUFFICES ASSUME Init PROVE IInv
  OBVIOUS
<1>1. Types /\ ExclusiveAtPoint /\ ClearsAlone /\ InsertsAKey
  BY ThreadAssumption
  DEF Init, RW!Init, Types, PC, ExclusiveAtPoint, ClearsAlone, InsertsAKey
<1>2. Claiming = {}
  BY DEF Init, Claiming
<1>3. EveryClaimHasAnIndex
  BY SMTT(60), <1>2, FS_EmptySet DEF Init, EveryClaimHasAnIndex
<1> QED
  BY <1>1, <1>3 DEF IInv

(***************************************************************************)
(* Every step of indexed_set preserves the invariant.                      *)
(***************************************************************************)
LEMMA NextIInv == IInv /\ [Next]_vars => IInv'
<1> SUFFICES ASSUME IInv, [Next]_vars PROVE IInv'
  BY SMTT(60)
<1> USE ThreadAssumption, KeyAssumption DEF IInv, Goto, tables, lockvars
<1> DEFINE Control == Types /\ ExclusiveAtPoint /\ ClearsAlone /\ InsertsAKey
<1>n. /\ Claiming \in SUBSET Thread /\ Cardinality(Claiming) \in Nat
      /\ Len(keys) \in Nat /\ next_index \in Nat
  BY ClaimCount DEF Claiming, Types
<1>1. ASSUME NEW t \in Thread, NEW k \in Key, insert(t, k)
      PROVE  Control' /\ EveryClaimHasAnIndex'
  <2>1. Control'
    BY ZenonT(60), <1>1
    DEF insert, Pending, RW!AcquireShared, Types, PC, ExclusiveAtPoint,
        ClearsAlone, InsertsAKey, Key_of
  <2>2. Claiming' \subseteq Claiming /\ \A u \in Thread : pc'[u] # "failed"
    BY <1>1 DEF insert, Types, Claiming, EveryClaimHasAnIndex
  <2> QED
    BY SMTT(60), <1>1, <2>1, <2>2, SameClaims DEF insert
<1>2. ASSUME NEW t \in Thread, NEW k \in Key, index(t, k)
      PROVE  Control' /\ EveryClaimHasAnIndex'
  <2>1. Control'
    BY ZenonT(60), <1>2
    DEF index, Pending, RW!AcquireShared, Types, PC, ExclusiveAtPoint,
        ClearsAlone, InsertsAKey, Key_of
  <2>2. Claiming' \subseteq Claiming /\ \A u \in Thread : pc'[u] # "failed"
    BY <1>2 DEF index, Types, Claiming, EveryClaimHasAnIndex
  <2> QED
    BY <1>2, <2>1, <2>2, SameClaims DEF index
<1>3. ASSUME NEW t \in Thread, enough_reserved(t)
      PROVE  Control' /\ EveryClaimHasAnIndex'
  <2>1. Control'
    BY <1>3
    DEF enough_reserved, Types, PC, ExclusiveAtPoint, ClearsAlone, InsertsAKey,
        Key_of
  <2>2. Claiming' \in SUBSET Thread /\ \A u \in Thread : pc'[u] # "failed"
    BY <1>3 DEF enough_reserved, Types, Claiming, EveryClaimHasAnIndex
  <2>3. Cardinality(Claiming') \in Nat /\ Cardinality(Claiming') <= mutexes
    BY SMTT(60), <2>2, ClaimCount
  <2> QED
    BY <1>3, <1>n, <2>1, <2>2, <2>3, MutexCount
    DEF enough_reserved, MustReserve, EveryClaimHasAnIndex
<1>4. ASSUME NEW t \in Thread, give_up_guard(t)
      PROVE  Control' /\ EveryClaimHasAnIndex'
  <2>1. Control'
    BY <1>4
    DEF give_up_guard, RW!ReleaseShared, Types, PC, ExclusiveAtPoint,
        ClearsAlone, InsertsAKey, Key_of
  <2>2. Claiming' \subseteq Claiming /\ \A u \in Thread : pc'[u] # "failed"
    BY <1>4 DEF give_up_guard, Types, Claiming, EveryClaimHasAnIndex
  <2> QED
    BY SMTT(60), <1>4, <2>1, <2>2, SameClaims DEF give_up_guard
<1>5. ASSUME NEW t \in Thread, reserve_indices(t)
      PROVE  Control' /\ EveryClaimHasAnIndex'
  <2>1. Control'
    BY SMTT(60), <1>5
    DEF reserve_indices, RW!AcquireExclusive, Types, PC, ExclusiveAtPoint,
        ClearsAlone, InsertsAKey, Key_of
  <2>2. Claiming' \subseteq Claiming /\ \A u \in Thread : pc'[u] # "failed"
    BY <1>5 DEF reserve_indices, Types, Claiming, EveryClaimHasAnIndex
  <2> QED
    BY SMTT(60), <1>5, <2>1, <2>2, SameClaims DEF reserve_indices
<1>6. ASSUME NEW t \in Thread, grow(t)
      PROVE  Control' /\ EveryClaimHasAnIndex'
  <2> DEFINE more == Max({Len(keys) \div RESERVATION_FRACTION, mutexes})
  <2>1. Len(keys) \div RESERVATION_FRACTION \in Nat
    BY SMTT(60), <1>n, SizeAssumption
  <2>2. more \in Nat /\ more >= mutexes
    BY SMTT(60), <2>1, MutexCount, MaxOfTwo
  <2>3. [i \in 1 .. more |-> NoKey] \in Seq(Key \cup {NoKey})
        /\ Len([i \in 1 .. more |-> NoKey]) = more
    BY ZenonT(60), <2>2, ConstantSequence
  <2>4. ASSUME MustReserve
        PROVE  /\ keys' \in Seq(Key \cup {NoKey})
               /\ Len(keys') = Len(keys) + more
    <3>1. keys' = keys \o [i \in 1 .. more |-> NoKey]
      BY ZenonT(60), <1>6, <2>4 DEF grow
    <3>2. keys' \in Seq(Key \cup {NoKey}) /\ Len(keys') = Len(keys) + more
      BY SMTT(60), <2>2, <2>3, <3>1 DEF Types
    <3> QED
      BY <3>2
  <2>5. ASSUME ~MustReserve
        PROVE  keys' = keys
    BY SMTT(60), <1>6, <2>5 DEF grow
  <2>6. Types'
    BY SMTT(60), <1>6, <2>4, <2>5 DEF grow, Types, PC
  <2>7. ExclusiveAtPoint' /\ ClearsAlone' /\ InsertsAKey'
    BY SMTT(60), <1>6
    DEF grow, Types, PC, ExclusiveAtPoint, ClearsAlone, InsertsAKey, Key_of
  <2>8. t \notin Claiming /\ Claiming' = Claiming \cup {t}
    BY <1>6 DEF grow, Types, Claiming
  <2>9. /\ Cardinality(Claiming') = Cardinality(Claiming) + 1
        /\ Cardinality(Claiming') <= mutexes
    <3>1. Claiming' \in SUBSET Thread
      BY DEF Claiming
    <3> QED
      BY SMTT(60), <1>n, <2>8, <3>1, ClaimCount
  <2>10. next_index' + Cardinality(Claiming') <= Len(keys')
    <3>1. CASE MustReserve
      BY SMTT(60), <1>6, <1>n, <2>2, <2>4, <2>9, <3>1, MutexCount
      DEF grow, EveryClaimHasAnIndex
    <3>2. CASE ~MustReserve
      BY SMTT(60), <1>6, <1>n, <2>5, <2>9, <3>2, MutexCount DEF grow, MustReserve
    <3> QED
      BY SMTT(60), <3>1, <3>2
  <2>11. \A u \in Thread : pc'[u] # "failed"
    BY <1>6 DEF grow, Types, EveryClaimHasAnIndex
  <2> QED
    BY SMTT(60), <2>6, <2>7, <2>10, <2>11 DEF EveryClaimHasAnIndex
<1>7. ASSUME NEW t \in Thread, end_reserve(t)
      PROVE  Control' /\ EveryClaimHasAnIndex'
  <2>1. Control'
    BY SMTT(60), <1>7
    DEF end_reserve, RW!ReleaseExclusive, Types, PC, ExclusiveAtPoint,
        ClearsAlone, InsertsAKey, Key_of
  <2>2. Claiming' \subseteq Claiming /\ \A u \in Thread : pc'[u] # "failed"
    BY <1>7 DEF end_reserve, Types, Claiming, EveryClaimHasAnIndex
  <2> QED
    BY SMTT(60), <1>7, <2>1, <2>2, SameClaims DEF end_reserve
<1>8. ASSUME NEW t \in Thread, relock(t)
      PROVE  Control' /\ EveryClaimHasAnIndex'
  <2>1. Control'
    BY SMTT(60), <1>8
    DEF relock, RW!AcquireShared, Types, PC, ExclusiveAtPoint, ClearsAlone,
        InsertsAKey, Key_of
  <2>2. Claiming' \subseteq Claiming /\ \A u \in Thread : pc'[u] # "failed"
    BY <1>8 DEF relock, Types, Claiming, EveryClaimHasAnIndex
  <2> QED
    BY SMTT(60), <1>8, <2>1, <2>2, SameClaims DEF relock
<1>9. ASSUME NEW t \in Thread, put_in_hashtable(t)
      PROVE  Control' /\ EveryClaimHasAnIndex'
  <2>1. Control'
    <3>1. Types'
      BY ZenonT(60), <1>9 DEF put_in_hashtable, Examine, Finish, Done, Types, PC
    <3>2. ExclusiveAtPoint' /\ ClearsAlone'
      BY ZenonT(60), <1>9
      DEF put_in_hashtable, Examine, Finish, Done, Types, ExclusiveAtPoint,
          ClearsAlone
    <3>3. InsertsAKey'
      BY ZenonT(60), <1>9
      DEF put_in_hashtable, Examine, Finish, Done, Types, InsertsAKey, Key_of
    <3> QED
      BY SMTT(60), <3>1, <3>2, <3>3
  <2>2. Claiming' \subseteq Claiming /\ \A u \in Thread : pc'[u] # "failed"
    BY <1>9
    DEF put_in_hashtable, Examine, Finish, Types, Claiming, EveryClaimHasAnIndex
  <2> QED
    BY SMTT(60), <1>9, <2>1, <2>2, SameClaims DEF put_in_hashtable
<1>10. ASSUME NEW t \in Thread, compare_exchange(t)
      PROVE  Control' /\ EveryClaimHasAnIndex'
  <2>1. Control'
    <3>1. Types'
      BY ZenonT(60), <1>10 DEF compare_exchange, Examine, Finish, Done, Types, PC
    <3>2. ExclusiveAtPoint' /\ ClearsAlone'
      BY ZenonT(60), <1>10
      DEF compare_exchange, Examine, Finish, Done, Types, ExclusiveAtPoint,
          ClearsAlone
    <3>3. InsertsAKey'
      BY ZenonT(60), <1>10
      DEF compare_exchange, Examine, Finish, Done, Types, InsertsAKey, Key_of
    <3> QED
      BY <3>1, <3>2, <3>3
  <2>2. Claiming' \subseteq Claiming /\ \A u \in Thread : pc'[u] # "failed"
    BY SMTT(60), <1>10
    DEF compare_exchange, Examine, Finish, Types, Claiming, EveryClaimHasAnIndex
  <2> QED
    BY SMTT(60), <1>10, <2>1, <2>2, SameClaims DEF compare_exchange
<1>11. ASSUME NEW t \in Thread, fetch_add(t)
      PROVE  Control' /\ EveryClaimHasAnIndex'
  <2>1. t \in Claiming /\ Claiming' = Claiming \ {t}
    BY <1>11 DEF fetch_add, Types, Claiming
  <2>2. Cardinality(Claiming') = Cardinality(Claiming) - 1
    BY SMTT(60), <1>n, <2>1, ClaimCount
  <2>3. Cardinality(Claiming') \in Nat
    <3>1. Claiming' \in SUBSET Thread
      BY DEF Claiming
    <3> QED
      BY SMTT(60), <3>1, ClaimCount
  <2>4. next_index < Len(keys)
    BY SMTT(60), <1>n, <2>2, <2>3 DEF EveryClaimHasAnIndex
  <2>5. Control'
    <3>1. Types'
      <4>1. pc' \in [Thread -> PC]
        BY SMTT(60), <1>11, <2>4 DEF fetch_add, Types, PC
      <4>2. call' = [u \in Thread |-> call'[u]]
        BY ZenonT(60), <1>11 DEF fetch_add, Types
      <4>3. next_index' \in Nat /\ keys' \in Seq(Key \cup {NoKey})
        BY SMTT(60), <1>11 DEF fetch_add, Types
      <4> QED
        BY SMTT(60), <4>1, <4>2, <4>3 DEF Types
    <3>2. ExclusiveAtPoint' /\ ClearsAlone'
      BY SMTT(60), <1>11 DEF fetch_add, Done, Types, ExclusiveAtPoint, ClearsAlone
    <3>3. InsertsAKey'
      BY <1>11 DEF fetch_add, Done, Types, InsertsAKey, Key_of
    <3> QED
      BY <3>1, <3>2, <3>3
  <2>6. \A u \in Thread : pc'[u] # "failed"
    BY SMTT(60), <1>11, <2>4 DEF fetch_add, Types, EveryClaimHasAnIndex
  <2> QED
    BY SMTT(60), <1>11, <1>n, <2>2, <2>3, <2>5, <2>6 DEF fetch_add, EveryClaimHasAnIndex
<1>12. ASSUME NEW t \in Thread, store_key(t)
      PROVE  Control' /\ EveryClaimHasAnIndex'
  <2>1. Control'
    <3>1. Types'
      <4>1. pc' \in [Thread -> PC]
        BY <1>12 DEF store_key, Types, PC
      <4>2. Key_of(t) \in Key \cup {NoKey}
        BY <1>12 DEF store_key, InsertsAKey
      <4>3. keys' \in Seq(Key \cup {NoKey})
        BY ZenonT(60), <1>12, <4>2, AssignEntry DEF store_key, Types
      <4>4. call' = [u \in Thread |-> call'[u]] /\ next_index' \in Nat
        BY <1>12 DEF store_key, Types
      <4> QED
        BY SMTT(60), <4>1, <4>2, <4>3, <4>4 DEF Types
    <3>2. ExclusiveAtPoint' /\ ClearsAlone'
      BY <1>12 DEF store_key, Types, ExclusiveAtPoint, ClearsAlone
    <3>3. InsertsAKey'
      BY <1>12 DEF store_key, Types, InsertsAKey, Key_of
    <3> QED
      BY <3>1, <3>2, <3>3
  <2>2. Claiming' \subseteq Claiming /\ \A u \in Thread : pc'[u] # "failed"
    BY SMTT(60), <1>12 DEF store_key, Types, Claiming, EveryClaimHasAnIndex
  <2>3. Len(keys') = Len(keys)
    BY SMTT(60), <1>12 DEF store_key, Types, InsertsAKey
  <2> QED
    BY SMTT(60), <1>12, <2>1, <2>2, <2>3, SameClaims DEF store_key
<1>13. ASSUME NEW t \in Thread, publish(t)
      PROVE  Control' /\ EveryClaimHasAnIndex'
  <2>1. Control'
    BY SMTT(60), <1>13
    DEF publish, Types, PC, ExclusiveAtPoint, ClearsAlone, InsertsAKey, Key_of
  <2>2. Claiming' \subseteq Claiming /\ \A u \in Thread : pc'[u] # "failed"
    BY SMTT(60), <1>13 DEF publish, Types, Claiming, EveryClaimHasAnIndex
  <2> QED
    BY SMTT(60), <1>13, <2>1, <2>2, SameClaims DEF publish
<1>14. ASSUME NEW t \in Thread, lookup(t)
      PROVE  Control' /\ EveryClaimHasAnIndex'
  <2>1. Control'
    BY SMTT(60), <1>14
    DEF lookup, Finish, Types, PC, ExclusiveAtPoint, ClearsAlone, InsertsAKey,
        Key_of
  <2>2. Claiming' \subseteq Claiming /\ \A u \in Thread : pc'[u] # "failed"
    BY SMTT(60), <1>14 DEF lookup, Finish, Types, Claiming, EveryClaimHasAnIndex
  <2> QED
    BY SMTT(60), <1>14, <2>1, <2>2, SameClaims DEF lookup
<1>15. ASSUME NEW t \in Thread, return(t)
      PROVE  Control' /\ EveryClaimHasAnIndex'
  <2>1. Control'
    BY ZenonT(60), <1>15
    DEF return, RW!ReleaseShared, Types, PC, ExclusiveAtPoint, ClearsAlone,
        InsertsAKey, Key_of
  <2>2. Claiming' \subseteq Claiming /\ \A u \in Thread : pc'[u] # "failed"
    BY <1>15 DEF return, Types, Claiming, EveryClaimHasAnIndex
  <2> QED
    BY SMTT(60), <1>15, <2>1, <2>2, SameClaims DEF return
<1>16. ASSUME NEW t \in Thread, size(t)
      PROVE  Control' /\ EveryClaimHasAnIndex'
  <2>1. Control'
    BY ZenonT(60), <1>16
    DEF size, Pending, RW!AcquireShared, Types, PC, ExclusiveAtPoint,
        ClearsAlone, InsertsAKey, Key_of
  <2>2. Claiming' \subseteq Claiming /\ \A u \in Thread : pc'[u] # "failed"
    BY <1>16 DEF size, Pending, Types, Claiming, EveryClaimHasAnIndex
  <2> QED
    BY SMTT(60), <1>16, <2>1, <2>2, SameClaims DEF size
<1>17. ASSUME NEW t \in Thread, read_size(t)
      PROVE  Control' /\ EveryClaimHasAnIndex'
  <2>1. Control'
    BY ZenonT(60), <1>17
    DEF read_size, Finish, Types, PC, ExclusiveAtPoint, ClearsAlone,
        InsertsAKey, Key_of
  <2>2. Claiming' \subseteq Claiming /\ \A u \in Thread : pc'[u] # "failed"
    BY SMTT(60), <1>17 DEF read_size, Finish, Types, Claiming, EveryClaimHasAnIndex
  <2> QED
    BY SMTT(60), <1>17, <2>1, <2>2, SameClaims DEF read_size
<1>18. ASSUME NEW t \in Thread, operator_at(t)
      PROVE  Control' /\ EveryClaimHasAnIndex'
  <2>1. Control'
    BY SMTT(60), <1>18
    DEF operator_at, Types, PC, ExclusiveAtPoint, ClearsAlone, InsertsAKey,
        Key_of
  <2>2. Claiming' \subseteq Claiming /\ \A u \in Thread : pc'[u] # "failed"
    BY SMTT(60), <1>18 DEF operator_at, Types, Claiming, EveryClaimHasAnIndex
  <2> QED
    BY SMTT(60), <1>18, <2>1, <2>2, SameClaims DEF operator_at
<1>19. ASSUME NEW t \in Thread, end_operator_at(t)
      PROVE  Control' /\ EveryClaimHasAnIndex'
  <2>1. Control'
    BY SMTT(60), <1>19
    DEF end_operator_at, Types, PC, ExclusiveAtPoint, ClearsAlone, InsertsAKey,
        Key_of
  <2>2. Claiming' \subseteq Claiming /\ \A u \in Thread : pc'[u] # "failed"
    BY SMTT(60), <1>19 DEF end_operator_at, Types, Claiming, EveryClaimHasAnIndex
  <2> QED
    BY SMTT(60), <1>19, <2>1, <2>2, SameClaims DEF end_operator_at
<1>20. ASSUME NEW t \in Thread, clear(t)
      PROVE  Control' /\ EveryClaimHasAnIndex'
  <2>1. Control'
    BY ZenonT(60), <1>20
    DEF clear, Pending, RW!AcquireExclusive, Types, PC, ExclusiveAtPoint,
        ClearsAlone, InsertsAKey, Key_of
  <2>2. Claiming' \subseteq Claiming /\ \A u \in Thread : pc'[u] # "failed"
    BY SMTT(60), <1>20 DEF clear, Pending, Types, Claiming, EveryClaimHasAnIndex
  <2> QED
    BY SMTT(60), <1>20, <2>1, <2>2, SameClaims DEF clear
<1>21. ASSUME NEW t \in Thread, erase(t)
      PROVE  Control' /\ EveryClaimHasAnIndex'
  <2>1. Control'
    <3>1. Types'
      <4>1. pc' \in [Thread -> PC]
        BY SMTT(60), <1>21 DEF erase, Types, PC
      <4>2. call' = [u \in Thread |-> call'[u]]
        BY ZenonT(60), <1>21 DEF erase, Types
      <4>3. next_index' \in Nat /\ keys' \in Seq(Key \cup {NoKey})
        BY SMTT(60), <1>21 DEF erase
      <4> QED
        BY <4>1, <4>2, <4>3 DEF Types
    <3>2. ExclusiveAtPoint' /\ ClearsAlone'
      BY SMTT(60), <1>21 DEF erase, Done, Types, ExclusiveAtPoint, ClearsAlone
    <3>3. InsertsAKey'
      BY SMTT(60), <1>21 DEF erase, Done, Types, InsertsAKey, Key_of
    <3> QED
      BY <3>1, <3>2, <3>3
  <2>2. Claiming' = {}
    BY SMTT(60), <1>21 DEF erase, Types, ClearsAlone, Claiming
  <2>3. \A u \in Thread : pc'[u] # "failed"
    BY SMTT(60), <1>21 DEF erase, Types, EveryClaimHasAnIndex
  <2> QED
    BY SMTT(60), <1>21, <2>1, <2>2, <2>3, FS_EmptySet DEF erase, EveryClaimHasAnIndex
<1>22. ASSUME NEW t \in Thread, end_clear(t)
      PROVE  Control' /\ EveryClaimHasAnIndex'
  <2>1. Control'
    BY ZenonT(60), <1>22
    DEF end_clear, RW!ReleaseExclusive, Types, PC, ExclusiveAtPoint,
        ClearsAlone, InsertsAKey, Key_of
  <2>2. Claiming' \subseteq Claiming /\ \A u \in Thread : pc'[u] # "failed"
    BY <1>22 DEF end_clear, Types, Claiming, EveryClaimHasAnIndex
  <2> QED
    BY SMTT(60), <1>22, <2>1, <2>2, SameClaims DEF end_clear
<1>23. ASSUME UNCHANGED vars
      PROVE  Control' /\ EveryClaimHasAnIndex'
  BY <1>23
  DEF vars, Types, PC, ExclusiveAtPoint, ClearsAlone, InsertsAKey, Key_of,
      EveryClaimHasAnIndex, Claiming
<1>24. ASSUME NEW t \in Thread, Insert(t)
      PROVE  Control' /\ EveryClaimHasAnIndex'
  BY ONLY SMTT(60), <1>3, <1>4, <1>5, <1>6, <1>7, <1>8, <1>9, <1>10, <1>11, <1>12, <1>13, <1>24 DEF Insert
<1>25. ASSUME NEW t \in Thread,
             \/ lookup(t) \/ return(t) \/ size(t) \/ read_size(t) \/ operator_at(t)
             \/ end_operator_at(t) \/ clear(t) \/ erase(t) \/ end_clear(t)
      PROVE  Control' /\ EveryClaimHasAnIndex'
  BY ONLY SMTT(60), <1>14, <1>15, <1>16, <1>17, <1>18, <1>19, <1>20, <1>21, <1>22, <1>25
<1>26. Control' /\ EveryClaimHasAnIndex'
  BY ONLY SMTT(60), [Next]_vars, <1>1, <1>2, <1>23, <1>24, <1>25 DEF Next
<1> QED
  BY ONLY <1>26 DEF IInv

(***************************************************************************)
(* The assertions new_index < m_keys.size() and m_next_index <=            *)
(* m_keys.size() of insert hold for any number of threads, although the    *)
(* reservation is not checked again after the shared lock was given up.    *)
(***************************************************************************)
THEOREM ClaimsHaveIndices == Spec => []EveryClaimHasAnIndex
<1>1. Spec => []IInv
  BY InitIInv, NextIInv, PTL DEF Spec
<1>2. IInv => EveryClaimHasAnIndex
  BY DEF IInv
<1> QED
  BY <1>1, <1>2, PTL

(***************************************************************************)
(* m_keys has room for the numbered keys.                                  *)
(***************************************************************************)
LEMMA KeysReserved ==
  ASSUME IInv
  PROVE  next_index \in Nat /\ Len(keys) \in Nat /\ next_index <= Len(keys)
<1>1. Claiming \in SUBSET Thread
  BY DEF Claiming
<1>2. Cardinality(Claiming) \in Nat
  BY <1>1, ClaimCount
<1> QED
  BY <1>2 DEF IInv, Types, EveryClaimHasAnIndex

(***************************************************************************)
(* The number of positions of a table.                                     *)
(***************************************************************************)
LEMMA IntervalSize ==
  ASSUME NEW m \in Nat
  PROVE  IsFiniteSet(0 .. m - 1) /\ Cardinality(0 .. m - 1) = m
<1>1. 0 \in Int /\ m - 1 \in Int
  OBVIOUS
<1>2. /\ IsFiniteSet(0 .. m - 1)
      /\ Cardinality(0 .. m - 1) = IF 0 > m - 1 THEN 0 ELSE m - 1 - 0 + 1
  BY ZenonT(60), <1>1, FS_Interval
<1> QED
  BY <1>2

(***************************************************************************)
(* The number of entries in use changes with the number of indices drawn   *)
(* and of threads about to draw one.                                       *)
(***************************************************************************)
Steady ==
  /\ next_index' = next_index /\ Len(keys') = Len(keys) /\ TableSize' = TableSize
  /\ InUse' = InUse /\ Fetching' = Fetching

LEMMA SteadyEntries ==
  ASSUME EntriesInUse, Steady
  PROVE  EntriesInUse'
BY Zenon DEF EntriesInUse, Steady

LEMMA LocalSteady ==
  ASSUME Types, NEW t \in Thread, UNCHANGED tables, pc[t] # "fetch", pc'[t] # "fetch",
         \A u \in Thread \ {t} : pc'[u] = pc[u]
  PROVE  Steady
BY DEF Steady, tables, TableSize, InUse, Fetching

LEMMA InUseFinite ==
  ASSUME TableShape
  PROVE  /\ IsFiniteSet(InUse) /\ IsFiniteSet(Fetching)
         /\ Cardinality(InUse) \in Nat /\ Cardinality(Fetching) \in Nat
<1>1. /\ InUse \subseteq 0 .. TableSize - 1 /\ Fetching \subseteq Thread
      /\ IsFiniteSet(0 .. TableSize - 1) /\ IsFiniteSet(Thread)
  BY Zenon, IntervalSize, ThreadAssumption DEF TableShape, InUse, Fetching
<1>2. IsFiniteSet(InUse) /\ IsFiniteSet(Fetching)
  BY ZenonT(60), <1>1, FS_Subset
<1> QED
  BY SMTT(60), <1>2, FS_CardinalityType

LEMMA ClaimEntries ==
  ASSUME IInv, TInv, NEW t \in Thread, pc[t] = "cas", hashtable[pos[t]] = EMPTY,
         hashtable' = [hashtable EXCEPT ![pos[t]] = RESERVED],
         pc' = [pc EXCEPT ![t] = "fetch"], UNCHANGED <<keys, next_index>>
  PROVE  EntriesInUse'
<1>1. /\ InUse' = InUse \cup {pos[t]} /\ pos[t] \notin InUse
      /\ Fetching' = Fetching \cup {t} /\ t \notin Fetching
  BY SMTT(60), SpecialAssumption DEF IInv, TInv, Types, TableShape, InUse, Fetching
<1>2. /\ IsFiniteSet(InUse) /\ IsFiniteSet(Fetching)
      /\ Cardinality(InUse) \in Nat /\ Cardinality(Fetching) \in Nat
  BY InUseFinite DEF TInv
<1>3. /\ Cardinality(InUse') = Cardinality(InUse) + 1
      /\ Cardinality(Fetching') = Cardinality(Fetching) + 1
  BY ZenonT(60), <1>1, <1>2, FS_AddElement
<1>4. TableSize' = TableSize
  BY DEF TableSize
<1> QED
  BY <1>2, <1>3, <1>4 DEF IInv, TInv, EntriesInUse, Types

LEMMA DrawEntries ==
  ASSUME IInv, TInv, NEW t \in Thread, fetch_add(t), pc'[t] # "failed"
  PROVE  EntriesInUse'
<1>1. /\ pc[t] = "fetch" /\ pc' = [pc EXCEPT ![t] = "store"] /\ next_index' = next_index + 1
      /\ UNCHANGED <<hashtable, keys>> /\ TableSize' = TableSize
  BY Zenon DEF fetch_add, IInv, Types, TableSize
<1>2. InUse' = InUse /\ Fetching' = Fetching \ {t} /\ t \in Fetching
  BY <1>1 DEF IInv, Types, InUse, Fetching
<1>3. IsFiniteSet(Fetching) /\ Cardinality(InUse) \in Nat /\ Cardinality(Fetching) \in Nat
  BY InUseFinite DEF TInv
<1>4. Cardinality(Fetching') = Cardinality(Fetching) - 1
  BY SMTT(60), <1>2, <1>3, FS_RemoveElement
<1> QED
  BY <1>1, <1>2, <1>3, <1>4 DEF IInv, TInv, EntriesInUse, Types

LEMMA EraseEntries ==
  ASSUME IInv, TInv, NEW t \in Thread, erase(t)
  PROVE  EntriesInUse'
<1>1. /\ hashtable' = [p \in DOMAIN hashtable |-> EMPTY] /\ keys' = <<>> /\ next_index' = 0
      /\ \A u \in Thread : pc'[u] # "fetch"
  BY DEF erase, Goto, IInv, ClearsAlone, Types
<1>2. InUse' = {} /\ Fetching' = {} /\ TableSize' = TableSize
  BY <1>1 DEF InUse, Fetching, TableSize
<1> QED
  BY <1>1, <1>2, FS_EmptySet DEF EntriesInUse, TInv, TableShape

LEMMA NextEntries ==
  ASSUME IInv, TInv, [Next]_vars, \A u \in Thread : pc'[u] # "failed",
         \A u \in Thread : grow(u) => EntriesInUse',
         \A u \in Thread : pc[u] \in Drawn => DrawnIndex(u) \in Nat /\ Key_of(u) \in Key
  PROVE  EntriesInUse'
<1>a. Types /\ TableShape /\ ClaimsAtPositions /\ EntriesInUse
  BY DEF IInv, TInv
<1>1. ASSUME NEW t \in Thread, NEW k \in Key, insert(t, k)
      PROVE  EntriesInUse'
  <2>1. Steady
    BY SMTT(60), <1>a, <1>1, LocalSteady DEF insert, Goto, Types, tables
  <2> QED
    BY SMTT(60), <1>a, <2>1, SteadyEntries
<1>2. ASSUME NEW t \in Thread, NEW k \in Key, index(t, k)
      PROVE  EntriesInUse'
  <2>1. Steady
    BY SMTT(60), <1>a, <1>2, LocalSteady DEF index, Goto, Types, tables
  <2> QED
    BY <1>a, <2>1, SteadyEntries
<1>3. ASSUME NEW t \in Thread, enough_reserved(t)
      PROVE  EntriesInUse'
  <2>1. Steady
    BY SMTT(60), <1>a, <1>3, LocalSteady DEF enough_reserved, Goto, Types, tables
  <2> QED
    BY SMTT(60), <1>a, <2>1, SteadyEntries
<1>4. ASSUME NEW t \in Thread, give_up_guard(t)
      PROVE  EntriesInUse'
  <2>1. Steady
    BY SMTT(60), <1>a, <1>4, LocalSteady DEF give_up_guard, Goto, Types, tables
  <2> QED
    BY <1>a, <2>1, SteadyEntries
<1>5. ASSUME NEW t \in Thread, reserve_indices(t)
      PROVE  EntriesInUse'
  <2>1. Steady
    BY SMTT(60), <1>a, <1>5, LocalSteady DEF reserve_indices, Goto, Types, tables
  <2> QED
    BY <1>a, <2>1, SteadyEntries
<1>6. ASSUME NEW t \in Thread, grow(t)
      PROVE  EntriesInUse'
  BY SMTT(60), <1>6
<1>7. ASSUME NEW t \in Thread, end_reserve(t)
      PROVE  EntriesInUse'
  <2>1. Steady
    BY SMTT(60), <1>a, <1>7, LocalSteady DEF end_reserve, Goto, Types, tables
  <2> QED
    BY <1>a, <2>1, SteadyEntries
<1>8. ASSUME NEW t \in Thread, relock(t)
      PROVE  EntriesInUse'
  <2>1. Steady
    BY SMTT(60), <1>a, <1>8, LocalSteady DEF relock, Goto, Types, tables
  <2> QED
    BY <1>a, <2>1, SteadyEntries
<1>9. ASSUME NEW t \in Thread, put_in_hashtable(t)
      PROVE  EntriesInUse'
  <2>1. Steady
    BY SMTT(60), <1>a, <1>9, LocalSteady DEF put_in_hashtable, Examine, Goto, Types, tables
  <2> QED
    BY <1>a, <2>1, SteadyEntries
<1>10. ASSUME NEW t \in Thread, compare_exchange(t)
      PROVE  EntriesInUse'
  <2>1. CASE /\ hashtable[pos[t]] = EMPTY /\ hashtable' = [hashtable EXCEPT ![pos[t]] = RESERVED]
             /\ pc' = [pc EXCEPT ![t] = "fetch"]
    BY Zenon, <1>10, <2>1, ClaimEntries DEF compare_exchange
  <2>2. CASE UNCHANGED hashtable /\ Examine(t, hashtable[pos[t]])
    <3>1. Steady
      BY SMTT(60), <1>a, <1>10, <2>2, LocalSteady DEF compare_exchange, Examine, Types, tables
    <3> QED
      BY <1>a, <3>1, SteadyEntries
  <2> QED
    BY SMTT(60), <1>10, <2>1, <2>2 DEF compare_exchange
<1>11. ASSUME NEW t \in Thread, fetch_add(t)
      PROVE  EntriesInUse'
  BY SMTT(60), <1>11, DrawEntries
<1>12. ASSUME NEW t \in Thread, store_key(t)
      PROVE  EntriesInUse'
  <2>1. Len(keys') = Len(keys)
    <3>1. pc[t] \in Drawn /\ keys' = [keys EXCEPT ![DrawnIndex(t) + 1] = Key_of(t)]
      BY <1>12 DEF store_key, Goto, Drawn, DrawnIndex
    <3>2. Key_of(t) \in Key
      BY <1>a, <3>1
    <3> QED
      BY <1>a, <3>1, <3>2, AssignEntry DEF Types
  <2>2. Steady
    BY <1>a, <1>12, <2>1 DEF store_key, Goto, Types, Steady, TableSize, InUse, Fetching
  <2> QED
    BY <1>a, <2>2, SteadyEntries
<1>13. ASSUME NEW t \in Thread, publish(t)
      PROVE  EntriesInUse'
  <2>1. DrawnIndex(t) \in Nat /\ hashtable[pos[t]] = RESERVED
    <3>1. pc[t] \in Drawn /\ pc[t] \in Holding
      BY <1>13 DEF publish, Goto, Drawn, Holding
    <3> QED
      BY <1>a, <3>1 DEF ClaimsAtPositions
  <2>2. InUse' = InUse
    BY <1>a, <1>13, <2>1, SpecialAssumption DEF publish, DrawnIndex, InUse, TableShape
  <2>3. Steady
    BY <1>a, <1>13, <2>2 DEF publish, Goto, Types, Steady, TableSize, Fetching
  <2> QED
    BY <1>a, <2>3, SteadyEntries
<1>14. ASSUME NEW t \in Thread, lookup(t)
      PROVE  EntriesInUse'
  <2>1. Steady
    BY <1>a, <1>14, LocalSteady DEF lookup, Goto, Types, tables
  <2> QED
    BY <1>a, <2>1, SteadyEntries
<1>15. ASSUME NEW t \in Thread, return(t)
      PROVE  EntriesInUse'
  <2>1. Steady
    BY <1>a, <1>15, LocalSteady DEF return, Goto, Types, tables
  <2> QED
    BY <1>a, <2>1, SteadyEntries
<1>16. ASSUME NEW t \in Thread, size(t)
      PROVE  EntriesInUse'
  <2>1. Steady
    BY SMTT(60), <1>a, <1>16, LocalSteady DEF size, Goto, Types, tables
  <2> QED
    BY <1>a, <2>1, SteadyEntries
<1>17. ASSUME NEW t \in Thread, read_size(t)
      PROVE  EntriesInUse'
  <2>1. Steady
    BY SMTT(60), <1>a, <1>17, LocalSteady DEF read_size, Goto, Types, tables
  <2> QED
    BY <1>a, <2>1, SteadyEntries
<1>18. ASSUME NEW t \in Thread, operator_at(t)
      PROVE  EntriesInUse'
  <2>1. Steady
    BY SMTT(60), <1>a, <1>18, LocalSteady DEF operator_at, Goto, Types, tables
  <2> QED
    BY <1>a, <2>1, SteadyEntries
<1>19. ASSUME NEW t \in Thread, end_operator_at(t)
      PROVE  EntriesInUse'
  <2>1. Steady
    BY SMTT(60), <1>a, <1>19, LocalSteady DEF end_operator_at, Goto, Types, tables
  <2> QED
    BY <1>a, <2>1, SteadyEntries
<1>20. ASSUME NEW t \in Thread, clear(t)
      PROVE  EntriesInUse'
  <2>1. Steady
    BY SMTT(60), <1>a, <1>20, LocalSteady DEF clear, Goto, Types, tables
  <2> QED
    BY <1>a, <2>1, SteadyEntries
<1>21. ASSUME NEW t \in Thread, erase(t)
      PROVE  EntriesInUse'
  BY <1>21, EraseEntries
<1>22. ASSUME NEW t \in Thread, end_clear(t)
      PROVE  EntriesInUse'
  <2>1. Steady
    BY SMTT(60), <1>a, <1>22, LocalSteady DEF end_clear, Goto, Types, tables
  <2> QED
    BY <1>a, <2>1, SteadyEntries
<1>23. CASE UNCHANGED vars
  BY SMTT(60), <1>a, <1>23 DEF vars, tables, EntriesInUse, InUse, Fetching, TableSize
<1> QED
  BY ZenonT(60), <1>1, <1>2, <1>3, <1>4, <1>5, <1>6, <1>7, <1>8, <1>9, <1>10, <1>11, <1>12, <1>13, <1>14, <1>15, <1>16, <1>17, <1>18, <1>19, <1>20, <1>21, <1>22, <1>23 DEF Next, Insert

-----------------------------------------------------------------------------
(***************************************************************************)
(* The table that resize builds, and the whole invariant.                  *)
(***************************************************************************)
LEMMA FillOne ==
  ASSUME NEW m \in Nat \ {0}, NEW i \in Nat, i < m, NEW table, NEW ks,
         FilledWith(table, ks, i, m), ks[i + 1] \in Key
  PROVE  FilledWith([table EXCEPT ![FreePosition(table, m, ks[i + 1])] = i], ks, i + 1, m)
<1> DEFINE f == FreePosition(table, m, ks[i + 1])
           used == {p \in 0 .. m - 1 : table[p] # EMPTY}
           filled == [table EXCEPT ![f] = i]
<1>1. IsFiniteSet(used) /\ IsFiniteSet(0 .. m - 1) /\ Cardinality(0 .. m - 1) = m
  <2>1. IsFiniteSet(0 .. m - 1) /\ Cardinality(0 .. m - 1) = m
    BY IntervalSize
  <2> QED
    BY SMTT(60), <2>1, FS_Subset
<1>2. \E p \in 0 .. m - 1 : table[p] = EMPTY
  <2>1. ASSUME \A p \in 0 .. m - 1 : table[p] # EMPTY PROVE FALSE
    <3>1. used = 0 .. m - 1 /\ Cardinality(used) = i
      BY SMTT(60), <2>1 DEF FilledWith
    <3> HIDE DEF used
    <3> QED
      BY SMTT(60), <1>1, <3>1
  <2> QED
    BY <2>1
<1>3. /\ f \in 0 .. m - 1 /\ table[f] = EMPTY
      /\ \A q \in Path(m, HashPos(ks[i + 1], m), f) \ {f} : table[q] # EMPTY
  BY SMTT(60), <1>2, FirstFree
<1> HIDE DEF f
<1>4. /\ DOMAIN table = 0 .. m - 1 /\ EMPTY \notin Nat
      /\ \A p \in 0 .. m - 1 : table[p] = EMPTY \/ table[p] \in 0 .. i - 1
  BY SpecialAssumption DEF FilledWith
<1>5. filled = [p \in 0 .. m - 1 |-> IF p = f THEN i ELSE table[p]]
  BY ZenonT(60), <1>3, <1>4
<1> HIDE DEF filled
<1>6. filled \in [0 .. m - 1 -> (0 .. i + 1 - 1) \cup {EMPTY}]
  BY SMTT(60), <1>3, <1>4, <1>5
<1>7. \A p, q \in 0 .. m - 1 : filled[p] # EMPTY /\ filled[p] = filled[q] => p = q
  BY SMTT(60), <1>3, <1>4, <1>5 DEF FilledWith
<1>8. \A j \in 0 .. i + 1 - 1 : \E p \in 0 .. m - 1 : filled[p] = j
  BY SMTT(60), <1>3, <1>4, <1>5 DEF FilledWith
<1>9. ASSUME NEW p \in 0 .. m - 1, filled[p] # EMPTY,
             NEW q \in Path(m, HashPos(ks[filled[p] + 1], m), p)
      PROVE  filled[q] # EMPTY
  <2>1. q \in 0 .. m - 1
    BY DEF Path
  <2>2. CASE p = f
    BY SMTT(60), <1>3, <1>4, <1>5, <2>1, <2>2
  <2>3. CASE p # f
    BY SMTT(60), <1>3, <1>4, <1>5, <1>9, <2>1, <2>3 DEF FilledWith
  <2> QED
    BY SMTT(60), <2>2, <2>3
<1>10. Cardinality({p \in 0 .. m - 1 : filled[p] # EMPTY}) = i + 1
  <2>1. {p \in 0 .. m - 1 : filled[p] # EMPTY} = used \cup {f} /\ f \notin used
    BY SMTT(60), <1>3, <1>4, <1>5
  <2>2. Cardinality(used) = i
    BY DEF FilledWith
  <2> HIDE DEF used
  <2> QED
    BY ZenonT(60), <1>1, <2>1, <2>2, FS_AddElement
<1> QED
  BY SMTT(60), <1>6, <1>7, <1>8, <1>9, <1>10 DEF FilledWith, filled, f

(***************************************************************************)
(* resize_hashtable makes a table that is filled with the keys.            *)
(***************************************************************************)
LEMMA ResizeFills ==
  ASSUME NEW m \in Nat \ {0}, NEW n \in Nat, n <= m, NEW ks,
         \A i \in 1 .. n : ks[i] \in Key
  PROVE  FilledWith(resize_hashtable(ks, n, m), ks, n, m)
<1> DEFINE
      S == [0 .. m - 1 -> Nat \cup {EMPTY}]
      none == [p \in 0 .. m - 1 |-> EMPTY]
      put(table, i) == [table EXCEPT ![FreePosition(table, m, ks[i])] = i - 1]
      filled == CHOOSE g : g = [i \in 0 .. n |-> IF i = 0 THEN none ELSE put(g[i - 1], i)]
<1>1. filled = [i \in 0 .. n |-> IF i = 0 THEN none ELSE put(filled[i - 1], i)]
  <2> DEFINE step == [i \in 1 .. n |-> [table \in S |-> put(table, i)]]
  <2>1. ASSUME NEW i \in 1 .. n, NEW table \in S
        PROVE  put(table, i) \in S
    <3>1. i - 1 \in Nat \cup {EMPTY}
      OBVIOUS
    <3> QED
      BY ZenonT(60), <3>1
  <2>2. step \in [1 .. n -> [S -> S]] /\ none \in S
    <3> HIDE DEF S, put
    <3>1. step \in [1 .. n -> [S -> S]]
      BY ZenonT(60), <2>1
    <3> QED
      BY <3>1 DEF S
  <2>3. PICK g : Follows(g, n, S, none, step)
    <3> HIDE DEF step, S, none
    <3> QED
      BY ZenonT(60), <2>2, Recursion
  <2>4. ASSUME NEW i \in 1 .. n PROVE g[i] = put(g[i - 1], i)
    <3> HIDE DEF S, put, none
    <3>1. g[i - 1] \in S
      BY <2>3 DEF Follows
    <3> QED
      BY ZenonT(60), <2>3, <3>1 DEF Follows
  <2>5. g = [i \in 0 .. n |-> IF i = 0 THEN none ELSE put(g[i - 1], i)]
    <3> HIDE DEF S, put, none
    <3> QED
      BY SMTT(60), <2>3, <2>4 DEF Follows
  <2> QED
    BY ZenonT(60), <2>5
<1>2. resize_hashtable(ks, n, m) = filled[n]
  BY Zenon DEF resize_hashtable
<1> HIDE DEF filled
<1>3. \A i \in 0 .. n : FilledWith(filled[i], ks, i, m)
  <2> DEFINE T == {i \in 0 .. n : ~FilledWith(filled[i], ks, i, m)}
  <2>1. ASSUME NEW i \in T, \A y \in T : i <= y
        PROVE  FALSE
    <3>1. CASE i = 0
      <4>1. filled[i] = none
        BY SMTT(60), <1>1, <3>1
      <4>2. /\ none \in [0 .. m - 1 -> (0 .. 0 - 1) \cup {EMPTY}]
            /\ \A p \in 0 .. m - 1 : none[p] = EMPTY
        OBVIOUS
      <4>3. FilledWith(none, ks, 0, m)
        <5> HIDE DEF none
        <5>1. {p \in 0 .. m - 1 : none[p] # EMPTY} = {}
          BY <4>2
        <5>2. ~(\E i0 \in 0 .. 0 - 1 : TRUE)
          OBVIOUS
        <5> QED
          BY ZenonT(60), <4>2, <5>1, <5>2, FS_EmptySet DEF FilledWith
      <4> QED
        BY SMTT(60), <3>1, <4>1, <4>3
    <3>2. CASE i # 0
      <4>1. i - 1 \in 0 .. n /\ i - 1 \notin T /\ i - 1 \in Nat /\ i - 1 < m
        BY SMTT(60), <2>1, <3>2
      <4>2. filled[i] = put(filled[i - 1], i)
        <5> HIDE DEF put, none
        <5> QED
          BY <1>1, <3>2
      <4>3. FilledWith(filled[i - 1], ks, i - 1, m)
        BY ZenonT(60), <4>1
      <4>4. i - 1 + 1 = i /\ ks[i] \in Key
        BY <3>2
      <4>5. FilledWith(put(filled[i - 1], i), ks, i, m)
        BY ZenonT(60), <4>1, <4>3, <4>4, FillOne
      <4> QED
        BY ZenonT(60), <4>2, <4>5
    <3> QED
      BY SMTT(60), <3>1, <3>2
  <2>2. T \in SUBSET Nat
    OBVIOUS
  <2> HIDE DEF T
  <2>3. T = {}
    BY SMTT(60), <2>1, <2>2, LeastElement
  <2> QED
    BY ZenonT(60), <2>3 DEF T
<1>4. n \in 0 .. n
  OBVIOUS
<1> QED
  BY ZenonT(60), <1>2, <1>3, <1>4

(***************************************************************************)
(* reserve_indices keeps the keys that are numbered, fills the table that  *)
(* it resizes, and leaves it large enough for m_keys.                      *)
(***************************************************************************)
LEMMA GrowGrows ==
  ASSUME IInv, TInv, NEW t \in Thread, grow(t)
  PROVE  /\ Grown /\ 10 * Len(keys') <= 6 * TableSize'
         /\ \A u \in Thread : pc[u] \notin Holding /\ pc'[u] \notin Holding
<1>1. /\ next_index \in Nat /\ Len(keys) \in Nat /\ next_index <= Len(keys)
      /\ TableSize \in Nat /\ TableSize >= 8 /\ 10 * Len(keys) <= 6 * TableSize
  BY SMTT(60), KeysReserved DEF TInv, TableShape, EntriesInUse
<1>2. /\ \A u \in Thread : pc[u] \notin Holding /\ pc'[u] \notin Holding
      /\ keys \in Seq(Key \cup {NoKey})
  BY SMTT(60), ThreadAssumption DEF grow, Goto, IInv, TInv, ExclusiveAtPoint, SharedAtPoint, Types, InShared, Holding, Drawn
<1>3. CASE ~MustReserve
  BY SMTT(60), <1>1, <1>2, <1>3 DEF grow, Grown, TableSize
<1>4. CASE MustReserve
  <2>1. PICK more \in Nat : more = Max({Len(keys) \div RESERVATION_FRACTION, mutexes})
    <3>1. Len(keys) \div RESERVATION_FRACTION \in Nat
      BY <1>1, SizeAssumption
    <3> QED
      BY SMTT(60), <3>1, MutexCount, MaxOfTwo
  <2>2. PICK n \in Nat : n = Len(keys) + more
    BY <1>1
  <2>3. PICK m \in Nat : m = LargeEnough(TableSize, n) /\ m >= TableSize /\ 10 * n <= 6 * m
    BY Zenon, <1>1, LargeEnoughFits
  <2>4. /\ keys' = keys \o [i \in 1 .. more |-> NoKey]
        /\ hashtable' = IF m = TableSize THEN hashtable ELSE resize_hashtable(keys, next_index, m)
    BY Zenon, <1>4, <2>1, <2>2, <2>3 DEF grow
  <2>5. Len(keys') = n /\ \A i \in 0 .. next_index - 1 : keys'[i + 1] = keys[i + 1]
    <3>1. PICK s \in Seq({NoKey}) : s = [i \in 1 .. more |-> NoKey] /\ Len(s) = more
      BY ZenonT(60), ConstantSequence
    <3>2. s \in Seq(Key \cup {NoKey}) /\ keys' = keys \o s
      BY <2>4, <3>1
    <3>3. Len(keys') = n /\ \A i \in 1 .. Len(keys) : keys'[i] = keys[i]
      BY <1>1, <1>2, <2>2, <3>1, <3>2
    <3> QED
      BY SMTT(60), <1>1, <3>3
  <2>6. CASE m = TableSize
    BY ZenonT(60), <1>2, <2>3, <2>4, <2>5, <2>6 DEF Grown, TableSize
  <2>7. CASE m # TableSize
    <3>1. \A i \in 1 .. next_index : keys[i] \in Key
      <4>1. \A i \in 0 .. next_index - 1 : keys[i + 1] \in Key
        BY SMTT(60), <1>2, NoClaims DEF TInv, TableInv
      <4>2. \A i \in 1 .. next_index : i - 1 \in 0 .. next_index - 1 /\ (i - 1) + 1 = i
        BY <1>1
      <4> QED
        BY ZenonT(60), <4>1, <4>2
    <3>2. next_index <= m /\ m \in Nat \ {0}
      BY SMTT(60), <1>1, <2>2, <2>3
    <3>3. FilledWith(hashtable', keys, next_index, m)
      BY SMTT(60), <1>1, <2>4, <2>7, <3>1, <3>2, ResizeFills
    <3>4. TableSize' = m
      <4>1. DOMAIN hashtable' = 0 .. m - 1
        BY <3>3 DEF FilledWith
      <4> QED
        BY SMTT(60), <4>1, IntervalSize DEF TableSize
    <3> QED
      BY <1>2, <2>3, <2>5, <3>3, <3>4 DEF Grown
  <2> QED
    BY <2>6, <2>7
<1> QED
  BY <1>3, <1>4

LEMMA GrowEntries ==
  ASSUME IInv, TInv, NEW t \in Thread, grow(t)
  PROVE  EntriesInUse'
<1>1. /\ Grown /\ 10 * Len(keys') <= 6 * TableSize' /\ next_index' = next_index
      /\ \A u \in Thread : pc[u] # "fetch" /\ pc'[u] # "fetch"
  BY Zenon, GrowGrows DEF grow, Holding
<1>2. Fetching = {} /\ Fetching' = {} /\ Cardinality(Fetching) = 0 /\ Cardinality(Fetching') = 0
  BY ZenonT(60), <1>1, FS_EmptySet DEF Fetching
<1>3. Cardinality(InUse') = Cardinality(InUse) \/ Cardinality(InUse') = next_index
  <2>1. UNCHANGED hashtable \/ FilledWith(hashtable', keys, next_index, TableSize')
    BY SMTT(60), <1>1 DEF Grown
  <2>2. ASSUME FilledWith(hashtable', keys, next_index, TableSize')
        PROVE  Cardinality(InUse') = next_index
    BY SMTT(60), <2>2 DEF FilledWith, InUse
  <2> QED
    BY <2>1, <2>2 DEF InUse
<1> QED
  BY SMTT(60), <1>1, <1>2, <1>3, KeysReserved DEF EntriesInUse, TInv

LEMMA InitTInv == Init => TInv
<1> SUFFICES ASSUME Init PROVE TInv
  OBVIOUS
<1>1. minimal_hashtable_size \in Nat /\ minimal_hashtable_size >= 8
  BY SizeAssumption
<1>2. /\ DOMAIN hashtable = 0 .. minimal_hashtable_size - 1 /\ TableSize = minimal_hashtable_size
      /\ \A p \in DOMAIN hashtable : hashtable[p] = EMPTY
      /\ \A t \in Thread : pc[t] = "idle"
  BY SMTT(60), <1>1, IntervalSize DEF Init, TableSize
<1>3. EMPTY \notin Nat /\ EMPTY # RESERVED
  BY SpecialAssumption
<1>4. SharedAtPoint
  BY SMTT(60), <1>2 DEF Init, RW!Init, SharedAtPoint, InShared, Holding, Drawn, Walking
<1>5. CallAtPoint
  BY <1>2 DEF Init, CallAtPoint, CallOf, Inserting, Drawn
<1>6. TableShape
  BY SMTT(60), <1>1, <1>2 DEF Init, TableShape
<1>7. ClaimsAtPositions /\ IndicesInTable /\ WalksPassed
  BY <1>2, <1>3 DEF Init, ClaimsAtPositions, IndicesInTable, WalksPassed, Holding, Drawn, Walking
<1>8. KeysInTable
  <2>1. \A p \in DOMAIN hashtable, k \in Key : ~Holds(p, k)
    BY <1>2, <1>3 DEF Holds, Holding, Drawn
  <2> QED
    BY ZenonT(60), <2>1 DEF KeysInTable
<1>9. EntriesInUse
  <2>1. InUse = {} /\ Fetching = {} /\ Len(keys) = 0 /\ next_index = 0
    BY <1>2 DEF Init, InUse, Fetching
  <2> QED
    BY SMTT(60), <1>1, <1>2, <2>1, FS_EmptySet DEF EntriesInUse
<1> QED
  BY SMTT(60), <1>4, <1>5, <1>6, <1>7, <1>8, <1>9 DEF TInv

LEMMA NextTInv == IInv /\ TInv /\ [Next]_vars => TInv'
<1> SUFFICES ASSUME IInv, TInv, [Next]_vars PROVE TInv'
  OBVIOUS
<1>1. IInv'
  BY SMTT(60), NextIInv
<1>2. /\ Types /\ ExclusiveAtPoint /\ ClearsAlone /\ EveryClaimHasAnIndex
      /\ Types' /\ \A u \in Thread : pc'[u] # "failed"
  BY <1>1 DEF IInv, EveryClaimHasAnIndex
<1>3. /\ SharedAtPoint /\ CallAtPoint /\ TableInv /\ WalksPassed
      /\ next_index <= Len(keys) /\ \A u \in Thread : grow(u) => Grown
  BY KeysReserved, GrowGrows DEF TInv, TableInv
<1>4. SharedAtPoint'
  BY SMTT(60), <1>2, <1>3, NextShared
<1>5. CallAtPoint'
  BY SMTT(60), <1>2, <1>3, NextCalls
<1>6. TableInv' /\ WalksPassed'
  BY SMTT(60), <1>2, <1>3, <1>5, NextTable
<1>7. EntriesInUse'
  <2>1. \A u \in Thread : pc[u] \in Drawn => DrawnIndex(u) \in Nat /\ Key_of(u) \in Key
    BY Zenon, <1>2, <1>3, DrawnInRange
  <2> QED
    BY <1>2, <2>1, GrowEntries, NextEntries
<1> QED
  BY SMTT(60), <1>4, <1>5, <1>6, <1>7 DEF TInv, TableInv

LEMMA TableInvariant == Spec => [](IInv /\ TInv)
<1>1. Init => IInv /\ TInv
  BY InitIInv, InitTInv
<1>2. IInv /\ TInv /\ [Next]_vars => (IInv /\ TInv)'
  BY NextIInv, NextTInv
<1> QED
  BY <1>1, <1>2, PTL DEF Spec

(***************************************************************************)
(* The data members of the set, the lock and the positions of the threads  *)
(* have their types; in particular every walk stays inside the table, also *)
(* when the table was resized or cleared since its thread last held the    *)
(* lock.                                                                   *)
(***************************************************************************)
THEOREM TypeCorrect == Spec => []TypeOK
<1> DEFINE WriterType == writer \in Thread \cup {NoThread}
<1>1. Init => WriterType
  BY DEF Init, RW!Init
<1>2. WriterType /\ [Next]_vars => WriterType'
  <2> SUFFICES ASSUME WriterType, [Next]_vars PROVE WriterType'
    OBVIOUS
  <2>1. writer' = writer \/ writer' = NoThread \/ writer' \in Thread
    BY ZenonT(60) DEF vars, lockvars, Next, Insert, insert, index, enough_reserved,
       give_up_guard, reserve_indices, grow, end_reserve, relock, put_in_hashtable,
       compare_exchange, fetch_add, store_key, publish, return, lookup, size, read_size,
       operator_at, end_operator_at, clear, erase, end_clear, RW!AcquireShared,
       RW!ReleaseShared, RW!AcquireExclusive, RW!ReleaseExclusive
  <2> QED
    BY <2>1
<1>3. IInv /\ TInv /\ WriterType => TypeOK
  <2> SUFFICES ASSUME IInv, TInv, WriterType PROVE TypeOK
    OBVIOUS
  <2>1. Types /\ SharedAtPoint /\ TableShape
    BY DEF IInv, TInv
  <2>2. readers \in [Thread -> {0, 1}]
    BY <2>1 DEF SharedAtPoint
  <2>3. DOMAIN hashtable = 0 .. TableSize - 1 /\ TableSize > 0
    BY <2>1 DEF TableShape
  <2> QED
    BY <2>1, <2>2, <2>3, Zenon DEF Types, TableShape, TypeOK
<1> QED
  BY <1>1, <1>2, <1>3, TableInvariant, PTL DEF Spec

(***************************************************************************)
(* The hash table is never full, for any number of threads and keys, any   *)
(* hash function and any reservation fraction: the entries in use are      *)
(* those of the indices drawn and those of the threads that are about to   *)
(* draw one, and m_keys has room for both.                                 *)
(***************************************************************************)
THEOREM TableRoom == Spec => []TableHasRoom
<1>1. ASSUME IInv, TInv PROVE TableHasRoom
  <2>1. Fetching \subseteq Claiming /\ IsFiniteSet(Claiming)
    BY ThreadAssumption, FS_Subset DEF Fetching, Claiming
  <2>2. /\ Cardinality(Fetching) <= Cardinality(Claiming)
        /\ Cardinality(Fetching) \in Nat /\ Cardinality(Claiming) \in Nat
    BY SMTT(60), <2>1, FS_Subset, FS_CardinalityType
  <2>3. next_index \in Nat /\ Len(keys) \in Nat
    BY <1>1 DEF IInv, Types
  <2>4. next_index + Cardinality(Claiming) <= Len(keys)
    BY <1>1 DEF IInv, EveryClaimHasAnIndex
  <2>5. Cardinality(InUse) = next_index + Cardinality(Fetching) /\ 10 * Len(keys) <= 6 * TableSize
    BY <1>1 DEF TInv, EntriesInUse
  <2>6. Cardinality(InUse) <= Len(keys)
    BY SMTT(60), <2>2, <2>3, <2>4, <2>5
  <2> QED
    BY <2>5, <2>6 DEF TableHasRoom, InUse
<1> QED
  BY <1>1, TableInvariant, PTL

(***************************************************************************)
(* A walk from the hash position of a published key meets that key before  *)
(* an EMPTY entry, whatever was inserted in between and however often the  *)
(* table was resized.                                                      *)
(***************************************************************************)
THEOREM ProbeChains == Spec => []ProbeChainsUnbroken
<1>1. ASSUME IInv, TInv PROVE ProbeChainsUnbroken
  <2> USE <1>1 DEF TInv
  <2> SUFFICES ASSUME NEW p \in DOMAIN hashtable, hashtable[p] \in Nat,
                      NEW s, s = HashPos(keys[hashtable[p] + 1], TableSize),
                      NEW r \in 0 .. (p + TableSize - s) % TableSize
               PROVE  hashtable[(s + r) % TableSize] # EMPTY
    BY Zenon DEF ProbeChainsUnbroken
  <2>1. /\ TableSize \in Nat \ {0} /\ p \in 0 .. TableSize - 1
    BY SMTT(60) DEF TableShape
  <2>2. keys[hashtable[p] + 1] \in Key /\ Holds(p, keys[hashtable[p] + 1])
    BY DEF IndicesInTable, Holds
  <2>3. s \in 0 .. TableSize - 1
    BY <2>1, <2>2, HashPosition
  <2>4. PICK o \in 0 .. TableSize - 1 : (s + o) % TableSize = p
    BY ZenonT(60), <2>1, <2>3, Offsets
  <2>5. /\ (((s + o) % TableSize) + TableSize - s) % TableSize = o
        /\ \A a \in 0 .. o : (s + a) % TableSize \in Path(TableSize, s, (s + o) % TableSize)
    BY ZenonT(60), <2>1, <2>3, Offsets
  <2>6. (s + r) % TableSize \in Path(TableSize, s, p)
    BY ONLY <2>4, <2>5, r \in 0 .. (p + TableSize - s) % TableSize, Zenon
  <2> QED
    BY ZenonT(60), <2>2, <2>6 DEF KeysInTable, Home
<1> QED
  BY <1>1, TableInvariant, PTL

(***************************************************************************)
(* resize_hashtable and clear never meet a RESERVED entry: a thread keeps  *)
(* the shared lock from its claim until the entry is published.            *)
(***************************************************************************)
THEOREM ExclusiveLockMeetsNoClaim == Spec => []NoClaimUnderExclusiveLock
<1>1. ASSUME TInv PROVE NoClaimUnderExclusiveLock
  BY <1>1 DEF TInv, SharedAtPoint, ClaimsAtPositions, NoClaimUnderExclusiveLock, InShared
<1> QED
  BY <1>1, TableInvariant, PTL

(***************************************************************************)
(* insert, index, size and clear are linearisable, for any number of       *)
(* threads and keys: every behaviour of the concurrent set is one of the   *)
(* consecutive numbering, in which each call takes effect in one step      *)
(* between its invocation and its return.                                  *)
(***************************************************************************)
THEOREM Linearisable == Spec => ImplementsKeyNumbering
<1>1. Init => KN!Init
  <2> SUFFICES ASSUME Init PROVE KN!Init
    OBVIOUS
  <2>1. call = [t \in Thread |-> Idle] /\ next_index = 0
    BY DEF Init
  <2>2. Numbered = <<>>
    BY <2>1 DEF Numbered
  <2> QED
    BY <2>1, <2>2 DEF KN!Init, KN!Idle, Idle
<1>2. IInv /\ TInv /\ IInv' /\ TInv' /\ [Next]_vars => [KN!Next]_(KN!nvars)
  BY NextNumbers, KeysReserved, GrowGrows DEF NumberStep
<1> QED
  BY <1>1, <1>2, TableInvariant, PTL DEF Spec, ImplementsKeyNumbering, KN!Spec
=============================================================================
