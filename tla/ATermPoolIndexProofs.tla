------------------------- MODULE ATermPoolIndexProofs -------------------------
(***************************************************************************)
(* Proofs about the numbers that index_traits gives to the terms with an   *)
(* index, for any number of threads and any finite or infinite set of      *)
(* terms.                                                                  *)
(***************************************************************************)
EXTENDS ATermPoolProofs, FiniteSetTheorems


\* insert when no number is free: the size of the map is a new number.
LEMMA InsertFresh ==
  ASSUME NEW f, NumbersApart(f, <<>>), NEW h, h \notin DOMAIN f,
         NEW g, g = [k \in DOMAIN f \cup {h} |->
                       IF k = h THEN Cardinality(DOMAIN f) ELSE f[k]]
  PROVE  NumbersApart(g, <<>>)
<1>1. /\ IsFiniteSet(DOMAIN f) /\ f \in [DOMAIN f -> Nat]
      /\ \A k, l \in DOMAIN f : k # l => f[k] # f[l]
      /\ \A k \in DOMAIN f : f[k] < Cardinality(DOMAIN f) + Len(<<>>)
  BY Zenon DEF NumbersApart
<1>2. PICK n \in Nat : n = Cardinality(DOMAIN f)
  BY <1>1, FS_CardinalityType
<1>3. /\ DOMAIN g = DOMAIN f \cup {h} /\ IsFiniteSet(DOMAIN g)
      /\ Cardinality(DOMAIN g) = n + 1
  BY <1>1, <1>2, FS_AddElement
<1>4. g[h] = n /\ \A k \in DOMAIN f : g[k] = f[k]
  BY <1>2
<1>5. \A k \in DOMAIN f : f[k] \in Nat /\ f[k] < n
  BY <1>1, <1>2
<1>6. g \in [DOMAIN g -> Nat]
  BY <1>3, <1>4, <1>5
<1>7. /\ \A k, l \in DOMAIN g : k # l => g[k] # g[l]
      /\ \A k \in DOMAIN g : g[k] < n + 1
  BY <1>1, <1>3, <1>4, <1>5
<1>8. <<>> \in Seq(Nat) /\ Len(<<>>) = 0
  OBVIOUS
<1> QED
  BY <1>3, <1>6, <1>7, <1>8 DEF NumbersApart

\* insert when numbers are free: the one on top of the stack is used.
LEMMA InsertFreed ==
  ASSUME NEW f, NEW q, NumbersApart(f, q), q # <<>>, NEW h, h \notin DOMAIN f,
         NEW g, g = [k \in DOMAIN f \cup {h} |-> IF k = h THEN Head(q) ELSE f[k]]
  PROVE  NumbersApart(g, Tail(q))
<1>1. /\ IsFiniteSet(DOMAIN f) /\ f \in [DOMAIN f -> Nat] /\ q \in Seq(Nat)
      /\ \A k, l \in DOMAIN f : k # l => f[k] # f[l]
      /\ \A i, j \in 1 .. Len(q) : i # j => q[i] # q[j]
      /\ \A k \in DOMAIN f, i \in 1 .. Len(q) : f[k] # q[i]
      /\ \A k \in DOMAIN f : f[k] < Cardinality(DOMAIN f) + Len(q)
      /\ \A i \in 1 .. Len(q) : q[i] < Cardinality(DOMAIN f) + Len(q)
  BY Zenon DEF NumbersApart
<1>2. PICK n \in Nat : n = Cardinality(DOMAIN f)
  BY <1>1, FS_CardinalityType
<1>3. /\ DOMAIN g = DOMAIN f \cup {h} /\ IsFiniteSet(DOMAIN g)
      /\ Cardinality(DOMAIN g) = n + 1
  BY <1>1, <1>2, FS_AddElement
<1>4. PICK m \in Nat : m = Len(q) /\ m > 0
  BY <1>1
<1>5. PICK r : r = Tail(q)
  OBVIOUS
<1>6. /\ r \in Seq(Nat) /\ Len(r) = m - 1
      /\ Head(q) = q[1] /\ q[1] \in Nat /\ 1 \in 1 .. Len(q)
  BY <1>1, <1>4, <1>5
<1>7. \A i \in 1 .. m - 1 : r[i] = q[i + 1] /\ i + 1 \in 1 .. Len(q)
  BY <1>1, <1>4, <1>5
<1>8. g[h] = q[1] /\ \A k \in DOMAIN f : g[k] = f[k] /\ f[k] \in Nat
  BY <1>1, <1>6
<1>9. g \in [DOMAIN g -> Nat]
  BY <1>3, <1>6, <1>8
<1>10. \A k, l \in DOMAIN g : k # l => g[k] # g[l]
  BY <1>1, <1>3, <1>4, <1>8
<1>11. ASSUME NEW i \in 1 .. m - 1, NEW j \in 1 .. m - 1, i # j
       PROVE  r[i] # r[j]
  <2>1. i + 1 # j + 1
    BY <1>11
  <2> QED
    BY <1>1, <1>7, <2>1, Zenon
<1>12. ASSUME NEW k \in DOMAIN g, NEW i \in 1 .. m - 1 PROVE g[k] # r[i]
  <2>1. i + 1 # 1
    OBVIOUS
  <2>2. CASE k = h
    BY <1>1, <1>6, <1>7, <1>8, <2>1, <2>2, Zenon
  <2>3. CASE k \in DOMAIN f
    <3>1. /\ g[k] = f[k] /\ r[i] = q[i + 1] /\ i + 1 \in 1 .. Len(q)
      BY <1>7, <1>8, <2>3, Zenon
    <3>2. f[k] # q[i + 1]
      BY <1>1, <2>3, <3>1
    <3> QED
      BY <3>1, <3>2, Zenon
  <2> QED
    BY <1>3, <2>2, <2>3
<1>13. /\ \A k \in DOMAIN g : g[k] < n + m
       /\ \A i \in 1 .. m - 1 : r[i] < n + m
  <2>1. \A i \in 1 .. Len(q) : q[i] < n + m
    BY <1>1, <1>2, <1>4, Zenon
  <2>2. \A k \in DOMAIN f : f[k] < n + m
    BY <1>1, <1>2, <1>4, Zenon
  <2> QED
    BY <1>3, <1>6, <1>7, <1>8, <2>1, <2>2, Zenon
<1>14. NumbersApart(g, r)
  <2>1. Cardinality(DOMAIN g) + Len(r) = n + m
    BY <1>3, <1>4, <1>6
  <2> QED
    BY <1>3, <1>6, <1>9, <1>10, <1>11, <1>12, <1>13, <2>1, ZenonT(60) DEF NumbersApart
<1> QED
  BY <1>5, <1>14

\* erase: the number of the term is put on the stack.
LEMMA EraseFrees ==
  ASSUME NEW f, NEW q, NumbersApart(f, q), NEW h \in DOMAIN f,
         NEW g, g = [k \in DOMAIN f \ {h} |-> f[k]]
  PROVE  NumbersApart(g, <<f[h]>> \o q)
<1>1. /\ IsFiniteSet(DOMAIN f) /\ f \in [DOMAIN f -> Nat] /\ q \in Seq(Nat)
      /\ \A k, l \in DOMAIN f : k # l => f[k] # f[l]
      /\ \A i, j \in 1 .. Len(q) : i # j => q[i] # q[j]
      /\ \A k \in DOMAIN f, i \in 1 .. Len(q) : f[k] # q[i]
      /\ \A k \in DOMAIN f : f[k] < Cardinality(DOMAIN f) + Len(q)
      /\ \A i \in 1 .. Len(q) : q[i] < Cardinality(DOMAIN f) + Len(q)
  BY Zenon DEF NumbersApart
<1>2. PICK n \in Nat : n = Cardinality(DOMAIN f)
  BY <1>1, FS_CardinalityType
<1>3. /\ DOMAIN g = DOMAIN f \ {h} /\ IsFiniteSet(DOMAIN g)
      /\ Cardinality(DOMAIN g) = n - 1 /\ n > 0
  <2>1. /\ IsFiniteSet(DOMAIN f \ {h})
        /\ Cardinality(DOMAIN f \ {h}) = Cardinality(DOMAIN f) - 1
    BY <1>1, FS_RemoveElement, Zenon
  <2>2. Cardinality(DOMAIN f \ {h}) \in Nat
    BY <2>1, FS_CardinalityType, Zenon
  <2>3. DOMAIN g = DOMAIN f \ {h}
    OBVIOUS
  <2> QED
    BY <1>2, <2>1, <2>2, <2>3
<1>4. PICK m \in Nat : m = Len(q)
  BY <1>1
<1>5. PICK r : r = <<f[h]>> \o q
  OBVIOUS
<1>6. /\ r \in Seq(Nat) /\ Len(r) = m + 1 /\ r[1] = f[h]
      /\ \A i \in 2 .. m + 1 : r[i] = q[i - 1] /\ i - 1 \in 1 .. m
  BY <1>1, <1>4, <1>5
<1>7. \A k \in DOMAIN g : k \in DOMAIN f /\ k # h /\ g[k] = f[k] /\ f[k] \in Nat
  BY <1>1, <1>3
<1>8. g \in [DOMAIN g -> Nat]
  BY <1>7
<1>9. \A k, l \in DOMAIN g : k # l => g[k] # g[l]
  BY <1>1, <1>7
<1>10. \A i \in 1 .. m + 1 : i = 1 \/ (r[i] = q[i - 1] /\ i - 1 \in 1 .. Len(q))
  BY <1>4, <1>6
<1>11. ASSUME NEW i \in 1 .. m + 1, NEW j \in 1 .. m + 1, i # j
       PROVE  r[i] # r[j]
  <2>1. ASSUME NEW l \in 1 .. m + 1, l # 1 PROVE r[l] # f[h]
    <3>1. r[l] = q[l - 1] /\ l - 1 \in 1 .. Len(q)
      BY <1>10, <2>1, Zenon
    <3>2. f[h] # q[l - 1]
      BY <1>1, <3>1
    <3> QED
      BY <3>1, <3>2, Zenon
  <2>2. CASE i # 1 /\ j # 1
    <3>1. /\ r[i] = q[i - 1] /\ i - 1 \in 1 .. Len(q)
          /\ r[j] = q[j - 1] /\ j - 1 \in 1 .. Len(q)
      BY <1>10, <2>2, Zenon
    <3>2. i - 1 # j - 1
      BY <1>11
    <3>3. q[i - 1] # q[j - 1]
      BY <1>1, <3>1, <3>2
    <3> QED
      BY <3>1, <3>3, Zenon
  <2> QED
    BY <1>6, <1>11, <2>1, <2>2
<1>12. ASSUME NEW k \in DOMAIN g, NEW i \in 1 .. m + 1 PROVE g[k] # r[i]
  <2>1. k \in DOMAIN f /\ k # h /\ g[k] = f[k]
    BY <1>7, Zenon
  <2>2. f[k] # f[h]
    BY <1>1, <2>1, Zenon
  <2>3. ASSUME i # 1 PROVE f[k] # r[i]
    <3>1. r[i] = q[i - 1] /\ i - 1 \in 1 .. Len(q)
      BY <1>10, <2>3, Zenon
    <3>2. f[k] # q[i - 1]
      BY <1>1, <2>1, <3>1
    <3> QED
      BY <3>1, <3>2, Zenon
  <2> QED
    BY <1>6, <2>1, <2>2, <2>3, Zenon
<1>13. /\ \A k \in DOMAIN g : g[k] < n + m
       /\ \A i \in 1 .. m + 1 : r[i] < n + m
  <2>1. \A i \in 1 .. Len(q) : q[i] < n + m
    BY <1>1, <1>2, <1>4, Zenon
  <2>2. \A k \in DOMAIN f : f[k] < n + m
    BY <1>1, <1>2, <1>4, Zenon
  <2> QED
    BY <1>6, <1>7, <1>10, <2>1, <2>2, Zenon
<1>14. NumbersApart(g, r)
  <2>1. Cardinality(DOMAIN g) + Len(r) = n + m
    BY <1>3, <1>4, <1>6
  <2> QED
    BY <1>3, <1>6, <1>8, <1>9, <1>11, <1>12, <1>13, <2>1, ZenonT(60) DEF NumbersApart
<1> QED
  BY <1>5, <1>14

LEMMA NextNumbers == IInv /\ NumbersInv /\ [Next]_vars => NumbersInv'
<1> SUFFICES ASSUME IInv, NumbersInv, [Next]_vars PROVE NumbersInv'
  OBVIOUS
<1>1. ASSUME UNCHANGED <<index, free_numbers>> PROVE NumbersInv'
  BY <1>1, Zenon DEF NumbersInv
<1>2. CASE UNCHANGED vars
  BY <1>1, <1>2 DEF vars, storage
<1>3. ASSUME NEW t \in Thread, FreeStepOf(t) PROVE NumbersInv'
  <2>1. \/ UNCHANGED <<index, free_numbers>>
        \/ \E x \in Term : insert(x)
    BY <1>3, ZenonT(60)
    DEF FreeStepOf, construct, destruct, register_pointer, assign, register_copy,
        create_argument, create_appl, register_thread_aterm_pool, absorb,
        remove_thread_aterm_pool, storage, emplace
  <2>2. ASSUME NEW x \in Term, insert(x) PROVE NumbersInv'
    <3>1. CASE x \in DOMAIN index
      BY <1>1, <2>2, <3>1 DEF insert
    <3>2. CASE x \notin DOMAIN index /\ free_numbers = <<>>
      <4>1. /\ index' = [k \in DOMAIN index \cup {x} |->
                           IF k = x THEN Cardinality(DOMAIN index) ELSE index[k]]
            /\ free_numbers' = <<>>
        BY <2>2, <3>2, Zenon DEF insert
      <4>2. NumbersApart(index, <<>>)
        BY <3>2 DEF NumbersInv
      <4>3. NumbersApart(index', <<>>)
        BY <3>2, <4>1, <4>2, InsertFresh, Zenon
      <4> QED
        BY <4>1, <4>3, Zenon DEF NumbersInv
    <3>3. CASE x \notin DOMAIN index /\ free_numbers # <<>>
      <4>1. /\ index' = [k \in DOMAIN index \cup {x} |->
                           IF k = x THEN Head(free_numbers) ELSE index[k]]
            /\ free_numbers' = Tail(free_numbers)
        BY <2>2, <3>3, Zenon DEF insert
      <4>2. NumbersApart(index', Tail(free_numbers))
        BY <3>3, <4>1, InsertFreed, Zenon DEF NumbersInv
      <4> QED
        BY <4>1, <4>2, Zenon DEF NumbersInv
    <3> QED
      BY <3>1, <3>2, <3>3
  <2> QED
    BY <1>1, <2>1, <2>2
<1>4. ASSUME NEW t \in Thread, CollectorStepOf(t) PROVE NumbersInv'
  <2>1. \/ UNCHANGED <<index, free_numbers>>
        \/ /\ pc[t] = "sweep"
           /\ \E x \in unswept \cap Hooked : erase(x)
    BY <1>4, ZenonT(60) DEF CollectorStepOf, start_collect, mark, mark_term,
       start_sweep, sweep, end_collect, storage, NextToSweep
  <2>2. ASSUME pc[t] = "sweep", NEW x \in unswept \cap Hooked, erase(x)
        PROVE  NumbersInv'
    <3>1. x \in DOMAIN index
      BY <2>2 DEF IInv, SweepsTermsOnly, HookedIndexed, Sweeping
    <3>2. NumbersApart(index', <<index[x]>> \o free_numbers)
      BY <2>2, <3>1, EraseFrees, Zenon DEF erase, NumbersInv
    <3> QED
      BY <2>2, <3>2, Zenon DEF erase, NumbersInv
  <2> QED
    BY <1>1, <2>1, <2>2
<1>5. ASSUME NEW t \in Thread, QuietStepOf(t) \/ UnlockedStepOf(t)
      PROVE  NumbersInv'
  <2>1. UNCHANGED storage
    BY <1>5, QuietUnchanged, Zenon DEF UnlockedStepOf, copy_construct, write_pointer
  <2> QED
    BY <1>1, <2>1, Zenon DEF storage
<1> QED
  BY <1>2, <1>3, <1>4, <1>5, KindsOfSteps, Zenon

(***************************************************************************)
(* Two terms with an index never have the same number, however creations   *)
(* and the deletion hooks of collections alternate and reuse numbers.      *)
(***************************************************************************)
THEOREM IndicesStayDistinct == Spec => []IndicesDistinct
<1>1. Init => NumbersInv
  <2>1. ASSUME Init PROVE NumbersInv
    <3>1. /\ DOMAIN index = {} /\ free_numbers = <<>> /\ index \in [{} -> Nat]
      BY <2>1 DEF Init
    <3>2. IsFiniteSet({})
      BY FS_EmptySet
    <3>3. <<>> \in Seq(Nat) /\ Len(<<>>) = 0
      OBVIOUS
    <3> QED
      BY <3>1, <3>2, <3>3 DEF NumbersInv, NumbersApart
  <2> QED
    BY <2>1
<1>2. NumbersInv => IndicesDistinct
  BY Zenon DEF NumbersInv, NumbersApart, IndicesDistinct
<1> QED
  BY <1>1, <1>2, Invariance, NextNumbers, PTL DEF Spec
=============================================================================
