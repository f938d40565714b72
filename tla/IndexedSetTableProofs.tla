------------------------- MODULE IndexedSetTableProofs -------------------------
(***************************************************************************)
(* Proofs about the hash table of IndexedSet: every step keeps its shape,  *)
(* the claimed entries, the published indices and the probe chains.        *)
(***************************************************************************)
EXTENDS IndexedSet, WellFoundedInduction, TLAPS

(***************************************************************************)
(* Every nonempty set of natural numbers has a least element.  A claim     *)
(* about every number is proved by looking at its least counterexample.    *)
(***************************************************************************)
LEMMA LeastElement ==
  ASSUME NEW T \in SUBSET Nat, T # {}
  PROVE  \E x \in T : \A y \in T : x <= y
<1> DEFINE R == OpToRel(<, Nat)
<1>1. IsWellFoundedOn(R, Nat)
  BY Zenon, NatLessThanWellFounded
<1>2. \A x, y \in Nat : <<y, x>> \in R <=> y < x
  BY DEF OpToRel
<1> HIDE DEF R
<1>3. PICK x \in T : \A y \in T : ~(<<y, x>> \in R)
  BY Zenon, <1>1, WFMin
<1>4. \A y \in T : ~(y < x)
  BY Zenon, <1>2, <1>3
<1> QED
  BY <1>4

LEMMA MinIsLeast ==
  ASSUME NEW T \in SUBSET Nat, T # {}
  PROVE  Min(T) \in T /\ \A y \in T : Min(T) <= y
BY Zenon, LeastElement DEF Min

(***************************************************************************)
(* The position after p, around the end of a table of m entries.           *)
(***************************************************************************)
LEMMA Successor ==
  ASSUME NEW m \in Nat \ {0}, NEW p \in 0 .. m - 1
  PROVE  (p + 1) % m = IF p = m - 1 THEN 0 ELSE p + 1
<1>1. CASE p = m - 1
  BY <1>1
<1>2. CASE p # m - 1
  BY <1>2
<1> QED
  BY <1>1, <1>2

(***************************************************************************)
(* Recursion over 0 .. n: there is a function that starts with x0 and      *)
(* makes the given step from each number to the next.                      *)
(***************************************************************************)
Follows(g, n, S, x0, step) ==
  /\ g \in [0 .. n -> S]
  /\ g[0] = x0 /\ \A i \in 1 .. n : g[i] = step[i][g[i - 1]]

LEMMA Recursion ==
  ASSUME NEW S, NEW x0 \in S, NEW n \in Nat, NEW step, step \in [1 .. n -> [S -> S]]
  PROVE  \E g : Follows(g, n, S, x0, step)
<1> USE DEF Follows
<1> DEFINE
    Steps(g, m) == Follows(g, m, S, x0, step)
    T == {m \in 0 .. n : ~ \E g : Steps(g, m)}
<1>1. ASSUME NEW m \in T, \A y \in T : m <= y
      PROVE  FALSE
  <2>1. CASE m = 0
    <3>1. Steps([i \in 0 .. 0 |-> x0], 0)
      OBVIOUS
    <3> QED
      BY Zenon, <2>1, <3>1
  <2>2. CASE m # 0
    <3>1. m - 1 \in 0 .. n /\ m - 1 \notin T /\ m \in 1 .. n
      BY <1>1, <2>2
    <3>2. PICK g : Steps(g, m - 1)
      BY <3>1
    <3> DEFINE h == [i \in 0 .. m |-> IF i < m THEN g[i] ELSE step[m][g[m - 1]]]
    <3>3. g[m - 1] \in S /\ step[m] \in [S -> S]
      BY <3>1, <3>2
    <3>4. h \in [0 .. m -> S]
      BY SMTT(60), <3>1, <3>2, <3>3
    <3>5. h[0] = x0
      BY SMTT(60), <3>1, <3>2
    <3>6. \A i \in 1 .. m : h[i] = step[i][h[i - 1]]
      <4>1. ASSUME NEW i \in 1 .. m PROVE h[i] = step[i][h[i - 1]]
        <5>1. CASE i = m
          BY <3>1, <5>1
        <5>2. CASE i # m
          BY SMTT(60), <3>1, <3>2, <5>2
        <5> QED
          BY <5>1, <5>2
      <4> QED
        BY ZenonT(60), <4>1
    <3>7. Steps(h, m)
      BY Zenon, <3>4, <3>5, <3>6
    <3> QED
      BY Zenon, <3>1, <3>7
  <2> QED
    BY <2>1, <2>2
<1>2. T \in SUBSET Nat
  OBVIOUS
<1> HIDE DEF T
<1>3. T = {}
  BY <1>1, <1>2, LeastElement
<1>4. \E g : Steps(g, n)
  <2>1. n \in 0 .. n
    OBVIOUS
  <2> QED
    BY Zenon, <1>3, <2>1 DEF T
<1> QED
  BY <1>4

(***************************************************************************)
(* reserve_indices doubles the hash table until m_keys fits in it with a   *)
(* load of at most 0.6.                                                    *)
(***************************************************************************)
LEMMA LargeEnoughFits ==
  ASSUME NEW a \in Nat, a >= 8, NEW n \in Nat
  PROVE  /\ LargeEnough(a, n) \in Nat /\ LargeEnough(a, n) >= a
         /\ 10 * n <= 6 * LargeEnough(a, n)
<1> DEFINE doubled == CHOOSE g : g = [e \in 0 .. n |-> IF e = 0 THEN a ELSE 2 * g[e - 1]]
           E == {e \in 0 .. n : 6 * doubled[e] >= 10 * n}
<1>1. doubled = [e \in 0 .. n |-> IF e = 0 THEN a ELSE 2 * doubled[e - 1]]
  <2> DEFINE step == [i \in 1 .. n |-> [x \in Nat |-> 2 * x]]
  <2>1. step \in [1 .. n -> [Nat -> Nat]]
    OBVIOUS
  <2>2. PICK g : Follows(g, n, Nat, a, step)
    <3> HIDE DEF step
    <3> QED
      BY Zenon, <2>1, Recursion
  <2>3. ASSUME NEW i \in 1 .. n PROVE g[i] = 2 * g[i - 1]
    <3>1. g[i - 1] \in Nat
      BY <2>2 DEF Follows
    <3> QED
      BY Zenon, <2>2, <3>1 DEF Follows
  <2>4. g = [e \in 0 .. n |-> IF e = 0 THEN a ELSE 2 * g[e - 1]]
    BY <2>2, <2>3 DEF Follows
  <2> QED
    BY Zenon, <2>4
<1> HIDE DEF doubled
<1>2. \A e \in 0 .. n : doubled[e] \in Nat /\ doubled[e] >= a /\ doubled[e] >= 8 * e
  <2> DEFINE T == {e \in 0 .. n : ~(doubled[e] \in Nat /\ doubled[e] >= a /\ doubled[e] >= 8 * e)}
  <2>1. ASSUME NEW e \in T, \A y \in T : e <= y
        PROVE  FALSE
    <3>1. CASE e = 0
      BY <1>1, <3>1
    <3>2. CASE e # 0
      <4>1. e - 1 \in 0 .. n /\ e - 1 \notin T
        BY <2>1, <3>2
      <4>2. doubled[e] = 2 * doubled[e - 1]
        BY SMTT(60), <1>1, <3>2
      <4> QED
        BY <4>1, <4>2
    <3> QED
      BY <3>1, <3>2
  <2>2. T \in SUBSET Nat
    OBVIOUS
  <2> HIDE DEF T
  <2>3. T = {}
    BY <2>1, <2>2, LeastElement
  <2> QED
    BY Zenon, <2>3 DEF T
<1>3. E \in SUBSET Nat /\ E \in SUBSET 0 .. n
  OBVIOUS
<1>4. n \in E
  BY <1>2
<1>5. Min(E) \in E
  <2> HIDE DEF E
  <2> QED
    BY <1>3, <1>4, MinIsLeast
<1>6. LargeEnough(a, n) = doubled[Min(E)]
  BY Zenon DEF LargeEnough, doubled
<1> HIDE DEF E
<1>7. Min(E) \in 0 .. n /\ 6 * doubled[Min(E)] >= 10 * n
  BY Zenon, <1>5 DEF E
<1> QED
  BY <1>2, <1>6, <1>7

(***************************************************************************)
(* Walking o positions from s around a table of m entries passes exactly   *)
(* the positions of the path to where it ends.                             *)
(***************************************************************************)
LEMMA Offsets ==
  ASSUME NEW m \in Nat \ {0}, NEW s \in 0 .. m - 1
  PROVE  /\ \A p \in 0 .. m - 1 : \E o \in 0 .. m - 1 : (s + o) % m = p
         /\ \A o \in 0 .. m - 1 :
              /\ (s + o) % m \in 0 .. m - 1
              /\ (((s + o) % m) + m - s) % m = o
              /\ \A r \in 0 .. o : (s + r) % m \in Path(m, s, (s + o) % m)
<1>1. \A o \in 0 .. m - 1 : (s + o) % m = IF s + o < m THEN s + o ELSE s + o - m
  <2>1. ASSUME NEW o \in 0 .. m - 1
        PROVE  (s + o) % m = IF s + o < m THEN s + o ELSE s + o - m
    <3>1. CASE s + o < m
      BY <3>1
    <3>2. CASE s + o >= m
      BY <3>2
    <3> QED
      BY <3>1, <3>2
  <2> QED
    BY <2>1
<1>2. ASSUME NEW p \in 0 .. m - 1
      PROVE  \E o \in 0 .. m - 1 : (s + o) % m = p
  <2>1. CASE s <= p
    <3>1. p - s \in 0 .. m - 1 /\ (s + (p - s)) % m = p
      BY <1>1, <2>1
    <3> QED
      BY <3>1
  <2>2. CASE p < s
    <3>1. p - s + m \in 0 .. m - 1 /\ (s + (p - s + m)) % m = p
      BY <1>1, <2>2
    <3> QED
      BY Zenon, <3>1
  <2> QED
    BY <2>1, <2>2
<1>3. ASSUME NEW o \in 0 .. m - 1
      PROVE  /\ (s + o) % m \in 0 .. m - 1
             /\ (((s + o) % m) + m - s) % m = o
  <2>1. CASE s + o < m
    <3>1. ((s + o) % m) + m - s = o + m
      BY SMTT(60), <1>1, <2>1
    <3>2. (o + m) % m = o
      OBVIOUS
    <3> QED
      BY <1>1, <2>1, <3>1, <3>2
  <2>2. CASE s + o >= m
    <3>1. ((s + o) % m) + m - s = o
      BY <1>1, <2>2
    <3>2. o % m = o
      OBVIOUS
    <3> QED
      BY SMTT(60), <1>1, <2>2, <3>1, <3>2
  <2> QED
    BY <2>1, <2>2
<1>4. ASSUME NEW o \in 0 .. m - 1, NEW r \in 0 .. o
      PROVE  (s + r) % m \in Path(m, s, (s + o) % m)
  BY <1>1 DEF Path
<1> QED
  BY Zenon, <1>2, <1>3, <1>4

LEMMA OffsetOnPath ==
  ASSUME NEW m \in Nat \ {0}, NEW s \in 0 .. m - 1, NEW o \in 0 .. m - 1,
         NEW q \in Path(m, s, (s + o) % m), q # (s + o) % m
  PROVE  \E r \in 0 .. m - 1 : r < o /\ (s + r) % m = q
<1>1. q \in 0 .. m - 1
  BY DEF Path
<1>2. PICK r \in 0 .. m - 1 : (s + r) % m = q
  BY ZenonT(60), <1>1, Offsets
<1>3. (s + o) % m = IF s + o < m THEN s + o ELSE s + o - m
  <2>1. CASE s + o < m
    BY <2>1
  <2>2. CASE s + o >= m
    BY <2>2
  <2> QED
    BY <2>1, <2>2
<1>4. q = IF s + r < m THEN s + r ELSE s + r - m
  <2>1. CASE s + r < m
    BY <1>2, <2>1
  <2>2. CASE s + r >= m
    BY <1>2, <2>2
  <2> QED
    BY <2>1, <2>2
<1>5. r < o
  BY SMTT(60), <1>1, <1>3, <1>4 DEF Path
<1> QED
  BY SMTT(60), <1>2, <1>5

(***************************************************************************)
(* The hash position of a key.                                             *)
(***************************************************************************)
LEMMA HashPosition ==
  ASSUME NEW k \in Key, NEW m \in Nat \ {0}
  PROVE  HashPos(k, m) \in 0 .. m - 1
<1>1. Hash[k] \in Nat
  BY KeyAssumption
<1> QED
  BY <1>1 DEF HashPos

(***************************************************************************)
(* The walk of resize_hashtable ends at a free entry, after entries that   *)
(* are in use.                                                             *)
(***************************************************************************)
LEMMA FirstFree ==
  ASSUME NEW m \in Nat \ {0}, NEW table, NEW k \in Key,
         \E p \in 0 .. m - 1 : table[p] = EMPTY
  PROVE  /\ FreePosition(table, m, k) \in 0 .. m - 1
         /\ table[FreePosition(table, m, k)] = EMPTY
         /\ \A q \in Path(m, HashPos(k, m), FreePosition(table, m, k))
                     \ {FreePosition(table, m, k)} : table[q] # EMPTY
<1>1. PICK s \in 0 .. m - 1 : s = HashPos(k, m)
  BY HashPosition
<1> DEFINE at(o) == (s + o) % m
           O == {o \in 0 .. m - 1 : table[at(o)] = EMPTY}
<1>2. FreePosition(table, m, k) = at(Min(O))
  BY Zenon, <1>1 DEF FreePosition
<1>a. \A p \in 0 .. m - 1 : \E o \in 0 .. m - 1 : at(o) = p
  BY Zenon, <1>1, Offsets
<1>b. \A o \in 0 .. m - 1 : at(o) \in 0 .. m - 1
  BY ZenonT(60), <1>1, Offsets
<1>c. ASSUME NEW o \in 0 .. m - 1, NEW q \in Path(m, s, at(o)), q # at(o)
      PROVE  \E r \in 0 .. m - 1 : r < o /\ at(r) = q
  BY ZenonT(60), <1>1, <1>c, OffsetOnPath
<1>3. O # {}
  BY Zenon, <1>a
<1>4. Min(O) \in O /\ \A o \in O : Min(O) <= o
  <2>1. O \in SUBSET Nat
    OBVIOUS
  <2> HIDE DEF O
  <2> QED
    BY <1>3, <2>1, MinIsLeast
<1>5. /\ Min(O) \in 0 .. m - 1 /\ table[at(Min(O))] = EMPTY
      /\ \A o \in 0 .. m - 1 : table[at(o)] = EMPTY => Min(O) <= o
  BY Zenon, <1>4
<1>6. PICK f \in 0 .. m - 1 : f = Min(O)
  BY Zenon, <1>5
<1> HIDE DEF O
<1>7. at(f) \in 0 .. m - 1 /\ table[at(f)] = EMPTY
  BY Zenon, <1>5, <1>6, <1>b
<1>8. ASSUME NEW q \in Path(m, s, at(f)), q # at(f)
      PROVE  table[q] # EMPTY
  <2>1. PICK r \in 0 .. m - 1 : r < f /\ at(r) = q
    BY ZenonT(60), <1>c, <1>8
  <2>2. ~(f <= r)
    BY <2>1
  <2> QED
    BY SMTT(60), <1>5, <1>6, <2>1, <2>2
<1>9. FreePosition(table, m, k) = at(f)
  BY ZenonT(60), <1>2, <1>6
<1> QED
  BY ZenonT(60), <1>1, <1>7, <1>8, <1>9

(***************************************************************************)
(* A table in which resize_hashtable has put the keys numbered below n:    *)
(* each of them is in one entry, and is found from its hash position.      *)
(***************************************************************************)
FilledWith(table, ks, n, m) ==
  /\ table \in [0 .. m - 1 -> (0 .. n - 1) \cup {EMPTY}]
  /\ \A p, q \in 0 .. m - 1 : table[p] # EMPTY /\ table[p] = table[q] => p = q
  /\ \A i \in 0 .. n - 1 : \E p \in 0 .. m - 1 : table[p] = i
  /\ \A p \in 0 .. m - 1 : table[p] # EMPTY =>
       \A q \in Path(m, HashPos(ks[table[p] + 1], m), p) : table[q] # EMPTY
  /\ Cardinality({p \in 0 .. m - 1 : table[p] # EMPTY}) = n

(***************************************************************************)
(* A step that changes neither the tables nor the threads that have        *)
(* claimed an entry.                                                       *)
(***************************************************************************)
TableInv == TableShape /\ ClaimsAtPositions /\ IndicesInTable /\ KeysInTable

LEMMA TableFrame ==
  ASSUME Types, TableInv, UNCHANGED tables, pos' \in [Thread -> DOMAIN hashtable],
         \A u \in Thread :
            \/ pc'[u] = pc[u] /\ pos'[u] = pos[u] /\ call'[u] = call[u]
            \/ pc[u] \notin Holding /\ pc'[u] \notin Holding
  PROVE  TableInv'
<1> USE DEF tables, TableInv
<1>1. /\ hashtable' = hashtable /\ keys' = keys /\ next_index' = next_index
      /\ TableSize' = TableSize
  BY DEF TableSize
<1>2. \A u \in Thread :
        /\ pc'[u] \in Holding <=> pc[u] \in Holding
        /\ pc[u] \in Holding =>
             pc'[u] = pc[u] /\ pos'[u] = pos[u] /\ call'[u] = call[u]
  OBVIOUS
<1>3. TableShape'
  BY <1>1 DEF TableShape
<1>4. ClaimsAtPositions'
  BY SMTT(60), <1>1, <1>2 DEF ClaimsAtPositions
<1>5. IndicesInTable'
  <2>1. \A u \in Thread :
          /\ pc'[u] \in Drawn <=> pc[u] \in Drawn
          /\ pc'[u] = "publish" <=> pc[u] = "publish"
          /\ pc[u] \in Drawn => DrawnIndex(u)' = DrawnIndex(u)
          /\ pc[u] = "publish" =>
               DrawnIndex(u)' = DrawnIndex(u) /\ Key_of(u)' = Key_of(u)
    BY <1>2 DEF Holding, Drawn, DrawnIndex, Key_of
  <2>2. \A i \in 0 .. next_index' - 1 :
          \/ \E p \in DOMAIN hashtable' : hashtable'[p] = i
          \/ \E t \in Thread : pc'[t] \in Drawn /\ DrawnIndex(t)' = i
    BY ZenonT(60), <1>1, <2>1 DEF IndicesInTable
  <2> QED
    BY <1>1, <2>1, <2>2 DEF IndicesInTable
<1>6. KeysInTable'
  <2>1. \A p, k : Holds(p, k)' <=> Holds(p, k)
    BY ZenonT(60), <1>1, <1>2 DEF Holds, Key_of
  <2> QED
    BY Zenon, <1>1, <2>1 DEF KeysInTable, Home, HashPos
<1> QED
  BY <1>3, <1>4, <1>5, <1>6

(***************************************************************************)
(* A step that keeps the published entries: every walk stays where it was, *)
(* has just begun at the hash position of its key, or has passed a         *)
(* published entry of another key.                                         *)
(***************************************************************************)
Walked(t) ==
  \/ /\ pc[t] \in Walking /\ pos'[t] = pos[t] /\ Key_of(t)' = Key_of(t)
  \/ pos'[t] = Home(Key_of(t)')
  \/ /\ pc[t] \in Walking /\ Key_of(t)' = Key_of(t)
     /\ pos'[t] = (pos[t] + 1) % TableSize
     /\ hashtable[pos[t]] \in Nat /\ keys[hashtable[pos[t]] + 1] # Key_of(t)

LEMMA WalkFrame ==
  ASSUME TableShape, WalksPassed, TableSize' = TableSize, pos' \in [Thread -> 0 .. TableSize - 1],
         \A q \in 0 .. TableSize - 1 : hashtable[q] \in Nat =>
            hashtable'[q] = hashtable[q] /\ keys'[hashtable[q] + 1] = keys[hashtable[q] + 1],
         \A t \in Thread : pc'[t] \in Walking => Walked(t) /\ Key_of(t)' \in Key
  PROVE  WalksPassed'
<1> SUFFICES ASSUME NEW t \in Thread, pc'[t] \in Walking,
                    NEW q \in Path(TableSize, Home(Key_of(t)'), pos'[t]), q # pos'[t]
             PROVE  hashtable'[q] \in Nat /\ keys'[hashtable'[q] + 1] # Key_of(t)'
  BY DEF WalksPassed, Home, HashPos
<1>1. q \in 0 .. TableSize - 1
  BY DEF Path
<1>2. CASE pc[t] \in Walking /\ pos'[t] = pos[t] /\ Key_of(t)' = Key_of(t)
  BY ZenonT(60), <1>1, <1>2 DEF WalksPassed
<1>3. CASE pos'[t] = Home(Key_of(t)')
  <2>1. \A s \in 0 .. TableSize - 1 : \A r \in Path(TableSize, s, s) : r = s
    BY DEF Path
  <2> QED
    BY <1>3, <2>1
<1>4. CASE /\ pc[t] \in Walking /\ Key_of(t)' = Key_of(t)
           /\ pos'[t] = (pos[t] + 1) % TableSize
           /\ hashtable[pos[t]] \in Nat /\ keys[hashtable[pos[t]] + 1] # Key_of(t)
  <2>1. TableSize \in Nat \ {0} /\ pos[t] \in 0 .. TableSize - 1
    BY DEF TableShape
  <2>2. Home(Key_of(t)) \in 0 .. TableSize - 1
    BY SMTT(60), <1>4, <2>1, HashPosition DEF Home
  <2>3. q \in Path(TableSize, Home(Key_of(t)), pos[t])
    <3>1. pos'[t] = IF pos[t] = TableSize - 1 THEN 0 ELSE pos[t] + 1
      BY <1>4, <2>1, Successor
    <3> QED
      BY SMTT(60), <1>4, <2>1, <2>2, <3>1 DEF Path
  <2>4. hashtable[q] \in Nat /\ keys[hashtable[q] + 1] # Key_of(t)
    <3>1. CASE q = pos[t]
      BY <1>4, <3>1
    <3>2. CASE q # pos[t]
      BY Zenon, <1>4, <2>3, <3>2 DEF WalksPassed
    <3> QED
      BY <3>1, <3>2
  <2> QED
    BY Zenon, <1>1, <1>4, <2>4
<1> QED
  BY <1>2, <1>3, <1>4 DEF Walked

(***************************************************************************)
(* When a walk for a key has reached an EMPTY entry, no entry has that key *)
(* or will have it.                                                        *)
(***************************************************************************)
LEMMA PathsMeet ==
  ASSUME NEW m \in Nat \ {0}, NEW s \in 0 .. m - 1, NEW p \in 0 .. m - 1, NEW q \in 0 .. m - 1
  PROVE  p \in Path(m, s, q) \/ q \in Path(m, s, p)
BY DEF Path

LEMMA HeldInUse ==
  ASSUME TableShape, ClaimsAtPositions, NEW p \in DOMAIN hashtable, NEW k, Holds(p, k)
  PROVE  hashtable[p] # EMPTY
BY SpecialAssumption DEF Holds, ClaimsAtPositions

LEMMA AbsentKey ==
  ASSUME TableInv, WalksPassed, NEW t \in Thread, pc[t] \in Walking,
         Key_of(t) \in Key, hashtable[pos[t]] = EMPTY, NEW p \in DOMAIN hashtable
  PROVE  ~Holds(p, Key_of(t))
<1> SUFFICES ASSUME Holds(p, Key_of(t)) PROVE FALSE
  OBVIOUS
<1> DEFINE h == Home(Key_of(t))
<1>1. /\ TableSize \in Nat \ {0} /\ DOMAIN hashtable = 0 .. TableSize - 1
      /\ p \in 0 .. TableSize - 1 /\ pos[t] \in 0 .. TableSize - 1
  BY DEF TableInv, TableShape
<1>2. h \in 0 .. TableSize - 1
  BY <1>1, HashPosition DEF Home
<1>3. p # pos[t]
  BY HeldInUse DEF TableInv
<1> HIDE DEF h
<1>4. CASE p \in Path(TableSize, h, pos[t])
  <2>1. hashtable[p] \in Nat /\ keys[hashtable[p] + 1] # Key_of(t)
    BY Zenon, <1>3, <1>4 DEF WalksPassed, h
  <2> QED
    BY <2>1, SpecialAssumption DEF Holds, TableInv, ClaimsAtPositions
<1>5. CASE pos[t] \in Path(TableSize, h, p)
  BY Zenon, <1>5 DEF TableInv, KeysInTable, h
<1> QED
  BY <1>1, <1>2, <1>4, <1>5, PathsMeet

(***************************************************************************)
(* IndicesInTable depends on the published entries and the drawn indices   *)
(* only.                                                                   *)
(***************************************************************************)
LEMMA DrawnInRange ==
  ASSUME Types, CallAtPoint, NEW t \in Thread, pc[t] \in Drawn
  PROVE  /\ DrawnIndex(t) \in Nat /\ DrawnIndex(t) < next_index /\ Key_of(t) \in Key
         /\ call[t] = Done("insert", Key_of(t), <<DrawnIndex(t), TRUE>>)
<1>1. PICK k \in Key, i \in 0 .. next_index - 1 : call[t] = Done("insert", k, <<i, TRUE>>)
  BY Zenon DEF CallAtPoint, CallOf
<1> QED
  <2>1. next_index \in Nat
    BY DEF Types
  <2> QED
    BY <1>1, <2>1 DEF DrawnIndex, Key_of, Done

LEMMA SameIndices ==
  ASSUME Types, CallAtPoint, IndicesInTable, DOMAIN hashtable' = DOMAIN hashtable,
         UNCHANGED <<keys, next_index>>,
         \A p \in DOMAIN hashtable : \A i \in Nat : hashtable'[p] = i <=> hashtable[p] = i,
         \A u \in Thread : /\ pc'[u] \in Drawn <=> pc[u] \in Drawn
                           /\ pc'[u] = "publish" <=> pc[u] = "publish"
                           /\ Key_of(u)' = Key_of(u) /\ DrawnIndex(u)' = DrawnIndex(u)
  PROVE  IndicesInTable'
<1>1. \A u \in Thread : pc[u] \in Drawn => DrawnIndex(u) \in Nat
  BY Zenon, DrawnInRange
<1>2. \A p \in DOMAIN hashtable : hashtable'[p] \in Nat => hashtable[p] = hashtable'[p]
  OBVIOUS
<1>3. /\ \A p \in DOMAIN hashtable' :
           hashtable'[p] \in Nat => hashtable'[p] < next_index' /\ keys'[hashtable'[p] + 1] \in Key
      /\ \A p, q \in DOMAIN hashtable' :
           hashtable'[p] \in Nat /\ hashtable'[p] = hashtable'[q] => p = q
  BY <1>2 DEF IndicesInTable
<1>4. \A u \in Thread : pc'[u] \in Drawn =>
         \A p \in DOMAIN hashtable' : hashtable'[p] # DrawnIndex(u)'
  <2>1. \A u \in Thread : pc[u] \in Drawn =>
          \A p \in DOMAIN hashtable : hashtable[p] # DrawnIndex(u)
    BY DEF IndicesInTable
  <2> QED
    BY Zenon, <1>1, <2>1
<1>5. /\ \A v, u \in Thread :
           pc'[v] \in Drawn /\ pc'[u] \in Drawn /\ DrawnIndex(v)' = DrawnIndex(u)' => v = u
      /\ \A u \in Thread : pc'[u] = "publish" => keys'[DrawnIndex(u)' + 1] = Key_of(u)'
  <2>1. \A v, u \in Thread :
          pc[v] \in Drawn /\ pc[u] \in Drawn /\ DrawnIndex(v) = DrawnIndex(u) => v = u
    BY DEF IndicesInTable
  <2>2. \A u \in Thread : pc[u] = "publish" => keys[DrawnIndex(u) + 1] = Key_of(u)
    BY DEF IndicesInTable
  <2> QED
    BY Zenon, <2>1, <2>2
<1>6. \A i \in 0 .. next_index' - 1 :
        \/ \E p \in DOMAIN hashtable' : hashtable'[p] = i
        \/ \E u \in Thread : pc'[u] \in Drawn /\ DrawnIndex(u)' = i
  <2>1. \A i \in 0 .. next_index' - 1 : i \in Nat
    BY DEF Types
  <2>2. \A i \in 0 .. next_index' - 1 :
          \/ \E p \in DOMAIN hashtable : hashtable[p] = i
          \/ \E u \in Thread : pc[u] \in Drawn /\ DrawnIndex(u) = i
    BY DEF IndicesInTable
  <2> QED
    BY Zenon, <2>1, <2>2
<1> QED
  BY <1>3, <1>4, <1>5, <1>6 DEF IndicesInTable

(***************************************************************************)
(* put_in_hashtable claims an EMPTY entry.                                 *)
(***************************************************************************)
LEMMA ClaimTable ==
  ASSUME Types, CallAtPoint, TableInv, WalksPassed, NEW t \in Thread, pc[t] = "cas", Key_of(t) \in Key,
         hashtable[pos[t]] = EMPTY, hashtable' = [hashtable EXCEPT ![pos[t]] = RESERVED],
         pc' = [pc EXCEPT ![t] = "fetch"], UNCHANGED <<pos, call, keys, next_index>>
  PROVE  TableInv'
<1> USE DEF TableInv
<1> DEFINE P == 0 .. TableSize - 1
<1>1. /\ DOMAIN hashtable = P /\ pos[t] \in P /\ TableSize \in Nat \ {0}
      /\ \A u \in Thread : pos[u] \in P
  BY DEF TableShape
<1>2. /\ hashtable' = [q \in P |-> IF q = pos[t] THEN RESERVED ELSE hashtable[q]]
      /\ TableSize' = TableSize
  BY ZenonT(60), <1>1 DEF TableSize
<1>3. \A u \in Thread : /\ pc'[u] = IF u = t THEN "fetch" ELSE pc[u]
                        /\ Key_of(u)' = Key_of(u) /\ DrawnIndex(u)' = DrawnIndex(u)
  BY DEF Types, Key_of, DrawnIndex
<1>4. /\ EMPTY \notin Nat /\ RESERVED \notin Nat /\ EMPTY # RESERVED
      /\ "fetch" \in Holding /\ "fetch" \notin Drawn /\ pc[t] \notin Holding /\ pc[t] \notin Drawn
      /\ "fetch" # "publish" /\ pc[t] # "publish"
  BY SpecialAssumption DEF Holding, Drawn
<1>5. TableShape'
  BY <1>1, <1>2 DEF TableShape
<1>6. ClaimsAtPositions'
  BY <1>1, <1>2, <1>3, <1>4 DEF ClaimsAtPositions
<1>7. IndicesInTable'
  <2>1. \A p \in P : \A i \in Nat : hashtable'[p] = i <=> hashtable[p] = i
    BY <1>2, <1>4
  <2>3. \A u \in Thread : /\ pc'[u] \in Drawn <=> pc[u] \in Drawn
                          /\ pc'[u] = "publish" <=> pc[u] = "publish"
    BY <1>3, <1>4
  <2>5. DOMAIN hashtable' = P
    BY <1>2
  <2> HIDE DEF P
  <2> QED
    BY <1>1, <1>3, <2>1, <2>3, <2>5, SameIndices
<1>8. KeysInTable'
  <2>1. \A p \in P, k \in Key :
          Holds(p, k)' <=> Holds(p, k) \/ (p = pos[t] /\ k = Key_of(t))
    BY SMTT(60), <1>1, <1>2, <1>3, <1>4 DEF Holds
  <2>2. \A p \in P : ~Holds(p, Key_of(t))
    BY <1>1, AbsentKey DEF Walking
  <2>a. \A k \in Key : \A p, q \in P : Holds(p, k) /\ Holds(q, k) => p = q
    BY <1>1 DEF KeysInTable
  <2>3. \A k \in Key : \A p, q \in P : Holds(p, k)' /\ Holds(q, k)' => p = q
    BY ZenonT(60), <2>a, <2>1, <2>2
  <2>4. ASSUME NEW k \in Key, NEW p \in P, Holds(p, k)', NEW q \in Path(TableSize, Home(k), p)
        PROVE  hashtable'[q] # EMPTY
    <3>1. q \in P
      BY DEF Path
    <3>2. q = pos[t] \/ hashtable[q] # EMPTY
      <4>1. CASE Holds(p, k)
        BY Zenon, <1>1, <2>4, <4>1 DEF KeysInTable
      <4>2. CASE p = pos[t] /\ k = Key_of(t)
        BY <1>4, <2>4, <4>2 DEF WalksPassed, Walking
      <4> QED
        BY <2>1, <2>4, <4>1, <4>2
    <3> QED
      BY <1>2, <1>4, <3>1, <3>2
  <2>5. \A k : Home(k)' = Home(k)
    BY <1>2 DEF Home, HashPos
  <2>6. DOMAIN hashtable' = P
    BY <1>2
  <2> QED
    BY SMTT(60), <1>2, <2>3, <2>4, <2>5, <2>6 DEF KeysInTable
<1> QED
  BY <1>5, <1>6, <1>7, <1>8

(***************************************************************************)
(* KeysInTable depends on which entries hold which keys, and on which of   *)
(* them are EMPTY.                                                         *)
(***************************************************************************)
LEMMA SameHolders ==
  ASSUME TableShape, KeysInTable, DOMAIN hashtable' = DOMAIN hashtable,
         \A p \in DOMAIN hashtable : \A k \in Key : Holds(p, k)' => Holds(p, k),
         \A p \in DOMAIN hashtable : hashtable'[p] = EMPTY => hashtable[p] = EMPTY
  PROVE  KeysInTable'
<1>1. TableSize' = TableSize /\ \A k : Home(k)' = Home(k)
  BY DEF TableSize, Home, HashPos
<1>2. \A k \in Key : \A p, q \in DOMAIN hashtable' : Holds(p, k)' /\ Holds(q, k)' => p = q
  <2>1. \A k \in Key : \A p, q \in DOMAIN hashtable : Holds(p, k) /\ Holds(q, k) => p = q
    BY DEF KeysInTable
  <2> QED
    BY Zenon, <2>1
<1>3. ASSUME NEW k \in Key, NEW p \in DOMAIN hashtable', Holds(p, k)',
             NEW q \in Path(TableSize', Home(k)', p)
      PROVE  hashtable'[q] # EMPTY
  <2>1. hashtable[q] # EMPTY
    BY Zenon, <1>1, <1>3 DEF KeysInTable
  <2>2. q \in DOMAIN hashtable
    <3>1. q \in 0 .. TableSize - 1
      BY <1>1, <1>3 DEF Path
    <3> QED
      BY <3>1 DEF TableShape
  <2> QED
    BY Zenon, <2>1, <2>2
<1> QED
  BY Zenon, <1>2, <1>3 DEF KeysInTable

(***************************************************************************)
(* The three steps that number a new key: an index is drawn, the key is    *)
(* written, and the index is published in the claimed entry.               *)
(***************************************************************************)
LEMMA DrawTable ==
  ASSUME Types, CallAtPoint, TableInv, NEW t \in Thread, fetch_add(t), pc'[t] # "failed"
  PROVE  TableInv'
<1> USE DEF TableInv
<1>1. /\ pc[t] = "fetch" /\ pc' = [pc EXCEPT ![t] = "store"] /\ next_index' = next_index + 1
      /\ UNCHANGED <<hashtable, keys, pos>> /\ TableSize' = TableSize
  BY Zenon DEF fetch_add, Types, TableSize
<1>3. call' = [call EXCEPT ![t] = Done("insert", Key_of(t), <<next_index, TRUE>>)]
  BY DEF fetch_add, Key_of
<1>4. Key_of(t)' = Key_of(t) /\ DrawnIndex(t)' = next_index
  BY <1>3 DEF Types, Key_of, DrawnIndex, Done
<1>5. \A u \in Thread \ {t} : Key_of(u)' = Key_of(u) /\ DrawnIndex(u)' = DrawnIndex(u)
  BY <1>3 DEF Types, Key_of, DrawnIndex
<1>6. /\ \A u \in Thread : pc'[u] = IF u = t THEN "store" ELSE pc[u]
      /\ \A u \in Thread : pc'[u] \in Holding <=> pc[u] \in Holding
      /\ "store" \in Drawn /\ pc[t] \notin Drawn /\ "store" # "publish"
  BY <1>1 DEF Types, Holding, Drawn
<1>7. TableShape'
  BY <1>1 DEF TableShape
<1>8. ClaimsAtPositions'
  BY Zenon, <1>1, <1>6 DEF ClaimsAtPositions
<1>9. IndicesInTable'
  <2>1. \A u \in Thread : pc[u] \in Drawn => DrawnIndex(u) \in Nat /\ DrawnIndex(u) < next_index
    BY Zenon, DrawnInRange
  <2>2. next_index \in Nat /\ \A p \in DOMAIN hashtable : hashtable[p] # next_index
    BY DEF IndicesInTable, Types
  <2>3. /\ \A p \in DOMAIN hashtable' :
             hashtable'[p] \in Nat => hashtable'[p] < next_index' /\ keys'[hashtable'[p] + 1] \in Key
        /\ \A p, q \in DOMAIN hashtable' :
             hashtable'[p] \in Nat /\ hashtable'[p] = hashtable'[q] => p = q
    BY <1>1, <2>2 DEF IndicesInTable
  <2>4. \A u \in Thread : pc'[u] \in Drawn =>
           \A p \in DOMAIN hashtable' : hashtable'[p] # DrawnIndex(u)'
    <3>1. \A u \in Thread : pc[u] \in Drawn =>
             \A p \in DOMAIN hashtable : hashtable[p] # DrawnIndex(u)
      BY DEF IndicesInTable
    <3> QED
      BY ZenonT(60), <1>1, <1>4, <1>5, <1>6, <2>2, <3>1
  <2>5. \A v, u \in Thread :
           pc'[v] \in Drawn /\ pc'[u] \in Drawn /\ DrawnIndex(v)' = DrawnIndex(u)' => v = u
    <3>1. \A v, u \in Thread :
             pc[v] \in Drawn /\ pc[u] \in Drawn /\ DrawnIndex(v) = DrawnIndex(u) => v = u
      BY DEF IndicesInTable
    <3>2. \A u \in Thread : pc[u] \in Drawn => DrawnIndex(u) # next_index
      BY <2>1, <2>2
    <3> QED
      BY ZenonT(60), <1>4, <1>5, <1>6, <3>1, <3>2
  <2>6. \A u \in Thread : pc'[u] = "publish" => keys'[DrawnIndex(u)' + 1] = Key_of(u)'
    <3>1. \A u \in Thread : pc[u] = "publish" => keys[DrawnIndex(u) + 1] = Key_of(u)
      BY DEF IndicesInTable
    <3> QED
      BY ZenonT(60), <1>1, <1>5, <1>6, <3>1
  <2>7. \A i \in 0 .. next_index' - 1 :
          \/ \E p \in DOMAIN hashtable' : hashtable'[p] = i
          \/ \E u \in Thread : pc'[u] \in Drawn /\ DrawnIndex(u)' = i
    <3>1. \A i \in 0 .. next_index - 1 :
            \/ \E p \in DOMAIN hashtable : hashtable[p] = i
            \/ \E u \in Thread : pc[u] \in Drawn /\ DrawnIndex(u) = i
      BY DEF IndicesInTable
    <3>2. \A i \in 0 .. next_index' - 1 : i = next_index \/ i \in 0 .. next_index - 1
      BY <1>1, <2>2
    <3>3. \A u \in Thread : pc[u] \in Drawn => pc'[u] \in Drawn /\ DrawnIndex(u)' = DrawnIndex(u)
      BY ZenonT(60), <1>5, <1>6
    <3>4. pc'[t] \in Drawn
      BY <1>6
    <3> QED
      BY ZenonT(60), <1>1, <1>4, <3>1, <3>2, <3>3, <3>4
  <2> QED
    BY <2>3, <2>4, <2>5, <2>6, <2>7 DEF IndicesInTable
<1>10. KeysInTable'
  <2>1. \A p, k : Holds(p, k)' => Holds(p, k)
    BY ZenonT(60), <1>1, <1>4, <1>5, <1>6 DEF Holds
  <2> QED
    BY <1>1, <2>1, SameHolders
<1> QED
  BY <1>7, <1>8, <1>9, <1>10

LEMMA StoreTable ==
  ASSUME Types, CallAtPoint, TableInv, next_index <= Len(keys),
         NEW t \in Thread, store_key(t)
  PROVE  /\ TableInv'
         /\ \A p \in DOMAIN hashtable : hashtable[p] \in Nat =>
              keys'[hashtable[p] + 1] = keys[hashtable[p] + 1]
<1> USE DEF TableInv
<1>1. /\ pc[t] = "store" /\ pc' = [pc EXCEPT ![t] = "publish"]
      /\ keys' = [keys EXCEPT ![DrawnIndex(t) + 1] = Key_of(t)]
      /\ UNCHANGED <<hashtable, next_index, pos, call>> /\ TableSize' = TableSize
  BY DEF store_key, Goto, TableSize, DrawnIndex
<1>2. /\ \A u \in Thread : pc'[u] = IF u = t THEN "publish" ELSE pc[u]
      /\ \A u \in Thread : pc'[u] \in Holding <=> pc[u] \in Holding
      /\ \A u \in Thread : pc'[u] \in Drawn <=> pc[u] \in Drawn
      /\ "publish" \in Drawn /\ pc[t] \in Drawn
  BY <1>1 DEF Types, Holding, Drawn
<1>3. DrawnIndex(t) \in Nat /\ DrawnIndex(t) < next_index /\ Key_of(t) \in Key
  BY Zenon, <1>2, DrawnInRange
<1>4. \A u \in Thread : Key_of(u)' = Key_of(u) /\ DrawnIndex(u)' = DrawnIndex(u)
  BY Zenon, <1>1 DEF Key_of, DrawnIndex
<1>5. /\ keys'[DrawnIndex(t) + 1] = Key_of(t)
      /\ \A i \in Nat : i < next_index /\ i # DrawnIndex(t) => keys'[i + 1] = keys[i + 1]
  BY SMTT(60), <1>1, <1>3 DEF Types
<1>6. \A p \in DOMAIN hashtable : hashtable[p] \in Nat =>
         keys'[hashtable[p] + 1] = keys[hashtable[p] + 1]
  BY <1>2, <1>5 DEF IndicesInTable
<1>7. TableShape' /\ ClaimsAtPositions'
  BY ZenonT(60), <1>1, <1>2 DEF TableShape, ClaimsAtPositions
<1>8. IndicesInTable'
  <2>1. \A u \in Thread : pc[u] \in Drawn /\ u # t =>
           DrawnIndex(u) \in Nat /\ DrawnIndex(u) < next_index /\ DrawnIndex(u) # DrawnIndex(t)
    BY Zenon, <1>2, DrawnInRange DEF IndicesInTable
  <2>2. \A u \in Thread : pc'[u] = "publish" => keys'[DrawnIndex(u)' + 1] = Key_of(u)'
    <3>1. \A u \in Thread : pc[u] = "publish" =>
             pc[u] \in Drawn /\ keys[DrawnIndex(u) + 1] = Key_of(u)
      BY DEF IndicesInTable, Drawn
    <3>2. \A u \in Thread \ {t} : pc'[u] = "publish" => keys'[DrawnIndex(u) + 1] = Key_of(u)
      BY ZenonT(60), <1>2, <1>5, <2>1, <3>1
    <3> QED
      BY Zenon, <1>4, <1>5, <3>2
  <2>3. /\ \A p \in DOMAIN hashtable' :
             hashtable'[p] \in Nat => hashtable'[p] < next_index' /\ keys'[hashtable'[p] + 1] \in Key
        /\ \A p, q \in DOMAIN hashtable' :
             hashtable'[p] \in Nat /\ hashtable'[p] = hashtable'[q] => p = q
    BY <1>1, <1>6 DEF IndicesInTable
  <2>4. \A u \in Thread : pc'[u] \in Drawn =>
           \A p \in DOMAIN hashtable' : hashtable'[p] # DrawnIndex(u)'
    <3>1. \A u \in Thread : pc[u] \in Drawn =>
             \A p \in DOMAIN hashtable : hashtable[p] # DrawnIndex(u)
      BY DEF IndicesInTable
    <3> QED
      BY Zenon, <1>1, <1>2, <1>4, <3>1
  <2>5. \A v, u \in Thread :
           pc'[v] \in Drawn /\ pc'[u] \in Drawn /\ DrawnIndex(v)' = DrawnIndex(u)' => v = u
    <3>1. \A v, u \in Thread :
             pc[v] \in Drawn /\ pc[u] \in Drawn /\ DrawnIndex(v) = DrawnIndex(u) => v = u
      BY DEF IndicesInTable
    <3> QED
      BY ZenonT(60), <1>2, <1>4, <3>1
  <2>6. \A i \in 0 .. next_index' - 1 :
          \/ \E p \in DOMAIN hashtable' : hashtable'[p] = i
          \/ \E u \in Thread : pc'[u] \in Drawn /\ DrawnIndex(u)' = i
    <3>1. \A i \in 0 .. next_index - 1 :
            \/ \E p \in DOMAIN hashtable : hashtable[p] = i
            \/ \E u \in Thread : pc[u] \in Drawn /\ DrawnIndex(u) = i
      BY DEF IndicesInTable
    <3> QED
      BY ZenonT(60), <1>1, <1>2, <1>4, <3>1
  <2> QED
    BY <2>2, <2>3, <2>4, <2>5, <2>6 DEF IndicesInTable
<1>9. KeysInTable'
  <2>1. \A p \in DOMAIN hashtable : \A k \in Key : Holds(p, k)' => Holds(p, k)
    BY ZenonT(60), <1>1, <1>2, <1>4, <1>6 DEF Holds
  <2> QED
    BY <1>1, <2>1, SameHolders
<1> QED
  BY SMTT(60), <1>6, <1>7, <1>8, <1>9

LEMMA PublishTable ==
  ASSUME Types, CallAtPoint, TableInv, NEW t \in Thread, publish(t)
  PROVE  /\ TableInv'
         /\ \A p \in DOMAIN hashtable : hashtable[p] \in Nat => hashtable'[p] = hashtable[p]
<1> USE DEF TableInv
<1> DEFINE P == DOMAIN hashtable
<1>1. /\ pc[t] = "publish" /\ pc' = [pc EXCEPT ![t] = "return"]
      /\ hashtable' = [hashtable EXCEPT ![pos[t]] = DrawnIndex(t)]
      /\ pos' = [pos EXCEPT ![t] = 0] /\ UNCHANGED <<keys, next_index, call>>
      /\ DOMAIN hashtable' = P /\ TableSize' = TableSize
  BY DEF publish, Goto, TableSize, DrawnIndex
<1>2. pc[t] \in Drawn /\ "return" \notin Holding /\ "return" # "publish" /\ Drawn \subseteq Holding
  BY <1>1 DEF Drawn, Holding
<1>3. DrawnIndex(t) \in Nat /\ DrawnIndex(t) < next_index /\ Key_of(t) \in Key
  BY Zenon, <1>2, DrawnInRange
<1>4. /\ hashtable[pos[t]] = RESERVED /\ RESERVED \notin Nat /\ EMPTY \notin Nat
      /\ RESERVED # EMPTY /\ pos[t] \in P
  BY <1>2, SpecialAssumption DEF ClaimsAtPositions, TableShape
<1>5. /\ \A p \in P : hashtable'[p] = IF p = pos[t] THEN DrawnIndex(t) ELSE hashtable[p]
      /\ \A u \in Thread : pc'[u] = IF u = t THEN "return" ELSE pc[u]
      /\ \A u \in Thread : pos'[u] = IF u = t THEN 0 ELSE pos[u]
  BY <1>1 DEF Types, TableShape
<1>6. \A u \in Thread : Key_of(u)' = Key_of(u) /\ DrawnIndex(u)' = DrawnIndex(u)
  BY Zenon, <1>1 DEF Key_of, DrawnIndex
<1>7. \A u \in Thread : pc[u] \in Holding /\ u # t => pos[u] # pos[t]
  BY Zenon, <1>2 DEF ClaimsAtPositions
<1>8. TableShape'
  BY <1>1, <1>3, <1>4 DEF TableShape
<1>9. ClaimsAtPositions'
  <2>1. \A u \in Thread : pc'[u] \in Holding => hashtable'[pos'[u]] = RESERVED
    <3>1. \A u \in Thread : pc[u] \in Holding => hashtable[pos[u]] = RESERVED /\ pos[u] \in P
      BY DEF ClaimsAtPositions, TableShape
    <3> QED
      BY ZenonT(60), <1>2, <1>5, <1>7, <3>1
  <2>2. \A v, u \in Thread :
          pc'[v] \in Holding /\ pc'[u] \in Holding /\ pos'[v] = pos'[u] => v = u
    <3>1. \A v, u \in Thread :
            pc[v] \in Holding /\ pc[u] \in Holding /\ pos[v] = pos[u] => v = u
      BY DEF ClaimsAtPositions
    <3> QED
      BY Zenon, <1>2, <1>5, <3>1
  <2>3. \A p \in P : hashtable'[p] = RESERVED => \E u \in Thread : pc'[u] \in Holding /\ pos'[u] = p
    <3>1. \A p \in P : hashtable[p] = RESERVED => \E u \in Thread : pc[u] \in Holding /\ pos[u] = p
      BY DEF ClaimsAtPositions
    <3>2. \A p \in P : hashtable'[p] = RESERVED => p # pos[t] /\ hashtable[p] = RESERVED
      BY ZenonT(60), <1>3, <1>4, <1>5
    <3>3. \A u \in Thread : u # t => pc'[u] = pc[u] /\ pos'[u] = pos[u]
      BY Zenon, <1>5
    <3> QED
      BY Zenon, <3>1, <3>2, <3>3
  <2> QED
    BY Zenon, <1>1, <2>1, <2>2, <2>3 DEF ClaimsAtPositions
<1>10. IndicesInTable'
  <2>1. \A u \in Thread : /\ pc'[u] \in Drawn <=> pc[u] \in Drawn /\ u # t
                          /\ pc'[u] = "publish" => pc[u] = "publish"
    BY <1>2, <1>5
  <2>2. \A p \in P : hashtable[p] # DrawnIndex(t)
    BY <1>2 DEF IndicesInTable
  <2>3. \A p \in P : hashtable'[p] \in Nat =>
          hashtable'[p] < next_index /\ keys[hashtable'[p] + 1] \in Key
    BY SMTT(60), <1>1, <1>3, <1>5 DEF IndicesInTable
  <2>4. \A p, q \in P : hashtable'[p] \in Nat /\ hashtable'[p] = hashtable'[q] => p = q
    BY <1>5, <2>2 DEF IndicesInTable
  <2>5. \A v, u \in Thread :
           pc[v] \in Drawn /\ pc[u] \in Drawn /\ DrawnIndex(v) = DrawnIndex(u) => v = u
    BY DEF IndicesInTable
  <2>6. \A u \in Thread : pc'[u] \in Drawn => \A p \in P : hashtable'[p] # DrawnIndex(u)'
    <3>1. \A u \in Thread : pc[u] \in Drawn => \A p \in P : hashtable[p] # DrawnIndex(u)
      BY DEF IndicesInTable
    <3>2. \A u \in Thread : pc'[u] \in Drawn =>
             pc[u] \in Drawn /\ DrawnIndex(u) # DrawnIndex(t) /\ DrawnIndex(u)' = DrawnIndex(u)
      BY ZenonT(60), <1>2, <1>6, <2>1, <2>5
    <3>3. \A p \in P : hashtable'[p] = DrawnIndex(t) \/ hashtable'[p] = hashtable[p]
      BY <1>5
    <3> QED
      BY ZenonT(60), <3>1, <3>2, <3>3
  <2>7. \A v, u \in Thread :
           pc'[v] \in Drawn /\ pc'[u] \in Drawn /\ DrawnIndex(v)' = DrawnIndex(u)' => v = u
    BY Zenon, <1>6, <2>1, <2>5
  <2>8. \A u \in Thread : pc'[u] = "publish" => keys'[DrawnIndex(u)' + 1] = Key_of(u)'
    <3>1. \A u \in Thread : pc[u] = "publish" => keys[DrawnIndex(u) + 1] = Key_of(u)
      BY DEF IndicesInTable
    <3> QED
      BY Zenon, <1>1, <1>6, <2>1, <3>1
  <2>9. \A i \in 0 .. next_index - 1 :
          \/ \E p \in P : hashtable'[p] = i
          \/ \E u \in Thread : pc'[u] \in Drawn /\ DrawnIndex(u)' = i
    <3>1. \A i \in 0 .. next_index - 1 :
            \/ \E p \in P : hashtable[p] = i
            \/ \E u \in Thread : pc[u] \in Drawn /\ DrawnIndex(u) = i
      BY DEF IndicesInTable
    <3>2. \A i \in 0 .. next_index - 1 : i \in Nat
      BY DEF Types
    <3>3. \A i \in Nat : \A p \in P : hashtable[p] = i => hashtable'[p] = i
      BY ZenonT(60), <1>4, <1>5
    <3>4. hashtable'[pos[t]] = DrawnIndex(t)
      BY <1>4, <1>5
    <3> QED
      BY ZenonT(60), <1>4, <1>6, <2>1, <3>1, <3>2, <3>3, <3>4
  <2> QED
    BY SMTT(60), <1>1, <2>3, <2>4, <2>6, <2>7, <2>8, <2>9 DEF IndicesInTable
<1>11. KeysInTable'
  <2>1. keys[DrawnIndex(t) + 1] = Key_of(t)
    BY <1>1 DEF IndicesInTable
  <2>2. ASSUME NEW p \in P, NEW k \in Key, Holds(p, k)'
        PROVE  Holds(p, k)
    <3>1. CASE p = pos[t] /\ k = Key_of(t)
      BY Zenon, <1>2, <3>1 DEF Holds
    <3>2. CASE p = pos[t] /\ k # Key_of(t)
      BY ZenonT(60), <1>1, <1>2, <1>5, <1>6, <1>7, <2>1, <2>2, <3>2 DEF Holds
    <3>3. CASE p # pos[t]
      <4>1. hashtable'[p] = hashtable[p] /\ keys' = keys
        BY Zenon, <1>1, <1>5, <3>3
      <4>2. \A u \in Thread : pc'[u] \in Holding => pc[u] \in Holding /\ pos'[u] = pos[u]
        BY Zenon, <1>2, <1>5
      <4> QED
        BY Zenon, <1>6, <2>2, <4>1, <4>2 DEF Holds
    <3> QED
      BY <3>1, <3>2, <3>3
  <2>3. \A p \in P : hashtable'[p] = EMPTY => hashtable[p] = EMPTY
    BY Zenon, <1>3, <1>4, <1>5
  <2> QED
    BY <1>1, <2>2, <2>3, SameHolders
<1>13. \A p \in P : hashtable[p] \in Nat => hashtable'[p] = hashtable[p]
  BY Zenon, <1>4, <1>5
<1> QED
  BY <1>8, <1>9, <1>10, <1>11, <1>13

(***************************************************************************)
(* clear empties the tables.                                               *)
(***************************************************************************)
LEMMA EraseTable ==
  ASSUME Types, ClearsAlone, TableInv, NEW t \in Thread, erase(t)
  PROVE  TableInv' /\ WalksPassed'
<1> USE DEF TableInv
<1>1. /\ pc[t] = "erase" /\ pc' = [pc EXCEPT ![t] = "erased"] /\ UNCHANGED pos
      /\ hashtable' = [p \in DOMAIN hashtable |-> EMPTY] /\ keys' = <<>> /\ next_index' = 0
  BY DEF erase, Goto
<1>2. DOMAIN hashtable' = DOMAIN hashtable /\ TableSize' = TableSize
  BY <1>1 DEF TableSize
<1>3. \A u \in Thread : pc'[u] \in {"idle", "erased"}
  BY <1>1 DEF ClearsAlone, Types
<1>4. \A u \in Thread : /\ pc'[u] \notin Holding /\ pc'[u] \notin Drawn /\ pc'[u] \notin Walking
                        /\ pc'[u] # "publish" /\ pc'[u] # "fetch"
  BY <1>3 DEF Holding, Drawn, Walking
<1>5. EMPTY \notin Nat /\ EMPTY # RESERVED
  BY SpecialAssumption
<1>6. TableShape' /\ ClaimsAtPositions' /\ IndicesInTable' /\ WalksPassed'
  BY <1>1, <1>2, <1>4, <1>5 DEF TableShape, ClaimsAtPositions, IndicesInTable, WalksPassed
<1>7. KeysInTable'
  <2>1. \A p \in DOMAIN hashtable', k \in Key : ~Holds(p, k)'
    BY <1>1, <1>4, <1>5 DEF Holds
  <2> QED
    BY ZenonT(60), <2>1 DEF KeysInTable
<1> QED
  BY <1>6, <1>7

(***************************************************************************)
(* reserve_indices under the exclusive lock: no entry is claimed, so the   *)
(* published indices are all there is.  Either m_keys alone grows, or the  *)
(* table is filled anew.                                                   *)
(***************************************************************************)
LEMMA NoClaims ==
  ASSUME TableInv, \A u \in Thread : pc[u] \notin Holding
  PROVE  /\ \A i \in 0 .. next_index - 1 : keys[i + 1] \in Key
         /\ \A i, j \in 0 .. next_index - 1 : keys[i + 1] = keys[j + 1] => i = j
<1> USE DEF TableInv
<1>1. \A u \in Thread : pc[u] \notin Drawn
  BY DEF Holding
<1>2. ASSUME NEW i \in 0 .. next_index - 1
      PROVE  \E p \in DOMAIN hashtable : hashtable[p] = i /\ Holds(p, keys[i + 1]) /\ keys[i + 1] \in Key
  <2>1. PICK p \in DOMAIN hashtable : hashtable[p] = i
    BY Zenon, <1>1 DEF IndicesInTable
  <2>2. hashtable[p] \in Nat
    BY <2>1, SpecialAssumption DEF TableShape
  <2> QED
    BY Zenon, <2>1, <2>2 DEF Holds, IndicesInTable
<1> QED
  BY Zenon, <1>2 DEF KeysInTable

Quiet ==
  \A u \in Thread : /\ pc[u] \notin Holding /\ pc[u] \notin Drawn
                    /\ pc[u] # "publish" /\ pc[u] # "fetch"

LEMMA GrowKeys ==
  ASSUME TableInv, Quiet, Quiet', next_index \in Nat, UNCHANGED <<hashtable, next_index, pos>>,
         \A i \in 0 .. next_index - 1 : keys'[i + 1] = keys[i + 1]
  PROVE  TableInv'
<1> USE DEF TableInv
<1>1. TableSize' = TableSize
  BY DEF TableSize
<1>2. \A p \in DOMAIN hashtable : hashtable[p] \in Nat =>
        hashtable[p] < next_index /\ keys'[hashtable[p] + 1] = keys[hashtable[p] + 1]
  BY DEF IndicesInTable
<1>3. TableShape' /\ ClaimsAtPositions'
  BY ZenonT(60), <1>1 DEF TableShape, ClaimsAtPositions, Quiet
<1>4. IndicesInTable'
  <2>1. \A i \in 0 .. next_index - 1 : \E p \in DOMAIN hashtable : hashtable[p] = i
    BY Zenon DEF IndicesInTable, Quiet
  <2>2. /\ \A p \in DOMAIN hashtable : hashtable[p] \in Nat =>
             hashtable[p] < next_index /\ keys'[hashtable[p] + 1] \in Key
        /\ \A p, q \in DOMAIN hashtable : hashtable[p] \in Nat /\ hashtable[p] = hashtable[q] => p = q
    BY ZenonT(60), <1>2 DEF IndicesInTable
  <2> QED
    BY <2>1, <2>2 DEF IndicesInTable, Quiet
<1>5. KeysInTable'
  <2>1. \A p \in DOMAIN hashtable : \A k \in Key : Holds(p, k)' => Holds(p, k)
    BY Zenon, <1>2 DEF Holds, Quiet
  <2> QED
    BY <2>1, SameHolders
<1> QED
  BY <1>3, <1>4, <1>5

LEMMA GrowAll ==
  ASSUME TableInv, Quiet, Quiet', next_index \in Nat, UNCHANGED <<next_index, pos>>,
         \A i \in 0 .. next_index - 1 : keys'[i + 1] = keys[i + 1],
         NEW m \in Nat, m >= TableSize, Cardinality(0 .. m - 1) = m,
         FilledWith(hashtable', keys, next_index, m)
  PROVE  TableInv'
<1> USE DEF TableInv
<1>1. /\ \A i \in 0 .. next_index - 1 : keys[i + 1] \in Key
      /\ \A i, j \in 0 .. next_index - 1 : keys[i + 1] = keys[j + 1] => i = j
  BY Zenon, NoClaims DEF Quiet
<1>2. /\ hashtable' \in [0 .. m - 1 -> (0 .. next_index - 1) \cup {EMPTY}]
      /\ DOMAIN hashtable' = 0 .. m - 1 /\ TableSize' = m
  <2>1. hashtable' \in [0 .. m - 1 -> (0 .. next_index - 1) \cup {EMPTY}]
    BY DEF FilledWith
  <2> QED
    BY <2>1 DEF TableSize
<1>3. /\ EMPTY \notin Nat /\ RESERVED \notin Nat /\ EMPTY # RESERVED
      /\ \A p \in 0 .. m - 1 :
           hashtable'[p] # EMPTY => hashtable'[p] \in 0 .. next_index - 1 /\ hashtable'[p] \in Nat
  BY <1>2, SpecialAssumption
<1>4. TableShape'
  BY <1>2, <1>3 DEF TableShape
<1>5. ClaimsAtPositions'
  BY SMTT(60), <1>2, <1>3 DEF ClaimsAtPositions, Quiet
<1>6. IndicesInTable'
  <2>1. \A p \in 0 .. m - 1 : hashtable'[p] \in Nat =>
          hashtable'[p] < next_index /\ keys'[hashtable'[p] + 1] \in Key
    BY SMTT(60), <1>1, <1>3
  <2>2. \A p, q \in 0 .. m - 1 : hashtable'[p] \in Nat /\ hashtable'[p] = hashtable'[q] => p = q
    BY Zenon, <1>3 DEF FilledWith
  <2>3. \A i \in 0 .. next_index - 1 : \E p \in 0 .. m - 1 : hashtable'[p] = i
    BY SMTT(60) DEF FilledWith
  <2> QED
    BY <1>2, <2>1, <2>2, <2>3 DEF IndicesInTable, Quiet
<1>7. KeysInTable'
  <2>1. ASSUME NEW p \in 0 .. m - 1, NEW k \in Key, Holds(p, k)'
        PROVE  /\ hashtable'[p] \in 0 .. next_index - 1 /\ hashtable'[p] # EMPTY
               /\ keys[hashtable'[p] + 1] = k
    BY SMTT(60), <1>3, <2>1 DEF Holds, Quiet
  <2>2. \A k \in Key : \A p, q \in 0 .. m - 1 : Holds(p, k)' /\ Holds(q, k)' => p = q
    <3>1. \A p, q \in 0 .. m - 1 : hashtable'[p] # EMPTY /\ hashtable'[p] = hashtable'[q] => p = q
      BY DEF FilledWith
    <3>2. ASSUME NEW k \in Key, NEW p \in 0 .. m - 1, NEW q \in 0 .. m - 1, Holds(p, k)', Holds(q, k)'
          PROVE  p = q
      <4>1. /\ hashtable'[p] \in 0 .. next_index - 1 /\ hashtable'[p] # EMPTY
            /\ keys[hashtable'[p] + 1] = k
        BY <2>1, <3>2
      <4>2. hashtable'[q] \in 0 .. next_index - 1 /\ keys[hashtable'[q] + 1] = k
        BY <2>1, <3>2
      <4> QED
        BY ZenonT(60), <1>1, <3>1, <4>1, <4>2
    <3> QED
      BY Zenon, <3>2
  <2>3. \A k \in Key : \A p \in 0 .. m - 1 : Holds(p, k)' =>
          \A q \in Path(m, HashPos(k, m), p) : hashtable'[q] # EMPTY
    <3>1. \A p \in 0 .. m - 1 : hashtable'[p] # EMPTY =>
            \A q \in Path(m, HashPos(keys[hashtable'[p] + 1], m), p) : hashtable'[q] # EMPTY
      BY DEF FilledWith
    <3> QED
      BY Zenon, <2>1, <3>1
  <2>4. \A k : Home(k)' = HashPos(k, m)
    BY <1>2 DEF Home, HashPos
  <2> QED
    BY SMTT(60), <1>2, <2>2, <2>3, <2>4 DEF KeysInTable
<1> QED
  BY <1>4, <1>5, <1>6, <1>7

Grown ==
  /\ \A i \in 0 .. next_index - 1 : keys'[i + 1] = keys[i + 1]
  /\ \/ UNCHANGED hashtable
     \/ /\ TableSize' \in Nat /\ TableSize' >= TableSize
        /\ FilledWith(hashtable', keys, next_index, TableSize')

LEMMA GrowTable ==
  ASSUME Types, ExclusiveAtPoint, SharedAtPoint, TableInv, NEW t \in Thread, grow(t), Grown
  PROVE  TableInv' /\ WalksPassed'
<1>1. /\ pc[t] = "grow" /\ pc' = [pc EXCEPT ![t] = "reserved"]
      /\ UNCHANGED <<next_index, pos, call>>
  BY DEF grow, Goto
<1>2. \A u \in Thread : pc[u] \notin InShared /\ pc'[u] \notin InShared
  BY <1>1, ThreadAssumption DEF ExclusiveAtPoint, SharedAtPoint, Types, InShared, Holding, Drawn, Walking
<1>3. Quiet /\ Quiet' /\ \A u \in Thread : pc'[u] \notin Walking
  BY <1>2 DEF Quiet, InShared, Holding, Drawn
<1>4. WalksPassed'
  BY <1>3 DEF WalksPassed
<1>5. next_index \in Nat
  BY DEF Types
<1>6. CASE UNCHANGED hashtable
  BY SMTT(60), <1>1, <1>3, <1>4, <1>5, <1>6, GrowKeys DEF Grown
<1>7. CASE /\ TableSize' \in Nat /\ TableSize' >= TableSize
           /\ FilledWith(hashtable', keys, next_index, TableSize')
  <2>1. DOMAIN hashtable' = 0 .. TableSize' - 1
    BY <1>7 DEF FilledWith
  <2>2. Cardinality(0 .. TableSize' - 1) = TableSize'
    BY Zenon, <2>1 DEF TableSize
  <2>3. PICK m \in Nat : /\ m >= TableSize /\ Cardinality(0 .. m - 1) = m
                        /\ FilledWith(hashtable', keys, next_index, m)
    BY ZenonT(60), <1>7, <2>2
  <2> QED
    BY <1>1, <1>3, <1>4, <1>5, <2>3, GrowAll DEF Grown
<1> QED
  BY <1>6, <1>7 DEF Grown

(***************************************************************************)
(* A step of one thread that leaves the tables alone.                      *)
(***************************************************************************)
LocalStep(t) ==
  /\ UNCHANGED tables
  /\ pos' \in [Thread -> 0 .. TableSize - 1]
  /\ \A u \in Thread \ {t} : pc'[u] = pc[u] /\ pos'[u] = pos[u] /\ call'[u] = call[u]
  /\ pc[t] \notin Holding /\ pc'[t] \notin Holding
  /\ pc'[t] \in Walking => Walked(t)

LEMMA WalkerKey ==
  ASSUME CallAtPoint, NEW t \in Thread, pc[t] \in Walking
  PROVE  Key_of(t) \in Key
<1>1. \E k \in Key : call[t] = Pending("insert", k) \/ call[t] = Pending("index", k)
  BY Zenon DEF CallAtPoint, CallOf, Walking, Inserting
<1> QED
  BY <1>1 DEF Pending, Key_of

LEMMA WalkersKeys ==
  ASSUME CallAtPoint'
  PROVE  \A t \in Thread : pc'[t] \in Walking => Key_of(t)' \in Key
<1> SUFFICES ASSUME NEW t \in Thread, pc'[t] \in Walking
             PROVE  Key_of(t)' \in Key
  OBVIOUS
<1>1. \E k \in Key : call'[t] = Pending("insert", k) \/ call'[t] = Pending("index", k)
  BY Zenon DEF CallAtPoint, CallOf, Walking, Inserting
<1> QED
  BY SMTT(60), <1>1 DEF Pending, Key_of

LEMMA LocalStepKeeps ==
  ASSUME Types, TableInv, WalksPassed, CallAtPoint', NEW t \in Thread, LocalStep(t)
  PROVE  TableInv' /\ WalksPassed'
<1>1. /\ hashtable' = hashtable /\ keys' = keys /\ next_index' = next_index
      /\ TableSize' = TableSize /\ TableShape /\ DOMAIN hashtable = 0 .. TableSize - 1
  BY DEF LocalStep, tables, TableSize, TableInv, TableShape
<1>2. TableInv'
  BY Zenon, <1>1, TableFrame DEF LocalStep
<1>3. \A u \in Thread : pc'[u] \in Walking => Walked(u)
  BY Zenon DEF LocalStep, Walked, Key_of
<1>4. WalksPassed'
  BY Zenon, <1>1, <1>3, WalkersKeys, WalkFrame DEF LocalStep
<1> QED
  BY <1>2, <1>4

(***************************************************************************)
(* The steps that change an entry of a table move no walk.                 *)
(***************************************************************************)
LEMMA EntryStepKeeps ==
  ASSUME TableShape, WalksPassed, CallAtPoint', NEW t \in Thread, pc'[t] \notin Walking,
         DOMAIN hashtable' = DOMAIN hashtable, pos' \in [Thread -> 0 .. TableSize - 1],
         \A u \in Thread \ {t} : pc'[u] = pc[u] /\ pos'[u] = pos[u] /\ call'[u] = call[u],
         \A q \in DOMAIN hashtable : hashtable[q] \in Nat =>
            hashtable'[q] = hashtable[q] /\ keys'[hashtable[q] + 1] = keys[hashtable[q] + 1]
  PROVE  WalksPassed'
<1>1. TableSize' = TableSize /\ DOMAIN hashtable = 0 .. TableSize - 1
  BY DEF TableSize, TableShape
<1>2. \A u \in Thread : pc'[u] \in Walking => Walked(u)
  BY Zenon DEF Walked, Key_of
<1> QED
  BY ZenonT(60), <1>1, <1>2, WalkersKeys, WalkFrame

LEMMA ExamineLocal ==
  ASSUME Types, TableShape, NEW t \in Thread, pc[t] \in {"probe", "cas"},
         Examine(t, hashtable[pos[t]]), UNCHANGED tables
  PROVE  LocalStep(t)
<1>1. /\ TableSize \in Nat \ {0} /\ pos \in [Thread -> 0 .. TableSize - 1]
      /\ pos[t] \in 0 .. TableSize - 1
  BY DEF TableShape
<1>2. (pos[t] + 1) % TableSize \in 0 .. TableSize - 1
  BY <1>1, Successor
<1>3. /\ pos' \in [Thread -> 0 .. TableSize - 1]
      /\ \A u \in Thread \ {t} : pc'[u] = pc[u] /\ pos'[u] = pos[u] /\ call'[u] = call[u]
      /\ pc[t] \in {"probe", "cas"} /\ pc'[t] \in {"probe", "return"}
  BY <1>1, <1>2 DEF Examine, Finish, Types
<1>4. pc'[t] = "probe" => Walked(t)
  <2>1. CASE pc' = [pc EXCEPT ![t] = "return"]
    BY SMTT(60), <2>1 DEF Types
  <2>2. CASE UNCHANGED <<pos, call>>
    BY SMTT(60), <2>2 DEF Walked, Walking, Key_of
  <2>3. CASE /\ hashtable[pos[t]] \in Nat /\ keys[hashtable[pos[t]] + 1] # Key_of(t)
             /\ pos' = [pos EXCEPT ![t] = (@ + 1) % TableSize] /\ UNCHANGED call
    <3>1. pos'[t] = (pos[t] + 1) % TableSize /\ Key_of(t)' = Key_of(t)
      BY <1>1, <2>3 DEF Key_of
    <3> QED
      BY <2>3, <3>1 DEF Walked, Walking
  <2> QED
    BY <2>1, <2>2, <2>3 DEF Examine
<1>5. pc[t] \notin Holding /\ pc'[t] \notin Holding /\ (pc'[t] \in Walking => pc'[t] = "probe")
  BY SMTT(60), <1>3 DEF Holding, Drawn, Walking
<1> QED
  BY <1>3, <1>4, <1>5 DEF LocalStep

LEMMA NextTable ==
  ASSUME Types, ExclusiveAtPoint, ClearsAlone, SharedAtPoint, CallAtPoint, CallAtPoint',
         TableInv, WalksPassed, [Next]_vars, next_index <= Len(keys),
         \A u \in Thread : pc'[u] # "failed" /\ (grow(u) => Grown)
  PROVE  TableInv' /\ WalksPassed'
<1>a. /\ TableSize \in Nat \ {0} /\ pos \in [Thread -> 0 .. TableSize - 1]
      /\ DOMAIN hashtable = 0 .. TableSize - 1 /\ TableShape
      /\ \A k \in Key : HashPos(k, TableSize) \in 0 .. TableSize - 1
      /\ \A u \in Thread : (pos[u] + 1) % TableSize \in 0 .. TableSize - 1
  <2>1. /\ TableSize \in Nat \ {0} /\ pos \in [Thread -> 0 .. TableSize - 1]
        /\ DOMAIN hashtable = 0 .. TableSize - 1 /\ TableShape
    BY DEF TableInv, TableShape
  <2> QED
    BY <2>1, HashPosition, Successor
<1>1. ASSUME NEW t \in Thread, NEW k \in Key, insert(t, k)
      PROVE  TableInv' /\ WalksPassed'
  <2>1. LocalStep(t)
    BY <1>a, <1>1 DEF insert, Pending, RW!AcquireShared, LocalStep, Walked, Home, Goto, Types, tables, Key_of, Holding, Drawn, Walking, Pending
  <2> QED
    BY <2>1, LocalStepKeeps
<1>2. ASSUME NEW t \in Thread, NEW k \in Key, index(t, k)
      PROVE  TableInv' /\ WalksPassed'
  <2>1. LocalStep(t)
    <3>1. /\ pc[t] = "idle" /\ pc' = [pc EXCEPT ![t] = "lookup"] /\ UNCHANGED tables
          /\ pos' = [pos EXCEPT ![t] = HashPos(k, TableSize)]
          /\ call' = [call EXCEPT ![t] = Pending("index", k)]
      BY <1>2 DEF index, Goto
    <3>2. /\ pos' \in [Thread -> 0 .. TableSize - 1] /\ pos'[t] = HashPos(k, TableSize)
          /\ call'[t] = Pending("index", k) /\ pc'[t] = "lookup"
          /\ \A u \in Thread \ {t} : pc'[u] = pc[u] /\ pos'[u] = pos[u] /\ call'[u] = call[u]
      BY SMTT(60), <1>a, <3>1 DEF Types
    <3>3. Walked(t)
      BY <3>2 DEF Walked, Home, Pending, Key_of
    <3> QED
      BY <3>1, <3>2, <3>3 DEF LocalStep, Holding, Drawn
  <2> QED
    BY <2>1, LocalStepKeeps
<1>3. ASSUME NEW t \in Thread, enough_reserved(t)
      PROVE  TableInv' /\ WalksPassed'
  <2>1. LocalStep(t)
    <3>1. /\ pc[t] = "check" /\ pc' = [pc EXCEPT ![t] = "probe"] /\ UNCHANGED <<tables, call>>
          /\ pos' = [pos EXCEPT ![t] = HashPos(Key_of(t), TableSize)]
      BY SMTT(60), <1>3 DEF enough_reserved, Goto
    <3>2. Key_of(t) \in Key
      <4>1. PICK k \in Key : call[t] = Pending("insert", k)
        BY Zenon, <3>1 DEF CallAtPoint, CallOf, Inserting
      <4> QED
        BY SMTT(60), <4>1 DEF Pending, Key_of
    <3>3. /\ pos' \in [Thread -> 0 .. TableSize - 1] /\ pos'[t] = HashPos(Key_of(t), TableSize)
          /\ pc'[t] = "probe" /\ Key_of(t)' = Key_of(t)
          /\ \A u \in Thread \ {t} : pc'[u] = pc[u] /\ pos'[u] = pos[u] /\ call'[u] = call[u]
      BY SMTT(60), <1>a, <3>1, <3>2 DEF Types, Key_of
    <3> QED
      BY <3>1, <3>3 DEF LocalStep, Walked, Home, Holding, Drawn
  <2> QED
    BY SMTT(60), <2>1, LocalStepKeeps
<1>4. ASSUME NEW t \in Thread, give_up_guard(t)
      PROVE  TableInv' /\ WalksPassed'
  <2>1. LocalStep(t)
    BY SMTT(60), <1>a, <1>4 DEF give_up_guard, RW!ReleaseShared, LocalStep, Walked, Home, Goto, Types, tables, Key_of, Holding, Drawn, Walking, Pending
  <2> QED
    BY <2>1, LocalStepKeeps
<1>5. ASSUME NEW t \in Thread, reserve_indices(t)
      PROVE  TableInv' /\ WalksPassed'
  <2>1. LocalStep(t)
    BY <1>a, <1>5 DEF reserve_indices, RW!AcquireExclusive, LocalStep, Walked, Home, Goto, Types, tables, Key_of, Holding, Drawn, Walking, Pending
  <2> QED
    BY <2>1, LocalStepKeeps
<1>6. ASSUME NEW t \in Thread, grow(t)
      PROVE  TableInv' /\ WalksPassed'
  BY SMTT(60), <1>6, GrowTable
<1>7. ASSUME NEW t \in Thread, end_reserve(t)
      PROVE  TableInv' /\ WalksPassed'
  <2>1. LocalStep(t)
    BY SMTT(60), <1>a, <1>7 DEF end_reserve, RW!ReleaseExclusive, LocalStep, Walked, Home, Goto, Types, tables, Key_of, Holding, Drawn, Walking, Pending
  <2> QED
    BY <2>1, LocalStepKeeps
<1>8. ASSUME NEW t \in Thread, relock(t)
      PROVE  TableInv' /\ WalksPassed'
  <2>1. LocalStep(t)
    <3>1. /\ pc[t] = "relock" /\ pc' = [pc EXCEPT ![t] = "probe"] /\ UNCHANGED <<tables, call>>
          /\ pos' = [pos EXCEPT ![t] = HashPos(Key_of(t), TableSize)]
      BY <1>8 DEF relock, Goto
    <3>2. Key_of(t) \in Key
      <4>1. PICK k \in Key : call[t] = Pending("insert", k)
        BY Zenon, <3>1 DEF CallAtPoint, CallOf, Inserting
      <4> QED
        BY <4>1 DEF Pending, Key_of
    <3>3. /\ pos' \in [Thread -> 0 .. TableSize - 1] /\ pos'[t] = HashPos(Key_of(t), TableSize)
          /\ pc'[t] = "probe" /\ Key_of(t)' = Key_of(t)
          /\ \A u \in Thread \ {t} : pc'[u] = pc[u] /\ pos'[u] = pos[u] /\ call'[u] = call[u]
      BY SMTT(60), <1>a, <3>1, <3>2 DEF Types, Key_of
    <3> QED
      BY <3>1, <3>3 DEF LocalStep, Walked, Home, Holding, Drawn
  <2> QED
    BY <2>1, LocalStepKeeps
<1>9. ASSUME NEW t \in Thread, put_in_hashtable(t)
      PROVE  TableInv' /\ WalksPassed'
  <2>1. LocalStep(t)
    <3>1. pc[t] = "probe" /\ UNCHANGED tables
      BY <1>9 DEF put_in_hashtable, tables
    <3>2. CASE pc' = [pc EXCEPT ![t] = "cas"] /\ UNCHANGED <<pos, call>>
      BY <1>a, <3>1, <3>2 DEF LocalStep, Walked, Types, Key_of, Holding, Drawn, Walking
    <3>3. CASE Examine(t, hashtable[pos[t]])
      BY <3>1, <3>3, ExamineLocal DEF TableInv
    <3> QED
      BY <1>9, <3>2, <3>3 DEF put_in_hashtable
  <2> QED
    BY <2>1, LocalStepKeeps
<1>10. ASSUME NEW t \in Thread, compare_exchange(t)
      PROVE  TableInv' /\ WalksPassed'
  <2>1. CASE hashtable[pos[t]] = EMPTY
    <3>1. /\ hashtable' = [hashtable EXCEPT ![pos[t]] = RESERVED] /\ pc[t] = "cas"
          /\ pc' = [pc EXCEPT ![t] = "fetch"] /\ UNCHANGED <<pos, call, keys, next_index>>
      BY ZenonT(60), <1>10, <2>1, SpecialAssumption DEF compare_exchange, Examine
    <3>2. TableInv'
      BY ZenonT(60), <2>1, <3>1, WalkerKey, ClaimTable DEF Walking
    <3>3. /\ pc'[t] \notin Walking /\ DOMAIN hashtable' = DOMAIN hashtable
          /\ \A u \in Thread \ {t} : pc'[u] = pc[u]
          /\ \A q \in DOMAIN hashtable : hashtable[q] \in Nat => hashtable'[q] = hashtable[q]
      BY <2>1, <3>1, SpecialAssumption DEF Types, Walking
    <3> QED
      BY SMTT(60), <1>a, <3>1, <3>2, <3>3, EntryStepKeeps
  <2>2. CASE hashtable[pos[t]] # EMPTY
    <3>1. LocalStep(t)
      BY <1>10, <2>2, ExamineLocal DEF compare_exchange, TableInv, tables
    <3> QED
      BY <3>1, LocalStepKeeps
  <2> QED
    BY SMTT(60), <2>1, <2>2
<1>11. ASSUME NEW t \in Thread, fetch_add(t)
      PROVE  TableInv' /\ WalksPassed'
  <2>1. TableInv'
    BY <1>11, DrawTable
  <2>2. /\ pc'[t] \notin Walking /\ UNCHANGED <<hashtable, keys, pos>>
        /\ \A u \in Thread \ {t} : pc'[u] = pc[u] /\ call'[u] = call[u]
    BY SMTT(60), <1>11 DEF fetch_add, Types, Walking
  <2> QED
    BY SMTT(60), <1>a, <2>1, <2>2, EntryStepKeeps
<1>12. ASSUME NEW t \in Thread, store_key(t)
      PROVE  TableInv' /\ WalksPassed'
  <2>1. /\ TableInv'
        /\ \A p \in DOMAIN hashtable : hashtable[p] \in Nat =>
              keys'[hashtable[p] + 1] = keys[hashtable[p] + 1]
    BY <1>12, StoreTable
  <2>2. /\ pc'[t] \notin Walking /\ UNCHANGED <<hashtable, pos, call>>
        /\ \A u \in Thread \ {t} : pc'[u] = pc[u]
    BY SMTT(60), <1>12 DEF store_key, Goto, Types, Walking
  <2>3. /\ DOMAIN hashtable' = DOMAIN hashtable /\ pos' \in [Thread -> 0 .. TableSize - 1]
        /\ \A u \in Thread \ {t} : pc'[u] = pc[u] /\ pos'[u] = pos[u] /\ call'[u] = call[u]
        /\ \A q \in DOMAIN hashtable : hashtable[q] \in Nat =>
             hashtable'[q] = hashtable[q] /\ keys'[hashtable[q] + 1] = keys[hashtable[q] + 1]
    BY Zenon, <1>a, <2>1, <2>2
  <2> QED
    BY Zenon, <1>a, <2>1, <2>2, <2>3, EntryStepKeeps
<1>13. ASSUME NEW t \in Thread, publish(t)
      PROVE  TableInv' /\ WalksPassed'
  <2>1. /\ TableInv'
        /\ \A p \in DOMAIN hashtable : hashtable[p] \in Nat => hashtable'[p] = hashtable[p]
    BY <1>13, PublishTable
  <2>2. /\ pc'[t] \notin Walking /\ UNCHANGED <<keys, call>> /\ pos' \in [Thread -> 0 .. TableSize - 1]
        /\ DOMAIN hashtable' = DOMAIN hashtable
        /\ \A u \in Thread \ {t} : pc'[u] = pc[u] /\ pos'[u] = pos[u]
    BY SMTT(60), <1>a, <1>13 DEF publish, Goto, Types, Walking
  <2>3. /\ \A u \in Thread \ {t} : pc'[u] = pc[u] /\ pos'[u] = pos[u] /\ call'[u] = call[u]
        /\ \A q \in DOMAIN hashtable : hashtable[q] \in Nat =>
             hashtable'[q] = hashtable[q] /\ keys'[hashtable[q] + 1] = keys[hashtable[q] + 1]
    BY Zenon, <2>1, <2>2
  <2> QED
    BY Zenon, <1>a, <2>1, <2>2, <2>3, EntryStepKeeps
<1>14. ASSUME NEW t \in Thread, lookup(t)
      PROVE  TableInv' /\ WalksPassed'
  <2>1. LocalStep(t)
    <3>a. pc[t] = "lookup" /\ UNCHANGED tables
      BY <1>14 DEF lookup, tables
    <3>1. /\ pc[t] = "lookup" /\ UNCHANGED tables /\ pos' \in [Thread -> 0 .. TableSize - 1]
          /\ \A u \in Thread \ {t} : pc'[u] = pc[u] /\ pos'[u] = pos[u] /\ call'[u] = call[u]
          /\ pc'[t] \in {"lookup", "return"}
      <4>1. CASE UNCHANGED <<pc, pos, call>>
        BY <1>a, <3>a, <4>1
      <4>2. CASE pc' = [pc EXCEPT ![t] = "return"] /\ \E x : Finish(t, x)
        BY SMTT(60), <1>a, <3>a, <4>2 DEF Finish, Types
      <4>3. CASE pos' = [pos EXCEPT ![t] = (@ + 1) % TableSize] /\ UNCHANGED <<pc, call>>
        BY SMTT(60), <1>a, <3>a, <4>3
      <4> QED
        BY ZenonT(60), <1>14, <4>1, <4>2, <4>3 DEF lookup
    <3>2. pc'[t] = "lookup" => Walked(t)
      <4>1. CASE pc' = [pc EXCEPT ![t] = "return"]
        BY SMTT(60), <4>1 DEF Types
      <4>2. CASE UNCHANGED <<pc, pos, call>>
        BY ZenonT(60), <3>1, <4>2 DEF Walked, Walking, Key_of
      <4>3. CASE /\ hashtable[pos[t]] \in Nat /\ keys[hashtable[pos[t]] + 1] # Key_of(t)
                 /\ pos' = [pos EXCEPT ![t] = (@ + 1) % TableSize] /\ UNCHANGED <<pc, call>>
        <5>1. pos'[t] = (pos[t] + 1) % TableSize /\ Key_of(t)' = Key_of(t)
          BY ZenonT(60), <1>a, <4>3 DEF Key_of
        <5>2. pc[t] \in Walking
          BY <3>a DEF Walking
        <5> QED
          BY Zenon, <4>3, <5>1, <5>2 DEF Walked
      <4> QED
        BY <1>14, <4>1, <4>2, <4>3 DEF lookup
    <3> QED
      BY ZenonT(60), <3>1, <3>2 DEF LocalStep, Holding, Drawn, Walking
  <2> QED
    BY <2>1, LocalStepKeeps
<1>15. ASSUME NEW t \in Thread, return(t)
      PROVE  TableInv' /\ WalksPassed'
  <2>1. LocalStep(t)
    BY SMTT(60), <1>a, <1>15 DEF return, RW!ReleaseShared, LocalStep, Walked, Home, Goto, Types, tables, Key_of, Holding, Drawn, Walking, Pending
  <2> QED
    BY <2>1, LocalStepKeeps
<1>16. ASSUME NEW t \in Thread, size(t)
      PROVE  TableInv' /\ WalksPassed'
  <2>1. LocalStep(t)
    BY SMTT(60), <1>a, <1>16 DEF size, RW!AcquireShared, LocalStep, Walked, Home, Goto, Types, tables, Key_of, Holding, Drawn, Walking, Pending
  <2> QED
    BY <2>1, LocalStepKeeps
<1>17. ASSUME NEW t \in Thread, read_size(t)
      PROVE  TableInv' /\ WalksPassed'
  <2>1. LocalStep(t)
    BY SMTT(60), <1>a, <1>17 DEF read_size, Finish, LocalStep, Walked, Home, Goto, Types, tables, Key_of, Holding, Drawn, Walking, Pending
  <2> QED
    BY <2>1, LocalStepKeeps
<1>18. ASSUME NEW t \in Thread, operator_at(t)
      PROVE  TableInv' /\ WalksPassed'
  <2>1. LocalStep(t)
    BY SMTT(60), <1>a, <1>18 DEF operator_at, LocalStep, Walked, Home, Goto, Types, tables, Key_of, Holding, Drawn, Walking, Pending
  <2> QED
    BY <2>1, LocalStepKeeps
<1>19. ASSUME NEW t \in Thread, end_operator_at(t)
      PROVE  TableInv' /\ WalksPassed'
  <2>1. LocalStep(t)
    BY SMTT(60), <1>a, <1>19 DEF end_operator_at, LocalStep, Walked, Home, Goto, Types, tables, Key_of, Holding, Drawn, Walking, Pending
  <2> QED
    BY <2>1, LocalStepKeeps
<1>20. ASSUME NEW t \in Thread, clear(t)
      PROVE  TableInv' /\ WalksPassed'
  <2>1. LocalStep(t)
    BY <1>a, <1>20 DEF clear, RW!AcquireExclusive, LocalStep, Walked, Home, Goto, Types, tables, Key_of, Holding, Drawn, Walking, Pending
  <2> QED
    BY <2>1, LocalStepKeeps
<1>21. ASSUME NEW t \in Thread, erase(t)
      PROVE  TableInv' /\ WalksPassed'
  BY SMTT(60), <1>21, EraseTable
<1>22. ASSUME NEW t \in Thread, end_clear(t)
      PROVE  TableInv' /\ WalksPassed'
  <2>1. LocalStep(t)
    BY <1>a, <1>22 DEF end_clear, RW!ReleaseExclusive, LocalStep, Walked, Home, Goto, Types, tables, Key_of, Holding, Drawn, Walking, Pending
  <2> QED
    BY <2>1, LocalStepKeeps
<1>23. CASE UNCHANGED vars
  <2>1. UNCHANGED <<tables, pc, pos, call>>
    BY SMTT(60), <1>23 DEF vars
  <2>2. TableInv'
    BY ZenonT(60), <1>a, <2>1, TableFrame
  <2>3. WalksPassed'
    BY <2>1 DEF WalksPassed, tables, TableSize, Home, HashPos, Key_of
  <2> QED
    BY <2>2, <2>3
<1> QED
  BY SMTT(60), <1>1, <1>2, <1>3, <1>4, <1>5, <1>6, <1>7, <1>8, <1>9, <1>10, <1>11, <1>12, <1>13, <1>14, <1>15, <1>16, <1>17, <1>18, <1>19, <1>20, <1>21, <1>22, <1>23 DEF Next, Insert
=============================================================================
