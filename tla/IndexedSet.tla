------------------------------ MODULE IndexedSet ------------------------------
(***************************************************************************)
(* The concurrent indexed_set of libraries/utilities: a table of keys that *)
(* gives each key a number, and a hash table with linear probing that maps *)
(* a key to its number.  insert and index work under a shared lock and     *)
(* synchronise on the entries of the hash table; the tables are enlarged   *)
(* and cleared under an exclusive lock.  The lock is the abstract          *)
(* readers-writer lock that shared_mutex implements.                       *)
(*                                                                         *)
(* One action is one atomic access to the hash table, to m_next_index or   *)
(* to an entry of m_keys.  The code under the exclusive lock is one step.  *)
(***************************************************************************)
EXTENDS Naturals, Sequences, FiniteSets, FiniteSetsExt

CONSTANTS
  Thread, NoThread,
  Key, NoKey,            \* NoKey: a default-constructed entry of m_keys
  EMPTY, RESERVED,       \* the two special values of a hash table entry
  npos,
  Hash,                  \* the hash value of each key, a natural number
  minimal_hashtable_size,
  RESERVATION_FRACTION

ASSUME ThreadAssumption == IsFiniteSet(Thread) /\ NoThread \notin Thread
ASSUME KeyAssumption == NoKey \notin Key /\ Hash \in [Key -> Nat]
ASSUME SizeAssumption ==
  /\ minimal_hashtable_size \in Nat /\ minimal_hashtable_size >= 8
  /\ RESERVATION_FRACTION \in Nat \ {0}
ASSUME SpecialAssumption ==
  EMPTY \notin Nat /\ RESERVED \notin Nat /\ npos \notin Nat /\ EMPTY # RESERVED

VARIABLES
  writer, readers,   \* the readers-writer lock m_shared_mutexes
  hashtable,         \* m_hashtable, a function on 0 .. size - 1
  keys,              \* m_keys; index i is at position i + 1
  next_index,        \* m_next_index
  pc,                \* where each thread is
  pos,               \* the hash table position that each thread is looking at
  call               \* the operation of each thread, its key and its result

lockvars == <<writer, readers>>
tables == <<hashtable, keys, next_index>>
vars == <<lockvars, tables, pc, pos, call>>

RW == INSTANCE ReadersWriterLock
Idle == [op |-> "none"]
Pending(op, k) == [op |-> op, key |-> k, done |-> FALSE]
Done(op, k, r) == [op |-> op, key |-> k, done |-> TRUE, result |-> r]

\* m_shared_mutexes.size(): one per thread, and one for the main thread.
mutexes == IF Cardinality(Thread) = 1 THEN 1 ELSE Cardinality(Thread) + 1

PC == {"idle", "check", "reserve", "grow", "reserved", "relock", "probe",
       "cas", "fetch", "store", "publish", "lookup", "size", "reading",
       "erase", "erased", "return", "failed"}

TableSize == Cardinality(DOMAIN hashtable)
HashPos(k, size) == Hash[k] % size
Key_of(t) == call[t].key

Init ==
  /\ RW!Init
  /\ hashtable = [p \in 0 .. minimal_hashtable_size - 1 |-> EMPTY]
  /\ keys = <<>>
  /\ next_index = 0
  /\ pc = [t \in Thread |-> "idle"]
  /\ pos = [t \in Thread |-> 0]
  /\ call = [t \in Thread |-> Idle]

Goto(t, from, to) ==
  /\ pc[t] = from
  /\ pc' = [pc EXCEPT ![t] = to]

\* The position is a local variable of the call and dies with it.
Finish(t, r) ==
  /\ call' = [call EXCEPT ![t] = Done(@.op, @.key, r)]
  /\ pos' = [pos EXCEPT ![t] = 0]

\* Mutants of the helpers below: a walk that starts one position too far, no
\* resize, and a reserve for a single thread.
Mutant_FreePosition(table, size, k) ==
  LET at(o) == (HashPos(k, size) + 1 + o) % size
  IN  at(Min({o \in 0 .. size - 1 : table[at(o)] = EMPTY}))

Mutant_LargeEnough(size, n) == size
Mutant_MustReserve == next_index + 1 >= Len(keys)

(***************************************************************************)
(* resize_hashtable: a table of the given size in which the keys numbered  *)
(* below n are put one by one, each at the first free position from its    *)
(* own hash position onwards.                                              *)
(***************************************************************************)
FreePosition(table, size, k) ==
  LET at(o) == (HashPos(k, size) + o) % size
  IN  at(Min({o \in 0 .. size - 1 : table[at(o)] = EMPTY}))

resize_hashtable(ks, n, size) ==
  LET filled[i \in 0 .. n] ==
        IF i = 0 THEN [p \in 0 .. size - 1 |-> EMPTY]
        ELSE [filled[i - 1] EXCEPT ![FreePosition(filled[i - 1], size, ks[i])] = i - 1]
  IN  filled[n]

\* The loop of reserve_indices doubles the table until its load is at most 0.6.
LargeEnough(size, n) ==
  LET doubled[e \in 0 .. n] == IF e = 0 THEN size ELSE 2 * doubled[e - 1]
  IN  doubled[Min({e \in 0 .. n : 6 * doubled[e] >= 10 * n})]

MustReserve == next_index + mutexes >= Len(keys)

-----------------------------------------------------------------------------
(***************************************************************************)
(* Mutants of the steps below: an entry is claimed without comparing it, a *)
(* claim is never published.                                               *)
(***************************************************************************)
Mutant_compare_exchange(t) ==
  /\ Goto(t, "cas", "fetch")
  /\ hashtable' = [hashtable EXCEPT ![pos[t]] = RESERVED]
  /\ UNCHANGED <<lockvars, keys, next_index, pos, call>>

Mutant_publish(t) ==
  /\ Goto(t, "publish", "return")
  /\ pos' = [pos EXCEPT ![t] = 0]
  /\ UNCHANGED <<lockvars, tables, call>>

(***************************************************************************)
(* insert: take the shared lock, and give it up again for reserve_indices  *)
(* when the reserved part of m_keys may run out.  After reserve_indices    *)
(* the condition is not read again.                                        *)
(***************************************************************************)
insert(t, k) ==
  /\ Goto(t, "idle", "check")
  /\ RW!AcquireShared(t)
  /\ call' = [call EXCEPT ![t] = Pending("insert", k)]
  /\ UNCHANGED <<tables, pos>>

enough_reserved(t) ==
  /\ Goto(t, "check", "probe")
  /\ ~MustReserve
  /\ pos' = [pos EXCEPT ![t] = HashPos(Key_of(t), TableSize)]
  /\ UNCHANGED <<lockvars, tables, call>>

give_up_guard(t) ==
  /\ Goto(t, "check", "reserve")
  /\ MustReserve
  /\ RW!ReleaseShared(t)
  /\ UNCHANGED <<tables, pos, call>>

reserve_indices(t) ==
  /\ Goto(t, "reserve", "grow")
  /\ RW!AcquireExclusive(t)
  /\ UNCHANGED <<tables, pos, call>>

grow(t) ==
  /\ Goto(t, "grow", "reserved")
  /\ IF MustReserve
     THEN LET more == Max({Len(keys) \div RESERVATION_FRACTION, mutexes})
              size == LargeEnough(TableSize, Len(keys) + more)
          IN  /\ keys' = keys \o [i \in 1 .. more |-> NoKey]
              /\ hashtable' = IF size = TableSize THEN hashtable
                              ELSE resize_hashtable(keys, next_index, size)
     ELSE UNCHANGED <<keys, hashtable>>
  /\ UNCHANGED <<lockvars, next_index, pos, call>>

end_reserve(t) ==
  /\ Goto(t, "reserved", "relock")
  /\ RW!ReleaseExclusive(t)
  /\ UNCHANGED <<tables, pos, call>>

relock(t) ==
  /\ Goto(t, "relock", "probe")
  /\ RW!AcquireShared(t)
  /\ pos' = [pos EXCEPT ![t] = HashPos(Key_of(t), TableSize)]
  /\ UNCHANGED <<tables, call>>

(***************************************************************************)
(* put_in_hashtable: read an entry; claim it with a compare-and-exchange   *)
(* when it is EMPTY, read it again while it is RESERVED, and otherwise     *)
(* compare the key it refers to and go on to the next position.  A failed  *)
(* exchange delivers the value that is there and is handled as a read.     *)
(***************************************************************************)
Examine(t, entry) ==
  \/ /\ entry = RESERVED
     /\ pc' = [pc EXCEPT ![t] = "probe"]
     /\ UNCHANGED <<pos, call>>
  \/ /\ entry \in Nat
     /\ keys[entry + 1] = Key_of(t)
     /\ pc' = [pc EXCEPT ![t] = "return"]
     /\ Finish(t, <<entry, FALSE>>)
  \/ /\ entry \in Nat
     /\ keys[entry + 1] # Key_of(t)
     /\ pc' = [pc EXCEPT ![t] = "probe"]
     /\ pos' = [pos EXCEPT ![t] = (@ + 1) % TableSize]
     /\ UNCHANGED call

put_in_hashtable(t) ==
  /\ pc[t] = "probe"
  /\ \/ /\ hashtable[pos[t]] = EMPTY
        /\ pc' = [pc EXCEPT ![t] = "cas"]
        /\ UNCHANGED <<pos, call>>
     \/ Examine(t, hashtable[pos[t]])
  /\ UNCHANGED <<lockvars, tables>>

compare_exchange(t) ==
  /\ pc[t] = "cas"
  /\ \/ /\ hashtable[pos[t]] = EMPTY
        /\ hashtable' = [hashtable EXCEPT ![pos[t]] = RESERVED]
        /\ pc' = [pc EXCEPT ![t] = "fetch"]
        /\ UNCHANGED <<pos, call>>
     \/ /\ Examine(t, hashtable[pos[t]])
        /\ UNCHANGED hashtable
  /\ UNCHANGED <<lockvars, keys, next_index>>

(***************************************************************************)
(* The rest of insert for a new key: draw the next index, write the key,   *)
(* and only then publish the index in the claimed entry.  The assertion    *)
(* that the index lies within m_keys ends the program when it fails.       *)
(***************************************************************************)
fetch_add(t) ==
  /\ pc[t] = "fetch"
  /\ pc' = [pc EXCEPT ![t] = IF next_index < Len(keys) THEN "store" ELSE "failed"]
  /\ next_index' = next_index + 1
  /\ call' = [call EXCEPT ![t] = Done("insert", @.key, <<next_index, TRUE>>)]
  /\ UNCHANGED <<lockvars, hashtable, keys, pos>>

store_key(t) ==
  /\ Goto(t, "store", "publish")
  /\ keys' = [keys EXCEPT ![call[t].result[1] + 1] = Key_of(t)]
  /\ UNCHANGED <<lockvars, hashtable, next_index, pos, call>>

publish(t) ==
  /\ Goto(t, "publish", "return")
  /\ hashtable' = [hashtable EXCEPT ![pos[t]] = call[t].result[1]]
  /\ pos' = [pos EXCEPT ![t] = 0]
  /\ UNCHANGED <<lockvars, keys, next_index, call>>

\* The destructor of the shared_guard, at the end of insert and index.
return(t) ==
  /\ Goto(t, "return", "idle")
  /\ RW!ReleaseShared(t)
  /\ call' = [call EXCEPT ![t] = Idle]
  /\ UNCHANGED <<tables, pos>>

-----------------------------------------------------------------------------
(***************************************************************************)
(* index: the same walk without claiming; an EMPTY entry ends it.  find    *)
(* and contains are an index followed by reads of the result.              *)
(***************************************************************************)
index(t, k) ==
  /\ Goto(t, "idle", "lookup")
  /\ RW!AcquireShared(t)
  /\ pos' = [pos EXCEPT ![t] = HashPos(k, TableSize)]
  /\ call' = [call EXCEPT ![t] = Pending("index", k)]
  /\ UNCHANGED tables

lookup(t) ==
  LET entry == hashtable[pos[t]] IN
  /\ pc[t] = "lookup"
  /\ \/ /\ entry = RESERVED
        /\ UNCHANGED <<pc, pos, call>>
     \/ /\ entry = EMPTY
        /\ pc' = [pc EXCEPT ![t] = "return"]
        /\ Finish(t, npos)
     \/ /\ entry \in Nat
        /\ keys[entry + 1] = Key_of(t)
        /\ pc' = [pc EXCEPT ![t] = "return"]
        /\ Finish(t, entry)
     \/ /\ entry \in Nat
        /\ keys[entry + 1] # Key_of(t)
        /\ pos' = [pos EXCEPT ![t] = (@ + 1) % TableSize]
        /\ UNCHANGED <<pc, call>>
  /\ UNCHANGED <<lockvars, tables>>

\* size and the iterators read m_next_index under the shared lock.
size(t) ==
  /\ Goto(t, "idle", "size")
  /\ RW!AcquireShared(t)
  /\ call' = [call EXCEPT ![t] = Pending("size", npos)]
  /\ UNCHANGED <<tables, pos>>

read_size(t) ==
  /\ Goto(t, "size", "return")
  /\ Finish(t, next_index)
  /\ UNCHANGED <<lockvars, tables>>

(***************************************************************************)
(* operator[] and at read an entry of m_keys below m_next_index without    *)
(* taking the lock; the read is not atomic and lasts from operator_at to   *)
(* end_operator_at.                                                        *)
(***************************************************************************)
operator_at(t) ==
  /\ Goto(t, "idle", "reading")
  /\ next_index > 0
  /\ \A u \in Thread : pc[u] \notin {"erase", "erased"}   \* clear runs alone
  /\ UNCHANGED <<lockvars, tables, pos, call>>

end_operator_at(t) ==
  /\ Goto(t, "reading", "idle")
  /\ UNCHANGED <<lockvars, tables, pos, call>>

(***************************************************************************)
(* clear, under the exclusive lock.  The lock alone would let it erase the *)
(* set between two sections of an insert; unlike insert and size it is not *)
(* documented as threadsafe, and the first conjunct is what its callers    *)
(* guarantee: generate_state_space clears the set before it starts the     *)
(* threads.                                                                *)
(***************************************************************************)
clear(t) ==
  /\ \A u \in Thread \ {t} : pc[u] = "idle"
  /\ Goto(t, "idle", "erase")
  /\ RW!AcquireExclusive(t)
  /\ call' = [call EXCEPT ![t] = Pending("clear", npos)]
  /\ UNCHANGED <<tables, pos>>

erase(t) ==
  /\ Goto(t, "erase", "erased")
  /\ hashtable' = [p \in DOMAIN hashtable |-> EMPTY]
  /\ keys' = <<>>
  /\ next_index' = 0
  /\ call' = [call EXCEPT ![t] = Done("clear", npos, npos)]
  /\ UNCHANGED <<lockvars, pos>>

end_clear(t) ==
  /\ Goto(t, "erased", "idle")
  /\ RW!ReleaseExclusive(t)
  /\ call' = [call EXCEPT ![t] = Idle]
  /\ UNCHANGED <<tables, pos>>

-----------------------------------------------------------------------------
Insert(t) ==
  \/ enough_reserved(t) \/ give_up_guard(t) \/ reserve_indices(t) \/ grow(t)
  \/ end_reserve(t) \/ relock(t) \/ put_in_hashtable(t)
  \/ compare_exchange(t) \/ fetch_add(t) \/ store_key(t) \/ publish(t)

Next ==
  \E t \in Thread :
    \/ \E k \in Key : insert(t, k) \/ index(t, k)
    \/ Insert(t) \/ lookup(t) \/ return(t)
    \/ size(t) \/ read_size(t) \/ operator_at(t) \/ end_operator_at(t)
    \/ clear(t) \/ erase(t) \/ end_clear(t)

Spec == Init /\ [][Next]_vars

(***************************************************************************)
(* Fairness.  A thread inside a call is eventually scheduled.  A thread    *)
(* that waits for the exclusive lock gets it: the shared sections end, as  *)
(* no thread waits for a lock in one, and then WriterGetsIn of SharedMutex *)
(* promises it.  A thread that waits for the shared lock gets it when it   *)
(* is free again and again, which follows from ReaderGetsIn, as            *)
(* reserve_indices is called finitely often for a finite set of keys.      *)
(***************************************************************************)
Fairness ==
  \A t \in Thread :
    /\ WF_vars(\/ Insert(t) \/ lookup(t) \/ read_size(t) \/ end_operator_at(t)
               \/ return(t) \/ erase(t) \/ end_clear(t))
    /\ []<>(pc[t] # "reserve") /\ SF_vars(relock(t))

FairSpec == Spec /\ Fairness

-----------------------------------------------------------------------------
(***************************************************************************)
(* Type invariant.                                                         *)
(***************************************************************************)
TypeOK ==
  /\ writer \in Thread \cup {NoThread}
  /\ readers \in [Thread -> {0, 1}]
  /\ next_index \in Nat
  /\ keys \in Seq(Key \cup {NoKey})
  /\ TableSize > 0 /\ hashtable \in [0 .. TableSize - 1 -> Nat \cup {EMPTY, RESERVED}]
  /\ pc \in [Thread -> PC]
  /\ pos \in [Thread -> DOMAIN hashtable]

Claiming == {t \in Thread : pc[t] \in {"reserved", "relock", "probe", "cas", "fetch"}}

(***************************************************************************)
(* The assertions new_index < m_keys.size() and m_next_index <=            *)
(* m_keys.size() of insert: although the condition is not read again after *)
(* reserve_indices, there is an entry of m_keys for every thread that may  *)
(* still draw an index, because m_shared_mutexes.size() entries are kept   *)
(* in reserve.                                                             *)
(***************************************************************************)
EveryClaimHasAnIndex ==
  /\ \A t \in Thread : pc[t] # "failed"
  /\ next_index + Cardinality(Claiming) <= Len(keys)

(***************************************************************************)
(* The hash table is never full ("In this case the hashtable is full,      *)
(* which should never happen"), so that every walk along it ends: no more  *)
(* entries are in use than m_keys has, and m_keys stays within the maximal *)
(* load of the table.                                                      *)
(***************************************************************************)
TableHasRoom ==
  /\ Cardinality({p \in DOMAIN hashtable : hashtable[p] # EMPTY}) <= Len(keys)
  /\ 10 * Len(keys) <= 6 * TableSize

(***************************************************************************)
(* No entry is RESERVED while a thread has the exclusive lock:             *)
(* resize_hashtable and clear would lose a claim that is in progress.      *)
(***************************************************************************)
NoClaimUnderExclusiveLock ==
  writer # NoThread => \A p \in DOMAIN hashtable : hashtable[p] # RESERVED

(***************************************************************************)
(* Every published key is found from its own hash position before the      *)
(* first EMPTY entry, also after the table has been resized.               *)
(***************************************************************************)
ProbeChainsUnbroken ==
  \A p \in DOMAIN hashtable :
    hashtable[p] \in Nat =>
      LET start == HashPos(keys[hashtable[p] + 1], TableSize)
          dist == (p + TableSize - start) % TableSize
      IN  \A o \in 0 .. dist : hashtable[(start + o) % TableSize] # EMPTY

(***************************************************************************)
(* insert, index and clear are linearisable: they implement a consecutive  *)
(* numbering of the keys.  An insertion takes effect when m_next_index is  *)
(* incremented, before the key is written and the entry published.         *)
(***************************************************************************)
Numbered ==
  [i \in 1 .. next_index |->
     IF \E t \in Thread : pc[t] = "store" /\ call[t].result[1] = i - 1
     THEN Key_of(CHOOSE t \in Thread : pc[t] = "store" /\ call[t].result[1] = i - 1)
     ELSE keys[i]]

KN == INSTANCE KeyNumbering WITH numbered <- Numbered

ImplementsKeyNumbering == KN!Spec

(***************************************************************************)
(* The documentation of operator[]: "threadsafe".  m_keys, a deque, is not *)
(* resized while operator[] reads it.                                      *)
(***************************************************************************)
OperatorAtThreadSafe ==
  [][(\E t \in Thread : pc[t] = "reading") => Len(keys') = Len(keys)]_vars

(***************************************************************************)
(* Every insert and index returns: a RESERVED entry on which other threads *)
(* spin is always published.                                               *)
(***************************************************************************)
EveryCallReturns ==
  \A t \in Thread : pc[t] # "idle" ~> pc[t] = "idle"

-----------------------------------------------------------------------------
(***************************************************************************)
(* The inductive invariant behind EveryClaimHasAnIndex.                    *)
(***************************************************************************)
Types ==
  /\ next_index \in Nat
  /\ keys \in Seq(Key \cup {NoKey})
  /\ pc \in [Thread -> PC]
  /\ call = [t \in Thread |-> call[t]]

\* The exclusive lock is held exactly where reserve_indices and clear hold it.
ExclusiveAtPoint ==
  \A t \in Thread :
    pc[t] \in {"grow", "reserved", "erase", "erased"} <=> writer = t

ClearsAlone ==
  \A t \in Thread :
    pc[t] \in {"erase", "erased"} => \A u \in Thread \ {t} : pc[u] = "idle"

InsertsAKey ==
  \A t \in Thread :
    pc[t] \in {"check", "reserve", "grow", "reserved", "relock", "probe", "cas",
               "fetch", "store", "publish"} => Key_of(t) \in Key

IInv ==
  Types /\ ExclusiveAtPoint /\ ClearsAlone /\ InsertsAKey /\ EveryClaimHasAnIndex

(***************************************************************************)
(* The inductive invariant behind TableHasRoom, ProbeChainsUnbroken and    *)
(* ImplementsKeyNumbering: what every thread, every entry of the hash      *)
(* table and every index in use owe to each other.                         *)
(***************************************************************************)
Inserting == {"check", "reserve", "grow", "reserved", "relock", "probe", "cas", "fetch"}
Drawn == {"store", "publish"}
Holding == {"fetch"} \cup Drawn
Walking == {"probe", "cas", "lookup"}
InShared == {"check", "size", "return"} \cup Holding \cup Walking

DrawnIndex(t) == call[t].result[1]

\* No thread is in a shared section while another one is in the exclusive one.
SharedAtPoint ==
  /\ readers = [t \in Thread |-> IF pc[t] \in InShared THEN 1 ELSE 0]
  /\ writer # NoThread => \A t \in Thread : pc[t] \notin InShared

CallOf(t) ==
  /\ pc[t] \in {"idle", "reading"} => call[t] = Idle
  /\ pc[t] \in Inserting => \E k \in Key : call[t] = Pending("insert", k)
  /\ pc[t] \in Drawn =>
       \E k \in Key : \E i \in 0 .. next_index - 1 :
          call[t] = Done("insert", k, <<i, TRUE>>)
  /\ pc[t] = "lookup" => \E k \in Key : call[t] = Pending("index", k)
  /\ pc[t] = "size" => call[t] = Pending("size", npos)
  /\ pc[t] = "return" => call[t].op # "none" /\ call[t].done
  /\ pc[t] = "erase" => call[t] = Pending("clear", npos)
  /\ pc[t] = "erased" => call[t] = Done("clear", npos, npos)

CallAtPoint == \A t \in Thread : CallOf(t)

TableShape ==
  /\ TableSize \in Nat /\ TableSize >= 8
  /\ hashtable \in [0 .. TableSize - 1 -> Nat \cup {EMPTY, RESERVED}]
  /\ pos \in [Thread -> 0 .. TableSize - 1]

\* The RESERVED entries are those of the threads that have claimed one.
ClaimsAtPositions ==
  /\ \A t \in Thread : pc[t] \in Holding => hashtable[pos[t]] = RESERVED
  /\ \A t, u \in Thread :
       pc[t] \in Holding /\ pc[u] \in Holding /\ pos[t] = pos[u] => t = u
  /\ \A p \in DOMAIN hashtable :
       hashtable[p] = RESERVED => \E t \in Thread : pc[t] \in Holding /\ pos[t] = p

\* Every index that was drawn is in one entry, or will be put there by one thread.
IndicesInTable ==
  /\ \A p \in DOMAIN hashtable :
       hashtable[p] \in Nat => hashtable[p] < next_index /\ keys[hashtable[p] + 1] \in Key
  /\ \A p, q \in DOMAIN hashtable :
       hashtable[p] \in Nat /\ hashtable[p] = hashtable[q] => p = q
  /\ \A t \in Thread : pc[t] \in Drawn =>
       \A p \in DOMAIN hashtable : hashtable[p] # DrawnIndex(t)
  /\ \A t, u \in Thread :
       pc[t] \in Drawn /\ pc[u] \in Drawn /\ DrawnIndex(t) = DrawnIndex(u) => t = u
  /\ \A t \in Thread : pc[t] = "publish" => keys[DrawnIndex(t) + 1] = Key_of(t)
  /\ \A i \in 0 .. next_index - 1 :
       \/ \E p \in DOMAIN hashtable : hashtable[p] = i
       \/ \E t \in Thread : pc[t] \in Drawn /\ DrawnIndex(t) = i

\* The positions from s up to p, around the end of a table of m entries.
Path(m, s, p) ==
  {q \in 0 .. m - 1 :
     IF s <= p THEN s <= q /\ q <= p ELSE s <= q \/ q <= p}

Home(k) == HashPos(k, TableSize)

\* The entry at p has the key k, or will have it when its index is published.
Holds(p, k) ==
  \/ hashtable[p] \in Nat /\ keys[hashtable[p] + 1] = k
  \/ \E t \in Thread : pc[t] \in Holding /\ pos[t] = p /\ Key_of(t) = k

KeysInTable ==
  /\ \A k \in Key : \A p, q \in DOMAIN hashtable : Holds(p, k) /\ Holds(q, k) => p = q
  /\ \A k \in Key : \A p \in DOMAIN hashtable : Holds(p, k) =>
       \A q \in Path(TableSize, Home(k), p) : hashtable[q] # EMPTY

\* A walk has passed published entries of other keys only.
WalksPassed ==
  \A t \in Thread : pc[t] \in Walking =>
    \A q \in Path(TableSize, Home(Key_of(t)), pos[t]) \ {pos[t]} :
      hashtable[q] \in Nat /\ keys[hashtable[q] + 1] # Key_of(t)

InUse == {p \in DOMAIN hashtable : hashtable[p] # EMPTY}
Fetching == {t \in Thread : pc[t] = "fetch"}

EntriesInUse ==
  /\ Cardinality(InUse) = next_index + Cardinality(Fetching)
  /\ 10 * Len(keys) <= 6 * TableSize

TInv ==
  /\ SharedAtPoint /\ CallAtPoint /\ TableShape /\ ClaimsAtPositions
  /\ IndicesInTable /\ KeysInTable /\ WalksPassed /\ EntriesInUse
=============================================================================
