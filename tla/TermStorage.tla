---------------------------- MODULE TermStorage ----------------------------
(***************************************************************************)
(* The storage of the terms of one arity: the hash table that makes terms  *)
(* unique (aterm_pool_storage over utilities::unordered_set, with          *)
(* lock-free insertion in a bucket_list) and the memory its nodes are      *)
(* taken from (block_allocator, with a free list per thread).              *)
(*                                                                         *)
(* Threads emplace terms under the shared lock of the pool; one thread     *)
(* sweeps, and consolidates the allocator, or rehashes, under the          *)
(* exclusive lock (SharedMutex and ATermPool model the lock and what a     *)
(* collection marks).  Every access to a word that another thread may      *)
(* write is a step of its own.                                             *)
(*                                                                         *)
(* A node is an entry of a block.  The `next` of a node in a bucket and    *)
(* the `next` of a free entry are the same word of memory: BlockEntry is a *)
(* union, and node_base holds its pointer first.                           *)
(***************************************************************************)
EXTENDS Integers, Sequences, SequencesExt, FiniteSets

CONSTANTS
  Thread,
  Key,            \* the terms, up to m_equals
  NoKey,          \* the content of an entry that holds no term
  Hash,           \* m_hash
  Block,          \* the blocks `new Block` can return (bound)
  BlockSize,      \* N, the entries of a block
  FreeChunkSize,  \* the entries of a chunk of shared free entries
  MaxBuckets,     \* the table grows to this many buckets (bound)
  null            \* nullptr

ASSUME SizesAssumption ==
  /\ BlockSize \in Nat \ {0} /\ FreeChunkSize \in Nat \ {0}
  /\ Hash \in [Key -> Nat]

VARIABLES
  m_buckets,            \* head of the list of every bucket, from 0
  m_number_of_elements,
  next, key,            \* the memory: pointer word and term of every entry
  block_list,           \* the existing blocks, newest first
  free_chunks,          \* heads of the chains of shared free entries
  local,                \* ThreadLocalAllocState of every thread
  pc, loc,              \* where each thread is, and its local variables
  result,               \* the address and the `added` its emplace will return
  marked, iter          \* the marked terms and the iterator of a sweep

table  == <<m_buckets, m_number_of_elements>>
memory == <<next, key>>
alloc  == <<block_list, free_chunks, local>>
sweeping == <<marked, iter>>
vars   == <<table, memory, alloc, pc, loc, result, sweeping>>

Offset == 0 .. BlockSize - 1
Addr   == Block \X Offset

NoLocals  == [k |-> NoKey, it |-> null, new_node |-> null, old_head |-> null,
              old_end |-> null]
NoIter    == [bucket |-> 0, before |-> null, it |-> null]
LocalState == [current_block |-> null, bump_offset |-> BlockSize, free_head |-> null]

\* The place of e in the sequence s.
Place(s, e) == CHOOSE n \in DOMAIN s: s[n] = e

\* The entries reached from `a` along `next`, in order.  (A chain that is
\* longer than the memory has a cycle, and is cut there.)
Chain(a) ==
  LET from[n \in 0 .. Cardinality(Addr), e \in Addr \cup {null}] ==
        IF n = 0 \/ e \notin Addr THEN <<>> ELSE <<e>> \o from[n - 1, next[e]]
  IN  from[Cardinality(Addr), a]

Buckets == DOMAIN m_buckets
find_bucket_index(k) == Hash[k] % Cardinality(Buckets)

Init ==
  /\ m_buckets = [b \in {0} |-> null]
  /\ m_number_of_elements = 0
  /\ next = [a \in Addr |-> null]
  /\ key = [a \in Addr |-> NoKey]
  /\ block_list = <<>>
  /\ free_chunks = <<>>
  /\ local = [t \in Thread |-> LocalState]
  /\ pc = [t \in Thread |-> "idle"]
  /\ loc = [t \in Thread |-> NoLocals]
  /\ result = [t \in Thread |-> <<>>]
  /\ marked = {}
  /\ iter = NoIter

\* Mutant: a term can be created during a sweep.
Mutant_lock_shared == TRUE

\* The lock of the pool, by what its holders do.
lock_shared    == \A u \in Thread: pc[u] # "sweep"
lock_exclusive == \A u \in Thread: pc[u] = "idle"

-----------------------------------------------------------------------------
(* emplace, under the shared lock.                                         *)

\* emplace computes the bucket and find_impl reads its head.
emplace(t, k) ==
  /\ pc[t] = "idle"
  /\ lock_shared
  /\ pc' = [pc EXCEPT ![t] = "find"]
  /\ loc' = [loc EXCEPT ![t].k = k, ![t].it = m_buckets[find_bucket_index(k)]]
  /\ UNCHANGED <<table, memory, alloc, result, sweeping>>

answer(t, a, added) ==
  /\ pc' = [pc EXCEPT ![t] = "return"]
  /\ loc' = [loc EXCEPT ![t] = NoLocals]
  /\ result' = [result EXCEPT ![t] = <<a, added>>]

\* One round of the loop of find_impl.
find_impl(t) ==
  LET it == loc[t].it IN
  /\ pc[t] = "find"
  /\ \/ /\ it = null
        /\ pc' = [pc EXCEPT ![t] = "allocate"]
        /\ UNCHANGED <<loc, result>>
     \/ /\ it # null /\ key[it] = loc[t].k
        /\ answer(t, it, FALSE)
     \/ /\ it # null /\ key[it] # loc[t].k
        /\ loc' = [loc EXCEPT ![t].it = next[it]]
        /\ UNCHANGED <<pc, result>>
  /\ UNCHANGED <<table, memory, alloc, sweeping>>

\* The ways in which allocate_object finds an entry, in the order it tries them.
pop_local(t, e) ==
  /\ e = local[t].free_head
  /\ local' = [local EXCEPT ![t].free_head = next[e]]
  /\ UNCHANGED <<block_list, free_chunks>>

bump(t, e) ==
  /\ e = <<local[t].current_block, local[t].bump_offset>>
  /\ local' = [local EXCEPT ![t].bump_offset = @ + 1]
  /\ UNCHANGED <<block_list, free_chunks>>

refill_local_free(t, e) ==
  /\ e = Last(free_chunks)
  /\ free_chunks' = Front(free_chunks)
  /\ local' = [local EXCEPT ![t].free_head = next[e]]
  /\ UNCHANGED block_list

allocate_new_block(t, e) ==
  \E b \in Block \ ToSet(block_list):
    /\ e = <<b, 0>>
    /\ block_list' = <<b>> \o block_list
    /\ local' = [local EXCEPT ![t].current_block = b, ![t].bump_offset = 1]
    /\ UNCHANGED free_chunks

allocate_object(t, e) ==
  IF local[t].free_head # null THEN pop_local(t, e)
  ELSE IF local[t].current_block # null /\ local[t].bump_offset < BlockSize
    THEN bump(t, e)
  ELSE IF free_chunks # <<>> THEN refill_local_free(t, e)
  ELSE allocate_new_block(t, e)

\* emplace_front_unique allocates and constructs the new node.
allocate(t) ==
  /\ pc[t] = "allocate"
  /\ \E e \in Addr:
       /\ allocate_object(t, e)
       /\ key' = [key EXCEPT ![e] = loc[t].k]
       /\ next' = [next EXCEPT ![e] = null]
       /\ loc' = [loc EXCEPT ![t].new_node = e]
  /\ pc' = [pc EXCEPT ![t] = "load"]
  /\ UNCHANGED <<table, result, sweeping>>

Bucket(t) == find_bucket_index(loc[t].k)

\* A round of the do-while loop begins with old_head, just read from m_head.
begin_round(t, head, end) ==
  /\ next' = [next EXCEPT ![loc[t].new_node] = head]
  /\ loc' = [loc EXCEPT ![t].old_head = head, ![t].old_end = end, ![t].it = head]
  /\ pc' = [pc EXCEPT ![t] = "scan"]

load_head(t) ==
  /\ pc[t] = "load"
  /\ begin_round(t, m_buckets[Bucket(t)], null)
  /\ UNCHANGED <<table, key, alloc, result, sweeping>>

\* destroy and deallocate: the entry becomes the head of the thread's free list.
\* Its pointer word, overwritten in memory `m`, links it to the former head.
deallocate_object(t, e, m) ==
  /\ key' = [key EXCEPT ![e] = NoKey]
  /\ next' = [m EXCEPT ![e] = local[t].free_head]
  /\ local' = [local EXCEPT ![t].free_head = e]

\* One round of the for loop: is the term in the part of the list not seen yet?
scan(t) ==
  LET it == loc[t].it IN
  /\ pc[t] = "scan"
  /\ \/ /\ it = loc[t].old_end
        /\ pc' = [pc EXCEPT ![t] = "exchange"]
        /\ UNCHANGED <<memory, local, loc, result>>
     \/ /\ it # loc[t].old_end /\ key[it] = loc[t].k
        /\ deallocate_object(t, loc[t].new_node, next)
        /\ answer(t, it, FALSE)
     \/ /\ it # loc[t].old_end /\ key[it] # loc[t].k
        /\ loc' = [loc EXCEPT ![t].it = next[it]]
        /\ UNCHANGED <<memory, local, pc, result>>
  /\ UNCHANGED <<table, block_list, free_chunks, sweeping>>

\* Mutant: after a failed exchange nothing is scanned again.
Mutant_exchange(t) ==
  LET b == Bucket(t) IN
  /\ pc[t] = "exchange"
  /\ \/ /\ m_buckets[b] = loc[t].old_head
        /\ m_buckets' = [m_buckets EXCEPT ![b] = loc[t].new_node]
        /\ answer(t, loc[t].new_node, TRUE)
        /\ UNCHANGED next
     \/ /\ begin_round(t, m_buckets[b], m_buckets[b])
        /\ UNCHANGED <<m_buckets, result>>
  /\ UNCHANGED <<m_number_of_elements, key, alloc, sweeping>>

\* m_head.exchange(old_head, new_node), a weak compare-and-swap: it may fail
\* although the head is old_head.  On failure only the nodes inserted since
\* old_head was read are left to be scanned.
exchange(t) ==
  LET b == Bucket(t) IN
  /\ pc[t] = "exchange"
  /\ \/ /\ m_buckets[b] = loc[t].old_head
        /\ m_buckets' = [m_buckets EXCEPT ![b] = loc[t].new_node]
        /\ answer(t, loc[t].new_node, TRUE)
        /\ UNCHANGED next
     \/ /\ begin_round(t, m_buckets[b], loc[t].old_head)
        /\ UNCHANGED <<m_buckets, result>>
  /\ UNCHANGED <<m_number_of_elements, key, alloc, sweeping>>

\* emplace_impl counts an element after it has been inserted; the call returns
\* and the shared lock is released.
return(t) ==
  /\ pc[t] = "return"
  /\ m_number_of_elements' = m_number_of_elements + (IF result[t][2] THEN 1 ELSE 0)
  /\ pc' = [pc EXCEPT ![t] = "idle"]
  /\ result' = [result EXCEPT ![t] = <<>>]
  /\ UNCHANGED <<m_buckets, memory, alloc, loc, sweeping>>

-----------------------------------------------------------------------------
(* sweep and rehash, under the exclusive lock.                             *)

\* goto_next_bucket: an iterator at the end of its bucket moves on to the
\* first bucket that is not empty, or to the end of the table.
goto_next_bucket(b, before, it) ==
  IF it # null THEN [bucket |-> b, before |-> before, it |-> it]
  ELSE LET after == {c \in Buckets: c > b /\ m_buckets[c] # null}
       IN  IF after = {} THEN NoIter
           ELSE LET c == CHOOSE c \in after: \A d \in after: c <= d
                IN  [bucket |-> c, before |-> null, it |-> m_buckets[c]]

\* The collector has marked the terms that stay and begins to sweep.
begin_sweep(t) ==
  /\ lock_exclusive
  /\ pc' = [pc EXCEPT ![t] = "sweep"]
  /\ marked' \in SUBSET {key[a] : a \in {e \in Addr : key[e] # NoKey}}
  /\ iter' = goto_next_bucket(0, null, m_buckets[0])
  /\ UNCHANGED <<table, memory, alloc, loc, result>>

\* destroy: erase(it) unlinks the node after `before` (the head, when null).
destroy(t) ==
  LET it == iter.it
      b  == iter.bucket
      m  == IF iter.before = null THEN next ELSE [next EXCEPT ![iter.before] = next[it]]
  IN
  /\ m_buckets' = IF iter.before = null THEN [m_buckets EXCEPT ![b] = next[it]]
                                         ELSE m_buckets
  /\ m_number_of_elements' = m_number_of_elements - 1
  /\ deallocate_object(t, it, m)
  /\ iter' = goto_next_bucket(b, iter.before, next[it])

sweep(t) ==
  /\ pc[t] = "sweep"
  /\ iter.it # null
  /\ \/ /\ key[iter.it] \notin marked
        /\ destroy(t)
     \/ /\ key[iter.it] \in marked
        /\ iter' = goto_next_bucket(iter.bucket, iter.it, next[iter.it])
        /\ UNCHANGED <<table, memory, local>>
  /\ UNCHANGED <<block_list, free_chunks, pc, loc, result, marked>>

\* The entries of the current block that were never handed out.
bump_range(t) == IF local[t].current_block = null THEN {}
                 ELSE local[t].bump_offset .. BlockSize - 1

\* Mutant: the entries never handed out are not marked.
Mutant_local_free(t) == ToSet(Chain(local[t].free_head))

\* The entries that steps 1 and 2 of remove_free_blocks mark (with a sentinel
\* in their pointer word).
local_free(t) == ToSet(Chain(local[t].free_head))
                   \cup {<<local[t].current_block, i>> : i \in bump_range(t)}

shared_free == UNION {ToSet(Chain(c)) : c \in ToSet(free_chunks)}

\* The entries of the blocks of `l`, in the order of the list.
Entries(l) == FlattenSeq([n \in DOMAIN l |-> [i \in 1 .. BlockSize |-> <<l[n], i - 1>>]])

\* Step 4: the marked entries `left` are chained in chunks of FreeChunkSize.
LastOfChunk(n, left)  == n % FreeChunkSize = 0 \/ n = Len(left)
FirstsOfChunks(left) == SelectSeq(left, LAMBDA e: (Place(left, e) - 1) % FreeChunkSize = 0)

\* consolidate: mark the free entries; delete the blocks that are all free;
\* chain the marked entries that are left in chunks of FreeChunkSize.
remove_free_blocks ==
  LET marks == shared_free \cup UNION {local_free(t) : t \in Thread}
      kept == SelectSeq(block_list, LAMBDA b: ~({b} \X Offset \subseteq marks))
      left == SelectSeq(Entries(kept), LAMBDA e: e \in marks)
  IN
    /\ block_list' = kept
    /\ free_chunks' = FirstsOfChunks(left)
    /\ next' = [e \in Addr |->
                 IF e \in ToSet(left)
                 THEN LET n == Place(left, e) IN
                      IF LastOfChunk(n, left) THEN null ELSE left[n + 1]
                 ELSE IF e[1] \in ToSet(kept) THEN next[e] ELSE null]
    /\ local' = [t \in Thread |-> LocalState]

\* The iterator is at the end: sweep consolidates, and the lock is released.
end_sweep(t) ==
  /\ pc[t] = "sweep"
  /\ iter.it = null
  /\ remove_free_blocks
  /\ pc' = [pc EXCEPT ![t] = "idle"]
  /\ marked' = {} /\ iter' = NoIter
  /\ UNCHANGED <<table, key, loc, result>>

\* Mutant: the nodes stay in the lists they are in.
Mutant_rehash(n) ==
  /\ m_buckets' = [b \in 0 .. n - 1 |-> IF b \in Buckets THEN m_buckets[b] ELSE null]
  /\ UNCHANGED next

\* rehash splices the buckets into one list, each in front of those before,
\* and moves its nodes one by one to the front of their new buckets.
rehash(n) ==
  LET old == FlattenSeq([i \in 1 .. Cardinality(Buckets) |->
                             Chain(m_buckets[Cardinality(Buckets) - i])])
      new == [b \in 0 .. n - 1 |->
                  Reverse(SelectSeq(old, LAMBDA e: Hash[key[e]] % n = b))]
  IN
  /\ m_buckets' = [b \in 0 .. n - 1 |-> IF new[b] = <<>> THEN null ELSE Head(new[b])]
  /\ next' = [e \in Addr |->
               IF e \notin ToSet(old) THEN next[e]
               ELSE LET s == new[Hash[key[e]] % n]
                        i == Place(s, e)
                    IN  IF i = Len(s) THEN null ELSE s[i + 1]]

resize_if_needed(t) ==
  LET n == Cardinality(Buckets) IN
  /\ lock_exclusive
  /\ m_number_of_elements >= n
  /\ 2 * n <= MaxBuckets
  /\ rehash(2 * n)
  /\ UNCHANGED <<m_number_of_elements, key, alloc, pc, loc, result, sweeping>>

-----------------------------------------------------------------------------
Step(t) ==
  \/ \E k \in Key: emplace(t, k)
  \/ find_impl(t) \/ allocate(t) \/ load_head(t) \/ scan(t) \/ exchange(t) \/ return(t)
  \/ begin_sweep(t) \/ sweep(t) \/ end_sweep(t) \/ resize_if_needed(t)

Next == \E t \in Thread: Step(t)

Spec == Init /\ [][Next]_vars

-----------------------------------------------------------------------------
Nodes(b) == ToSet(Chain(m_buckets[b]))
Elements == UNION {Nodes(b) : b \in Buckets}
address_of(k) == CHOOSE a \in Nodes(find_bucket_index(k)): key[a] = k

UT == INSTANCE UniqueTerms WITH
  elements <- [k \in {key[a] : a \in Elements} |-> address_of(k)],
  pending  <- [t \in Thread |-> IF pc[t] \in {"idle", "return", "sweep"} THEN NoKey
                                                                       ELSE loc[t].k]

\* Every emplace takes effect at one moment, and from then until it is erased a
\* term has one address and an equal term gets that address: the lock-free
\* insertion of emplace_front_unique keeps terms unique.
ImplementsUniqueTerms == UT!Spec

Held(place, s) == {<<place, n, s[n]>> : n \in DOMAIN s}

\* Every entry of a block is exactly one of: a node in one bucket, free in one
\* list of one thread, free in one shared chunk, not yet handed out, or the
\* node an emplace is about to insert; and an entry of a deleted block is none.
\* So the pointer word that nodes and free entries share is never used for two
\* things, and consolidate loses no entry and deletes no block in use.
EntriesAccounted ==
  LET held == UNION (
         {Held(<<"bucket", b>>, Chain(m_buckets[b])) : b \in Buckets}
    \cup {Held(<<"free list", t>>, Chain(local[t].free_head)) : t \in Thread}
    \cup {Held(<<"chunk", n>>, Chain(free_chunks[n])) : n \in DOMAIN free_chunks}
    \cup {Held(<<"block", t>>, [i \in bump_range(t) |-> <<local[t].current_block, i>>]) : t \in Thread}
    \cup {Held(<<"new node", t>>, <<loc[t].new_node>>) : t \in {u \in Thread: loc[u].new_node # null}})
  IN  /\ {h[3] : h \in held} = ToSet(block_list) \X Offset
      /\ Cardinality(held) = Len(block_list) * BlockSize

\* The assertion in rehash: whenever the lock can be taken exclusively,
\* m_number_of_elements, which is updated after an insertion, is the number of
\* nodes; and every node is in the bucket of its term.
CountExact ==
  /\ lock_exclusive => m_number_of_elements = Cardinality(Elements)
  /\ \A b \in Buckets: \A a \in Nodes(b): find_bucket_index(key[a]) = b

\* A thread that walks a bucket in find_impl or emplace_front_unique stays on
\* nodes of that bucket, which keep their terms, until its call returns.
WalksStayInBucket ==
  \A t \in Thread: pc[t] \in {"find", "scan", "exchange"} =>
    {loc[t].it, loc[t].old_head, loc[t].old_end} \ {null} \subseteq Nodes(Bucket(t))
=============================================================================
