# A TLA+ verification of the concurrent core of mCRL2

mCRL2 is a toolset for the analysis of concurrent systems.  Most of it is
sequential symbolic computation.  What is hard to get right and hard to test is
the layer below: all tools share one pool of maximally shared terms with mark
and sweep garbage collection, and since the exploration of state spaces became
parallel this pool, the set of discovered states and the exploration loop are
used by several threads at once, with synchronisation primitives of the
toolset's own making.  The instantiation of parameterised Boolean equation systems
(PBESs) is parallel too, and solves parts of a parity game while it is still being
generated.  This directory models these layers from the code, checks the models
with TLC on small instances, and proves the main properties with TLAPS for every
number of threads, states, keys, terms and equations.

Paths below are relative to `libraries/`.

## 1. The system

### 1.1 Inventory

| part | state | operations | what makes it hard |
|---|---|---|---|
| `shared_mutex` (utilities) | per thread a busy flag, a forbidden flag and a depth; one mutex and the list of all objects | lock, try_lock, unlock, lock_shared, try_lock_shared, unlock_shared, registration | flags are read and written without a lock; threads start and end while others wait |
| `indexed_set` (utilities) | key table, hash table of indices, next index | insert, index, find, size, operator[], clear, growing | lock-free claims in a table that other threads resize; the lock is given up in the middle of insert |
| `explorer` (lps) | discovered states, shared and local todo sets, active count, abort flag | generate_state_space, the thread loop, redistribution, abort | termination detection with unlocked reads and a condition variable |
| term pool (atermpp) | storages, per thread protection sets, thread pools, index map, counters | create, copy, assign, destroy, collect, resize, start and end of threads | collection may start between any two steps of another thread |
| `unordered_set`, `bucket_list` (utilities) | buckets of linked nodes | emplace, erase, rehash | lock-free insertion |
| `block_allocator` (utilities) | blocks, per thread free lists, shared chunks | allocate, deallocate, consolidate | free lists of all threads are rebuilt during a collection |
| `hashtable` (utilities) | open addressing table | insert, erase, resize | erase leaves holes |
| function symbols (atermpp) | pool of reference counted symbols | create, copy, sweep | counts change outside the mutex |
| `pbesinst_lazy`, `pbesinst_structure_graph2` (pbes) | todo, discovered, structure graph, solved vertices, prune round, active count | thread loop, reports, pruning | right-hand sides are computed outside the lock while others prune; termination by counting and sleeping |
| structure graphs (pbes) | parity games with unexplored vertices | attractors, partial solvers, extraction, recursive solver | each solver runs again and again on an unfinished game, on what the earlier ones left behind |
| `lts`, `pg` | partitions of states, parity games | reduction, comparison, solving | algorithms with subtle correctness arguments |
| data, process, lps, pres, modal formulas | syntax | rewriting, linearisation, elimination | sequential; unbounded data |
| gui, tools, smt, symbolic, parsers | | | user interface, I/O, external libraries |

`PROJECT.json` lists every part with its sources and, where it is not modelled,
the reason; it also lists the hazards, each at the line where it bites, with the
properties that would catch it.

### 1.2 How the parts interact

`shared_mutex` is the lock of both the term pool and of each `indexed_set`.  The
explorer stores its states, which are terms, in an `indexed_set`.  A thread that
creates terms may start a garbage collection, which takes the exclusive lock of
the term pool and so stops all other threads outside their shared sections.

The models are composed the same way.  `SharedMutex` is shown to implement the
abstract `ReadersWriterLock`; `IndexedSet` and `ATermPool` use that abstract lock
(`RW == INSTANCE ReadersWriterLock`).  `IndexedSet` is shown to implement the
abstract `KeyNumbering`; `Explorer` uses insert and index as the atomic
operations that `KeyNumbering` has.  `TermStorage`, the hash table and the memory
under the term pool, is shown to implement `UniqueTerms`, an atomic set in which
equal terms have one address; `ATermPool` takes terms as values and creates them in
one step for that reason.  `PbesInst` has several threads and assumes that the partial
solver is sound.  `PbesPartialSolve` has one thread and the solvers of the library.  It
does not discharge that assumption in general: it finds no fault in four of the solvers on
small systems, and shows that the local fatal attractors are not sound
(`pbes_fatal_local`), so what is said about `PbesInst` does not apply to that option.

```
   Explorer  ----- uses ----> KeyNumbering
                                  ^ implements
                              IndexedSet --- uses ---> ReadersWriterLock
   ATermPool ------------------------------- uses ------^      ^ implements
       |  assumes                                           SharedMutex
       +------> UniqueTerms <--- implements --- TermStorage

   PbesInst  --- assumes a sound solver --->  PbesPartialSolve
       (both over ParityGame)                  (StructureGraph: the solvers)
```

### 1.3 Modules

| module | contents |
|---|---|
| `ReadersWriterLock` | abstract lock with recursive shared sections |
| `SharedMutex`, `MCSharedMutex`, `SharedMutexProofs` | the busy-forbidden protocol |
| `KeyNumbering` | abstract numbering of keys with concurrent calls |
| `IndexedSet`, `MCIndexedSet` | the concurrent indexed set |
| `IndexedSetTableProofs`, `IndexedSetNumberProofs`, `IndexedSetProofs` | its proofs: the hash table, the calls and the numbering, the counts and the theorems |
| `Explorer`, `MCExplorer`, `ExplorerProofs` | parallel exploration |
| `ATermPool`, `MCATermPool` | term pool and garbage collection |
| `ATermPoolProofs`, `ATermPoolIndexProofs` | its theorems: on locks, terms and variables, and on the numbers of indexed terms |
| `UniqueTerms` | abstract set of terms with one address each |
| `TermStorage`, `MCTermStorage` | hash table of the terms and block allocator |
| `ParityGame` | vertices, winning sets, the solution of an equation system |
| `PbesInst`, `MCPbesInst`, `PbesInstProofs` | parallel instantiation of a PBES |
| `StructureGraph` | attractors, partial solvers and the recursive solver of structure graphs |
| `PbesPartialSolve`, `MCPbesPartialSolve` | instantiation with partial solving, pruning, extraction and solving |

Each `MC...` module holds the instances for TLC, each `...Proofs` module the
theorems.  Definitions named `Mutant_...` are plausible mistakes in the code; no
specification uses them, they serve to show that each property can fail.

## 2. The models and the code

Actions have the names of the functions they model where TLA+ allows it, and
`PROJECT.json` maps each definition to its lines.  A variable `pc` says where a
thread is in a function; the points are chosen so that every access to shared
state that is not protected by a lock is a step of its own.

### 2.1 SharedMutex (`utilities/include/mcrl2/utilities/shared_mutex.h`)

`busy`, `forbidden` and `depth` are the flags and the depth of each object,
`owner` the holder of `m_shared->mutex`, `other` the list of registered objects,
`todo` what the loops over this list still have to visit.  Every load and store of
a flag is an action.  `lock` is `lock`, `set_forbidden` (one per object),
`all_forbidden`, `wait_for_busy` (one per object), `acquired`; `unlock` is
`unlock`, `clear_forbidden`, `unlocked`; `lock_shared` is `lock_shared`, and then
`enter_shared` or the loop `must_wait`, `back_off`, `wait_for_global`,
`pass_global`, `retry`.  The flags are sequentially consistent atomics in the
code.  The order in which the list is visited is left open, which covers the order
of the vector.  `First` is the object made by the default constructor; the others
are copies and come and go.

### 2.2 IndexedSet (`utilities/include/mcrl2/utilities/detail/indexed_set.h`)

`hashtable`, `keys` and `next_index` are the three data members.  `insert` takes
the shared lock; when few entries are left it goes through `give_up_guard`,
`reserve_indices`, `grow`, `end_reserve` and `relock`.  `put_in_hashtable` and
`compare_exchange` are the walk along the table, `fetch_add`, `store_key` and
`publish` the three steps for a new key.  `resize_hashtable` rebuilds the table
with the same positions as the code computes, where `Hash` stands for the hash
value after multiplication and shift.  The repeated doubling in `reserve_indices`
is one resize to the final size, since each doubling rebuilds the table from the
keys.  A failing assertion on the index is the point `"failed"`.

`clear` needs that no other thread is in a call.  The code only takes the exclusive lock,
which would not keep it out of the gap in which `insert` has given up its lock; its callers
do: `generate_state_space` clears the set before it starts its threads, and `clear` is not
among the functions documented as threadsafe.

Left out: the guard on the term pool that the version for terms takes around each
call; it only keeps collections away.

### 2.3 Explorer (`lps/include/mcrl2/lps/explorer_bfs.h`)

`todo` is the shared todo set, `mine` the todo set of a thread, `active` is
`number_of_active_processes`.  A thread takes a state (`take_state`), explores the
states of its own (`choose_element`, one step per transition, `finish_state`),
gives a quarter of them away (`share_states`, `notify_all`) when the unlocked reads
of `finish_state` suggest so, and finally finds no work (`check_todo`,
`become_inactive`, `wake_up`, `become_active`).  The reads of the shared todo set
outside `m_exclusive_state_access` are steps of their own.  `stochastic`, which is
chosen at the start and never changes, and the constant `Timed` choose between the
three ways the code has to look up and insert a target.  `abort` may be called from a
callback.  After `join` a new exploration may start with the state the last one left behind.

A todo set is a set: any of its elements may be chosen.  That covers the
breadth-first and the depth-first strategy.  The transitions of a state are the
constant `Targets`; the code computes them by rewriting, with caches.

### 2.4 ATermPool (`atermpp/include/mcrl2/atermpp/detail/`)

A term is a value that stands for its symbol and arguments (`Arg`), as maximal
sharing means that equal terms are one node.  `m_term_set` is the set of nodes that
exist.  An address of `Variable` is a place where an `aterm_core` may live;
`m_variables` are the protection sets and `m_term` the terms at an address.
`IndexMap` is the static container of `index_traits`, which numbers the terms of
some symbols and frees a number when the deletion hook of a term is called.

Modelled are the constructors in the order in which they copy and register
(`copy_construct`, `register_copy`; `register_pointer`, `write_pointer`), the
assignments, the destructor; the creation of terms with arguments that are created
in the same call and are in no protection set (`create`, `create_argument`,
`create_appl`); the decision to collect (`created_term`, `collect`,
`collect_impl`); marking and sweeping term by term in the order of the storages
(`start_collect` to `end_collect`), with the hooks; resizing; the start and the end
of threads (`register_thread_aterm_pool`, `absorb`, `remove_thread_aterm_pool`).

The counters that decide when to collect are abstracted to whether a collection is
due: `created_term` may find one due after any creation, so each property holds
whatever the counters are.  What a thread does under a shared lock to its own
variables is one step; no other thread looks at them before the lock is released.

### 2.5 TermStorage (`utilities/include/mcrl2/utilities/`: `unordered_set.h`, `detail/bucket_list.h`, `block_allocator.h`)

The storage of the terms of one arity, below what `ATermPool` shows of it.  The
memory is a set of blocks of entries; an entry has a pointer word, `next`, and a
term, `key`.  The pointer word is one variable for nodes in a bucket and for free
entries, as in the code, where `BlockEntry` is a union.  `m_buckets` are the heads of
the lists, `local` the free list and the current block of each thread, `free_chunks`
the chains of free entries that any thread may take.

`emplace` under the shared lock is `emplace` and `find_impl` (a step per node),
`allocate` (from the free list, the current block, a shared chunk or a new block, in
this order), `load_head`, `scan` (a step per node), `exchange`, which may fail
although the head is the expected one, and `return`, which counts the element.  Under
the exclusive lock, `begin_sweep`, `sweep` (a step per node) and `end_sweep` destroy
the terms that are not marked, which may be any, and consolidate the allocator;
`resize_if_needed` doubles the number of buckets.  `rehash` and `remove_free_blocks`
compute the lists that the loops of the code build, in the same order.

The sentinel with which `remove_free_blocks` marks free entries is the set `marks`.
The addresses of new blocks are arbitrary; a block that was deleted may come back.

### 2.6 PbesInst (`pbes/include/mcrl2/pbes/pbesinst_lazy.h`, `pbesinst_structure_graph2.h`)

The points of `pc` follow `run_thread`: the test of the outer loop, `"fetch"` and
`"loop"` under `m_todo_access`, `"rewrite"` and `"report"` outside it, then the
decrement of the number of active processes, the sleep, and the increment.  A report is
dropped when `global_current_prune_round` has changed since the variable was taken.
`on_report_equation` and `on_discovered_elements` are part of the action that reports:
the vertex is added, the partial solver extends `S`, and the list may be pruned.  The
partial solver may add any vertices that the player wins however the unknown equations
turn out (`Determined` in `ParityGame`).  `number_of_active_processes` is an unsigned
number and wraps around at `Wrap`.

The sleep of 100 ms gives the counter time to settle but orders nothing: threads sleep at
the same time and wake together, so a thread may wake up at any time, and its test of the
number and the increment are two steps.  The right-hand side of a variable is first
simplified by `phi_substitution`, which replaces the variable itself by true or false.

Left out: abortion with `m_must_abort`, and right-hand sides with nested
conjunctions and disjunctions, which add auxiliary vertices to the graph.

### 2.7 PbesPartialSolve and StructureGraph (`pbes/include/mcrl2/pbes/pbesinst_*.h`, `structure_graph*.h`, `solve_structure_graph.h`)

One thread reports equations, in every order in which they can be found.  The equation of
a variable is chosen from a family of right-hand sides when it is reported, and a variable
is named by the index of its vertex, so that the order of the vertices is that of their
creation, as in the code.  The successors of a vertex are a sequence, in any order:
`split_and` and `split_or` return sets of terms ordered by address.  After a
report the partial solver of the chosen strategy may run, with the real `S`,
`tau` and the strategies in the vertices; the counters that decide whether it runs
are a free choice.  `Frontier` is the pruned todo list.  `Finish` extracts the minimal
graph along the strategies and solves it with the recursive algorithm.

`StructureGraph` has these algorithms as operators: `attr_S`, the
fatal attractors in their three variants, the partial solver based on the recursive
algorithm, winning loops, and `solve_recursive_extended` with and without Tom's
optimisation.  They are compared with `ParityGame`, which defines the solution of an
equation system and the winning sets by the memoryless strategies of one player and
the cycles that the other player can reach against them; an unexplored vertex is lost for
both.

## 3. What is checked

### 3.1 Runs

| run | instance | properties |
|---|---|---|
| `shared_mutex` | 3 threads, depth 2 | sections exclude each other (`MutualExclusion`); the assertions on busy flags (`NoStaleBusyFlag`); no forbidden flag is left behind (`NoStaleForbiddenFlag`); refinement of `ReadersWriterLock`; `WriterGetsIn`, `ReaderGetsIn` |
| `indexed_set` | 3 threads, 2 keys with the same hash value | an index for every claim (`EveryClaimHasAnIndex`), a table that is never full (`TableHasRoom`), no claim lost in a resize (`ProbeChainsUnbroken`), linearisability (`ImplementsKeyNumbering`), `EveryCallReturns` |
| `explorer` | 3 threads, 5 states with a cycle and shared targets, abort allowed; without probabilities, and with them (two initial states, two-step insertion) | `ActiveCounts`, `NoWorkLost`, `Complete`, `Terminates` unless aborted; without probabilities `DiscoverOnce`, `FinishOnce` |
| `aterm_pool_safety` | main thread and a worker, 2 variables, 4 terms, two with an index | no accessible term is destroyed (`AccessibleTermsExist`, `ArgumentsExist`), a deletion hook finds its term (`HookFindsItsTerm`), `IndicesDistinct`, `ProtectionStable`, `NoVariableOrphaned` |
| `aterm_pool_liveness` | main thread and a worker | `EveryCallReturns` |
| `term_storage` | 2 threads, 3 terms, 1 to 2 buckets, 3 blocks of 2 entries | equal terms have one address (`ImplementsUniqueTerms`); every entry of a block is in one place (`EntriesAccounted`); the assertion in `rehash` (`CountExact`); no walk meets a freed node (`WalksStayInBucket`) |
| `pbes_inst` | 2 threads, 3 equation systems of 5 variables | only unknown variables are in the todo list (`TodoUndefined`), no equation is reported twice (`ReportOnce`), none that is needed is missing at the end (`NoWorkLost`), the final graph has the right solution (`AnswerCorrect`), the exploration is brought to its end (`ExplorationEnds`) |
| `pbes_partial_solve` | all systems of 3 variables with ranks 0 and 1, families of systems of 4 and 5 variables, 4 strategies | what is solved is won along the strategies in `tau` (`StrategiesWin`), `ExtractedIsDefined`, `AnswerCorrect`, the strategies of the recursive solver win (`SolverStrategyWins`) |

Four more runs show that the code disagrees with its documentation or its assertions:

| run | documentation | code |
|---|---|---|
| `indexed_set_operator_at` | operator[]: "threadsafe" | it reads a deque that another thread may be resizing |
| `explorer_abort` | "Abort the state space generation" | a thread that waits after the abort is not woken, and the call does not return |
| `explorer_timed_again` | discover_state "is invoked when a state is encountered for the first time" | with time, the state is looked up without its time and never found |
| `pbes_fatal_local` | `assert(strategies_are_set_in_solved_nodes())` after `fatal_attractors` | a vertex whose successors were removed in different rounds stays in the set that is taken for won, and has no strategy |

Further observations, which have no run of their own:

- In the stochastic case lookup and insertion are two calls, and two threads may both
  report and explore a state (`lps/include/mcrl2/lps/explorer_bfs.h:117`).  `DiscoverOnce`
  and its theorem are therefore stated without probabilities; `Complete` shows that
  nothing is lost by it.
- Winning loops in the variant of `pbes/include/mcrl2/pbes/pbesinst_find_loops.h:130`
  add a vertex to `S` without setting its strategy, so the assertion
  `strategies_are_set_in_solved_nodes()` at `pbesinst_structure_graph2.h:699` fails for
  it, and the extraction would follow an undefined vertex.  The vertices it adds are won.
  `find_loops` models it, and `Strategies = {"loops"}` in `PbesPartialSolve.cfg` with the
  invariant `strategies_are_set_in_solved_nodes` shows it; it is not part of
  `pbes_partial_solve`.
- `partial_solve`, the strategy based on the recursive algorithm, extends `S` by
  attractors only; what its two calls of the recursive algorithm find is not added.
- In the loop that `pbes_fatal_local` is about
  (`pbes/include/mcrl2/pbes/pbesinst_fatal_attractors.h:174-181`), what is removed from `Y`
  in one round is not in the set whose attractor is computed in the next.  A vertex of
  player alpha with one successor in each part is in neither attractor and stays.  Without
  assertions, the extraction of the minimal graph may then follow an undefined vertex.
  The families of three and four variables do not show it.  `find_loops2` uses the same loop with another comparison of ranks; no fault was
  found in it in the families of `pbes_partial_solve`.
- The number of active processes in `PbesInst` may be 0 while threads are in their loop
  (`pbes/include/mcrl2/pbes/pbesinst_lazy.h:416-420`): a thread that has tested the number
  but not incremented it yet misses the decrement of the last worker, which takes
  it to 0.  That worker wakes, finds 0 and does not count itself, but passes the head of the
  loop once the first thread has incremented the number.  Two threads then work and one is
  counted: the first decrement makes the number 0 while the other thread still works, and the
  second takes the unsigned number below 0.  The comment there says "Check whether all
  processes are ready. If so the number_of_active_processes becomes 0."; the invariant
  `ZeroWhenReady`, added to `PbesInst.cfg`, is violated with two threads.  Also with an exact
  number nothing but the length of the sleeps keeps threads from taking turns for ever, so it
  is not claimed that every thread stops.  No work is lost by it:
  `ExplorationEnds` holds in every interleaving, and `NoWorkLost` is proved without an
  assumption on the number.

The comment on `indexed_set::insert` has its result the wrong way round ("If the
element was already in the set, the resulting bool is true"); `IndexedSet` follows
the code, which returns false then.

### 3.2 Bounds

- `MaxDepth = 2`: nested shared sections only count; two levels have a first, an
  inner and a last one.
- Three threads in `shared_mutex` let one register or leave while one locks and one
  is in a shared section.
- Two keys that start at the last position of a table of eight wrap around; the
  first insertion has to reserve, and three threads make the key table and the hash
  table grow.  `minimal_hashtable_size = 8` is the smallest size the code's static
  assertions allow.
- `ShareLimit = 1` stands for the constant 100 in the code: with it threads give
  work away in a state space of five states.  The theorems hold for every limit.
- The terms of `MCATermPool` are chosen such that the argument of a term with a
  hook is swept before it, which is the case where the order of the storages
  matters.  Two variables suffice for a copy between them.
- `term_storage`: three terms make a list with a first, an inner and a last node, and
  two of them stay together when the table grows.  Blocks of two entries and chunks of
  two (`FreeChunkSize`, 1000 in the code) let blocks be partly used and chunks be handed
  from one thread to another.  `Block` bounds the number of blocks; with these three no
  thread ever finds that it needs a fourth.  `MaxBuckets = 2` allows one rehash.
- `pbes_inst`: in two of the systems a variable is found through a vertex that is
  solved without it and is needed by another one, so that pruning removes it and has to
  bring it back; in the third the variables are on cycles.  `Wrap = 4` is more than the
  number of threads and small enough to be reached.  Two threads are enough for the number of
  active processes to go wrong in both directions.
- `pbes_partial_solve`: family 3 has all systems of three variables, with every order of the
  successors.  That is too small for the algorithms: rounds that build on each other
  need more vertices.  Family 4 has the systems of four variables in which every right-hand
  side is a conjunction or disjunction of two others, with successors in the order of
  creation and fixed ranks but for the initial variable.  Family 5 has one graph of
  dependencies on its first four variables, with all choices of players and of successor
  orders; the fifth variable depends on one of two others, or stays unexplored.  The local
  fatal attractors fail in it (`pbes_fatal_local`) and in neither of the smaller families.
  The runs show nothing about other systems, and the solvers are not proved sound.  Pruning
  is off, or on and then done after a solver has run and possibly after any report.  A solver
  may run after any report or not; a strategy without a solver is covered by that.

Symmetry is used in runs without liveness properties only: over threads that are
alike, over variables, and over blocks.

### 3.3 Fairness

- `SharedMutex`: a thread inside a function is scheduled, and sections end, since
  guards are scoped around terminating code.  The mutex is not assumed to be fair
  among its waiters.  `wait_for_busy` is strongly fair because it reads the flag
  over and over; without this a thread that polls `try_lock_shared` for ever could
  be seen busy each time.
- `IndexedSet`: weak fairness of the steps in a call.  A thread that waits for the
  exclusive lock gets it, which is `WriterGetsIn` of `SharedMutex`: the abstract lock
  lets other threads overlap their shared sections for ever, and the code does not.  A
  thread that waits for the shared lock gets it when it is free again and again
  (`ReaderGetsIn`; the table grows finitely often for finitely many keys).
- `Explorer`: weak fairness of the steps of each thread and of the join.  Spurious
  wake-ups may happen but not for ever: threads that take turns in waking up
  could otherwise keep each other from being the last.
- `ATermPool`: weak fairness of the steps in a call, shared sections end, and
  finitely many calls are made.

- `PbesInst`: weak fairness of the steps of each thread, written out as "again and
  again no step is possible, or again and again one is taken".  A sleep ends, at any time.

`TermStorage` and `PbesPartialSolve` have safety properties only.  No fairness forces
a thread to make a call.

## 4. What is proved

### 4.1 Theorems

| module | theorem | statement |
|---|---|---|
| `SharedMutexProofs` | `Exclusion`, `BusyFlagsCleared`, `ForbiddenFlagsCleared` | the safety properties of 3.1, for any set of threads and any depth |
| | `RegistrationWaits` | the list of objects does not change while a thread holds the lock exclusively |
| | `Refinement` | `Spec => RW!Spec` |
| `IndexedSetProofs` | `ClaimsHaveIndices`, `TableRoom`, `ProbeChains` | `EveryClaimHasAnIndex`, `TableHasRoom`, `ProbeChainsUnbroken`, for any number of threads and keys, any hash function and any reservation fraction |
| | `ExclusiveLockMeetsNoClaim` | `NoClaimUnderExclusiveLock`: no entry is `RESERVED` while a thread has the exclusive lock |
| | `Linearisable` | `Spec => KN!Spec` (`ImplementsKeyNumbering`) |
| `ExplorerProofs` | `ActiveCorrect`, `TerminationSound`, `Completeness` | `ActiveCounts`, `NoWorkLost`, `Complete` |
| | `DiscoveredOnce`, `FinishedOnce` | `DiscoverOnce`, `FinishOnce`, without time and probabilities |
| `ATermPoolProofs` | `CollectionIsSafe`, `TermsAreComplete`, `HooksAreSafe`, `VariablesStayProtected` | `AccessibleTermsExist`, `ArgumentsExist`, `HookFindsItsTerm`, `NoVariableOrphaned` |
| | `CollectionSeesStableRoots` | `ProtectionStable` |
| `ATermPoolIndexProofs` | `IndicesStayDistinct` | `IndicesDistinct`, for any set of indexed terms |
| `PbesInstProofs` | `TodoCorrect`, `ReportedOnce`, `WorkNotLost` | `TodoUndefined`, `ReportOnce`, `NoWorkLost`, for any number of threads, any equation systems and any order of sleeping and waking |

For each of the five components `TypeCorrect` proves that its `TypeOK` is an invariant.

The assumptions are the named `ASSUME`s of the modules: sets of threads are finite
where they are counted, special values differ from ordinary ones, the constants of
the tables are positive.  They hold in the code by construction, and TLC evaluates
them in the runs.

### 4.2 The arguments

**SharedMutex.**  Mutual exclusion is not inductive by itself.  `IInv` adds who
holds the mutex at which point (`OwnerAtPoint`), that the busy flag is up exactly at
certain points (`BusyAtPoint`), that a flag is set for all registered objects
already visited (`PassedForbidden`), and the heart of the protocol, `PassedBusy`:
once the writer has seen an object not busy, its thread may raise the busy flag
again but cannot get past its forbidden flag.  The refinement follows: the steps
`acquired`, `unlock`, `enter_shared`, `try_shared_enter`, `lock_shared_nested` and
`unlock_shared` map to steps of the abstract lock, all others to stuttering.

**IndexedSet.**  `Claiming` are the threads that may still draw an index.  A thread
joins this set only when it has read, under the shared lock, that more entries are
left than there are threads, or when it has itself just enlarged the table under the
exclusive lock.  In both cases `next_index + Cardinality(Claiming) <= Len(keys)`
holds after the step, as there are at most as many claims as threads (`IInv`).

The other theorems need to know what is in the table while threads are in the middle
of an insertion; this is `TInv`.  `ClaimsAtPositions` gives each `RESERVED` entry to one
thread, `IndicesInTable` says that each index drawn is in exactly one entry or will
be put there by exactly one thread, and `SharedAtPoint` that these threads are in a
shared section, so that a rebuild meets none of them.  `KeysInTable` is the heart.  An
entry *holds* a key if it refers to it, or is claimed by a thread that inserts it; no key
is held by two entries, and on the path from the hash position of a key to the entry
that holds it nothing is `EMPTY`.  `WalksPassed` says that a walk has only left behind
published entries of other keys.  So when the walk claims an `EMPTY` entry, no other
entry can hold its key: the path to it would be broken at that entry, or be one
that the walk has passed.  `EntriesInUse` counts: the entries in use are the indices
drawn plus the claims without an index yet, and with `IInv` this is at most
`Len(keys)`.

Two facts are about recursive functions and are proved by looking at the least
counterexample (`LeastElement`): the loop of `reserve_indices` ends with a table large
enough for the keys (`LargeEnough`), and `resize_hashtable`, which puts the keys back
one at a time, gives a table with the properties above again.  The refinement maps the
numbering to the keys by index, where an index whose key is not written yet counts with
the key its thread is about to write.  `fetch_add` is the step in which an insertion
of a new key takes effect; an insertion that finds the key, an `index` and a `size` do
so when they have read the entry or the counter that decides the result, `clear` in
`erase`.  That an `index` which meets an `EMPTY` entry may say that its key has no number
follows from `KeysInTable` and `WalksPassed`.

**Explorer.**  `ActiveCounts` ties the counter to the positions of the threads.
`TodoWatched` says that a state in the shared todo set is always watched by an
active thread that will still look there: the thread that put it there gives up
its place only after reading the todo set again.  So when the last thread finds
the todo set empty, it is, and nobody can fill it (`Quiet`).  `Accounted` says that every
discovered state is finished or in some todo set or in the hands of a thread, and
`TargetsHandled` that the targets of a finished state are discovered; at the end
this gives `Complete`.  Once `m_must_abort` is set the counter is no longer exact;
`ActiveSuffices` keeps it from going below zero.  For `DiscoverOnce` and
`FinishOnce`, `OnePlace` says that each state is in one place only.

**ATermPool.**  `Kept` are the terms that survive the collection that is going on.
The invariant is that `Kept` is closed under arguments and contains all that is
accessible, also in the middle of a collection.  While marking, `Marking` is the
tri-colour invariant: arguments of marked terms are marked unless the term is still
on the stack, and the contents of every protected address are marked or at a root
still to be visited.  A variable that is written without a lock
(`write_pointer`) is harmless because its term is also in another variable of the
same thread (`VariablesInUse`).  `PoolsRegistered`, `VariablesAbsorbed` and
`VariablesApart` describe the end of a thread: there is a time when its variables
are in two protection sets, and none when they are in no set.  `HookedIndexed` says
that the index map holds an entry, and hence the arguments, for every indexed term;
this is why a hook finds its arguments even if they belong to a storage swept
before.

For `ProtectionStable` the steps are of four kinds (`KindsOfSteps`): those of the
collector, those that need that nobody collects, the two writes to a variable that
happen without the lock, and those that leave variables and terms alone.  While a
thread marks or sweeps the second kind is not possible (`LockAtPoint`), and the third
writes to an address that is not protected yet or holds no term (`UnlockedWrites`).

`IndicesDistinct` is not inductive because numbers are reused.  `NumbersInv` adds that
the free numbers differ from each other and from those in use, and that all of them are
smaller than their total count; so when no number is free, the size of the map, which
is the next number taken, is not in use.

**PbesInst.**  `Pending` are the variables in the todo list and those that a thread is
working on and will report, because the list was not pruned since it took them.
`WorkApart` says that no variable is pending twice and none of them has an equation,
which gives `TodoUndefined` and `ReportOnce`.  `DiscoveredClosed` says that the
variables in known equations are discovered.  `WorkKept` is the heart: without pruning,
each discovered variable that has no equation is pending; with pruning, something is
pending or there is nothing left to explore (`Frontier`), since pruning replaces the
list by exactly that, and the threads that hold an older variable drop it.
`SomeoneAwake` says that while the list is not empty, and the initial variable not
solved, some thread is in its loop, or all are still on their way to it.  So when all
threads have stopped nothing is pending, and `NoWorkLost` follows.  The number of active
processes plays a part only before the first thread has entered its loop, when it
still has its initial value; what sleeping threads do to it later does not matter.

Each `IInv` was first checked with TLC as an invariant.

### 4.3 Only model-checked

- All liveness properties: the prover has no rules for fairness and `ENABLED`.
- `AnswerCorrect` of `PbesInst`: it rests on the determinacy of parity games, whose proof
  is an induction over the game and not one over the steps of the program.
- The properties of `TermStorage`.  They are about linked lists in a heap, which need
  induction along the links for every step that walks or relinks them, and about the
  order in which free entries are handed out.
- The properties of `PbesPartialSolve`: the algorithms of `StructureGraph` are recursive
  operators, about which the prover cannot reason.
- The violations of 3.1, which are single behaviours.

## 5. What is not modelled

The table of section 1.1 and the components in `PROJECT.json` give the parts and
the reasons.  Within the modelled parts: relaxed memory orders (the models
interleave atomic steps), the assignment operators of `shared_mutex`, confluence
reduction, caching, the highway search and depth-first generation of the explorer,
integer terms, user-defined containers of terms, the switch that turns collection
off, the abortion of an instantiation, nested right-hand sides, and the layers
the term pool rests on other than the storage of terms with a fixed arity: the
hash tables of the protection sets, function symbols, and the allocator of terms with
many arguments, whose contracts it assumes.

## 6. Plan

1. `SharedMutexRegistry`: copying, moving and assigning `shared_mutex` objects over
   several groups; the assertion of `unregister_mutex`.
2. `Hashtable`: open addressing with erase; refinement of a set under the
   conditions in which protection sets use it.
3. `FunctionSymbolPool`: reference counts against sweep.
4. Explorer: the timed target with its shared buffer, several threads on mutex
   object 0, highway search, depth-first generation, find_representative; the
   detectors of the state space generator on top.
5. PBES instantiation: nested right-hand sides, abortion, the partial solvers of the
   other option values on several threads.
6. Algorithms against reference definitions: the solvers of `pg`, partition refinement
   of labelled transition systems.
7. Theorems: the invariants of `TermStorage`, by least counterexamples as for the table
   of `IndexedSet`; soundness of an attractor step of `StructureGraph`.
