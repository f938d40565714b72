------------------------------ MODULE ATermPool ------------------------------
(***************************************************************************)
(* The maximally shared terms of the aterm library and their mark and      *)
(* sweep garbage collection: the global aterm_pool, one thread_aterm_pool  *)
(* per thread with its protection sets, the variables (aterm_core) and     *)
(* containers that are registered there, and index_traits, which numbers   *)
(* the terms of one function symbol and learns of their deletion by a      *)
(* deletion hook.                                                          *)
(*                                                                         *)
(* A term is a value of Term and stands for the node with that symbol and  *)
(* these arguments; m_term_set is the set of nodes that exist.  That two   *)
(* threads that create the same term at the same time get the same node is *)
(* assumed here: it is the contract of unordered_set::emplace.  Pointers   *)
(* into the term storage are sound when the terms they denote are in       *)
(* m_term_set.                                                             *)
(*                                                                         *)
(* The threads synchronise by one shared_mutex object per thread, here in  *)
(* its abstract form ReadersWriterLock.  What a thread does in a shared    *)
(* section to its own variables and protection sets is one step, as no     *)
(* other thread looks at them before the section ends.                     *)
(***************************************************************************)
EXTENDS Naturals, Sequences, FiniteSets

CONSTANTS
  Thread, Main, NoThread,
  Term,
  Arg,          \* the set of arguments of each term
  Arity,        \* the storage of each term: m_appl_storage is ordered by arity
  Hooked,       \* the terms with a deletion hook and an index
  Variable,     \* the addresses where a thread may have an aterm_core
  IndexMap      \* the address of variable_index_map, a static container

ASSUME TermAssumption ==
  /\ Arg \in [Term -> SUBSET Term]
  /\ Arity \in [Term -> Nat]
  /\ Hooked \subseteq Term

ASSUME ThreadAssumption ==
  /\ IsFiniteSet(Thread) /\ Main \in Thread /\ NoThread \notin Thread
  /\ IndexMap \notin Variable

VARIABLES
  writer, readers,     \* the shared_mutex
  m_thread_pools,      \* the threads whose pool is registered
  m_variables,         \* the protection sets of each thread
  m_term,              \* the terms at each address
  m_term_set,          \* the terms that exist
  marked,              \* the terms whose mark is set
  roots,               \* the addresses the collector has not yet visited
  todo,                \* the stack of mark_term
  unswept,             \* the terms the collector has not yet swept
  index,               \* variable_index_map, with the terms as its keys
  free_numbers,        \* variable_map_free_numbers
  collection_due,      \* m_count_until_collection <= 0
  pc, local            \* the position and the local variables of each thread

RW == INSTANCE ReadersWriterLock

lockvars == <<writer, readers>>
protection == <<m_thread_pools, m_variables, m_term>>
storage == <<m_term_set, index, free_numbers>>
collector == <<marked, roots, todo, unswept>>
vars == <<lockvars, protection, storage, collector, collection_due, pc, local>>

Address == Variable \cup {IndexMap}

PC == {"none", "start", "idle", "copy", "write", "create", "created", "collect",
       "try_collect", "mark", "sweep", "resize", "try_resize", "wait",
       "unlock", "exit", "remove", "gone"}

\* to: the variable that is written; from: the variable that is read;
\* args: the unprotected argument array; next: where to go on afterwards.
Locals == [to : Address, from : Address, args : SUBSET Term, next : PC]
NoLocals == [to |-> IndexMap, from |-> IndexMap, args |-> {}, next |-> "idle"]

Init ==
  /\ RW!Init
  /\ m_thread_pools = {Main}
  /\ m_variables = [t \in Thread |-> {}]
  /\ m_term = [v \in Address |-> {}]
  /\ m_term_set = {}
  /\ marked = {} /\ roots = {} /\ todo = {} /\ unswept = {}
  /\ index = [h \in {} |-> 0]
  /\ free_numbers = <<>>
  /\ collection_due = FALSE
  /\ pc = [t \in Thread |-> IF t = Main THEN "idle" ELSE "none"]
  /\ local = [t \in Thread |-> NoLocals]

Goto(t, from, to) ==
  /\ pc[t] = from
  /\ pc' = [pc EXCEPT ![t] = to]

\* A mutant of Contents: the index map is not marked.
Mutant_Contents(v) == IF v = IndexMap THEN {} ELSE m_term[v]

\* A step that takes and gives back a shared lock, nested or not.
Shared(t) == writer = NoThread

\* The terms at an address; the keys of the index map are pairs of terms.
Contents(v) == IF v = IndexMap THEN UNION {Arg[h] : h \in DOMAIN index}
               ELSE m_term[v]

Own(t) == m_variables[t] \ {IndexMap}

\* The terms thread t may use as arguments: those in its variables, and those
\* it has just made for the argument array.
Usable(t) == local[t].args \cup UNION {m_term[v] : v \in Own(t)}

-----------------------------------------------------------------------------
(***************************************************************************)
(* Variables.  An address is fresh when no aterm_core lives there.         *)
(***************************************************************************)
Fresh(v) == \A u \in Thread : v \notin m_variables[u] /\ local[u].to # v

\* aterm_core(): register a variable without a term.
construct(t, v) ==
  /\ pc[t] = "idle" /\ Fresh(v) /\ Shared(t)
  /\ m_term' = [m_term EXCEPT ![v] = {}]
  /\ m_variables' = [m_variables EXCEPT ![t] = @ \cup {v}]
  /\ UNCHANGED <<lockvars, m_thread_pools, storage, collector, collection_due,
                 pc, local>>

\* aterm_core(other): the term is copied before the variable is registered.
copy_construct(t, v, w) ==
  /\ Goto(t, "idle", "copy")
  /\ Fresh(v) /\ w \in Own(t)
  /\ m_term' = [m_term EXCEPT ![v] = m_term[w]]
  /\ local' = [local EXCEPT ![t].to = v, ![t].from = w]
  /\ UNCHANGED <<lockvars, m_thread_pools, m_variables, storage, collector,
                 collection_due>>

register_copy(t) ==
  /\ Goto(t, "copy", "idle")
  /\ Shared(t)
  /\ m_variables' = [m_variables EXCEPT ![t] = @ \cup {local[t].to}]
  /\ local' = [local EXCEPT ![t] = NoLocals]
  /\ UNCHANGED <<lockvars, m_thread_pools, m_term, storage, collector,
                 collection_due>>

\* aterm_core(_aterm*): the variable is registered first, and the term of
\* another variable is then written to it without any lock.
register_pointer(t, v, w) ==
  /\ Goto(t, "idle", "write")
  /\ Fresh(v) /\ w \in Own(t) /\ Shared(t)
  /\ m_term' = [m_term EXCEPT ![v] = {}]
  /\ m_variables' = [m_variables EXCEPT ![t] = @ \cup {v}]
  /\ local' = [local EXCEPT ![t].to = v, ![t].from = w]
  /\ UNCHANGED <<lockvars, m_thread_pools, storage, collector, collection_due>>

write_pointer(t) ==
  /\ Goto(t, "write", "idle")
  /\ m_term' = [m_term EXCEPT ![local[t].to] = m_term[local[t].from]]
  /\ local' = [local EXCEPT ![t] = NoLocals]
  /\ UNCHANGED <<lockvars, m_thread_pools, m_variables, storage, collector,
                 collection_due>>

\* operator=, assign.
assign(t, v, w) ==
  /\ pc[t] = "idle" /\ v \in Own(t) /\ w \in Own(t) /\ Shared(t)
  /\ m_term' = [m_term EXCEPT ![v] = m_term[w]]
  /\ UNCHANGED <<lockvars, m_thread_pools, m_variables, storage, collector,
                 collection_due, pc, local>>

\* A mutant of the destructor: no lock is taken.
Mutant_destruct(t, v) ==
  /\ pc[t] = "idle" /\ v \in Own(t)
  /\ \A u \in Thread \ {t} : v \notin m_variables[u]
  /\ m_variables' = [m_variables EXCEPT ![t] = @ \ {v}]
  /\ m_term' = [m_term EXCEPT ![v] = {}]
  /\ UNCHANGED <<lockvars, m_thread_pools, storage, collector, collection_due,
                 pc, local>>

\* ~aterm_core.  A variable is destroyed by the thread in whose pool it is; the
\* main thread destroys one it has absorbed after joining the other thread.
destruct(t, v) ==
  /\ pc[t] = "idle" /\ v \in Own(t) /\ Shared(t)
  /\ \A u \in Thread \ {t} : v \notin m_variables[u]
  /\ m_variables' = [m_variables EXCEPT ![t] = @ \ {v}]
  /\ m_term' = [m_term EXCEPT ![v] = {}]
  /\ UNCHANGED <<lockvars, m_thread_pools, storage, collector, collection_due,
                 pc, local>>

\* A shared section around any number of the operations above and below, as
\* the containers and the caches of the explorer use it.
lock_shared(t) ==
  /\ pc[t] = "idle" /\ readers[t] = 0
  /\ RW!AcquireShared(t)
  /\ UNCHANGED <<protection, storage, collector, collection_due, pc, local>>

unlock_shared(t) ==
  /\ pc[t] = "idle" /\ RW!ReleaseShared(t)
  /\ UNCHANGED <<protection, storage, collector, collection_due, pc, local>>

-----------------------------------------------------------------------------
\* A mutant of insert: the size of the map also when there are free numbers.
Mutant_insert(h) ==
  IF h \in DOMAIN index THEN UNCHANGED <<index, free_numbers>>
  ELSE /\ index' = [k \in DOMAIN index \cup {h} |->
                      IF k = h THEN Cardinality(DOMAIN index) ELSE index[k]]
       /\ UNCHANGED free_numbers

(***************************************************************************)
(* index_traits: insert gives a new key the number on top of the stack of  *)
(* free numbers, or else the size of the map; erase frees its number.      *)
(***************************************************************************)
insert(h) ==
  IF h \in DOMAIN index THEN UNCHANGED <<index, free_numbers>>
  ELSE LET number == IF free_numbers = <<>> THEN Cardinality(DOMAIN index)
                     ELSE Head(free_numbers)
       IN  /\ index' = [k \in DOMAIN index \cup {h} |->
                          IF k = h THEN number ELSE index[k]]
           /\ free_numbers' = IF free_numbers = <<>> THEN <<>>
                              ELSE Tail(free_numbers)

erase(h) ==
  /\ index' = [k \in DOMAIN index \ {h} |-> index[k]]
  /\ free_numbers' = <<index[h]>> \o free_numbers

\* emplace in the storage.  A term with an index is inserted in the index map
\* before; the map is a static variable and registers itself in the pool of the
\* thread that is the first to use it.
emplace(t, x) ==
  /\ m_term_set' = m_term_set \cup {x}
  /\ IF x \in Hooked THEN insert(x) ELSE UNCHANGED <<index, free_numbers>>
  /\ m_variables' =
       IF x \in Hooked /\ \A u \in Thread : IndexMap \notin m_variables[u]
       THEN [m_variables EXCEPT ![t] = @ \cup {IndexMap}]
       ELSE m_variables

(***************************************************************************)
(* create_term, create_appl, create_appl_dynamic, create_appl_index: in a  *)
(* shared section, first make the arguments that are given as functions,   *)
(* which create terms themselves and leave them in an unprotected array,   *)
(* then find or add the term and assign it to the variable.  created_term  *)
(* of an argument does nothing, as the lock is held.                       *)
(***************************************************************************)
create(t, v) ==
  /\ Goto(t, "idle", "create")
  /\ v \in Own(t)
  /\ RW!AcquireShared(t)
  /\ local' = [local EXCEPT ![t].to = v]
  /\ UNCHANGED <<protection, storage, collector, collection_due>>

create_argument(t, x) ==
  /\ pc[t] = "create"
  /\ Arg[x] \subseteq Usable(t) /\ x \notin local[t].args
  /\ emplace(t, x)
  /\ local' = [local EXCEPT ![t].args = @ \cup {x}]
  /\ UNCHANGED <<lockvars, m_thread_pools, m_term, collector, collection_due, pc>>

create_appl(t, x) ==
  /\ pc[t] = "create"
  /\ Arg[x] \subseteq Usable(t)
  /\ emplace(t, x)
  /\ m_term' = [m_term EXCEPT ![local[t].to] = {x}]
  /\ RW!ReleaseShared(t)
  /\ local' = [local EXCEPT ![t] = NoLocals]
  /\ pc' = [pc EXCEPT ![t] = IF x \in m_term_set THEN "idle" ELSE "created"]
  /\ UNCHANGED <<m_thread_pools, collector, collection_due>>

\* A mutant of created_term: is_shared_locked is not looked at.
Mutant_created_term(t) ==
  /\ pc[t] = "created"
  /\ pc' = [pc EXCEPT ![t] = IF collection_due THEN "collect" ELSE "resize"]
  /\ local' = [local EXCEPT ![t].next = "resize"]
  /\ collection_due' \in {collection_due, TRUE}
  /\ UNCHANGED <<lockvars, protection, storage, collector>>

(***************************************************************************)
(* created_term: in a shared section, or when fewer than 10000 terms were  *)
(* created since the last time, do nothing; otherwise subtract them from   *)
(* m_count_until_collection, collect if it was not positive, and resize.   *)
(***************************************************************************)
created_term(t) ==
  /\ pc[t] = "created"
  /\ \/ /\ pc' = [pc EXCEPT ![t] = "idle"]
        /\ UNCHANGED <<collection_due, local>>
     \/ /\ readers[t] = 0
        /\ collection_due
        /\ pc' = [pc EXCEPT ![t] = "collect"]
        /\ local' = [local EXCEPT ![t].next = "resize"]
        /\ UNCHANGED collection_due
     \/ /\ readers[t] = 0
        /\ ~collection_due
        /\ collection_due' \in BOOLEAN
        /\ pc' = [pc EXCEPT ![t] = "resize"]
        /\ UNCHANGED local
  /\ UNCHANGED <<lockvars, protection, storage, collector>>

(***************************************************************************)
(* collect asks for a collection; collect_impl skips it when the count     *)
(* tells that another thread has just finished one, and does not collect   *)
(* either when it fails to get the exclusive lock at once, but waits for   *)
(* the thread that has it.                                                 *)
(***************************************************************************)
collect(t) ==
  /\ Goto(t, "idle", "collect")
  /\ readers[t] = 0
  /\ collection_due' = TRUE
  /\ local' = [local EXCEPT ![t].next = "idle"]
  /\ UNCHANGED <<lockvars, protection, storage, collector>>

Return(t) ==
  /\ pc' = [pc EXCEPT ![t] = local[t].next]
  /\ local' = [local EXCEPT ![t] = NoLocals]

collect_impl(t) ==
  /\ pc[t] = "collect"
  /\ \/ /\ ~collection_due
        /\ Return(t)
     \/ /\ collection_due
        /\ pc' = [pc EXCEPT ![t] = "try_collect"]
        /\ UNCHANGED local
  /\ UNCHANGED <<lockvars, protection, storage, collector, collection_due>>

\* Another thread is inside lock or try_lock, or has the exclusive lock.
Contended(t) ==
  \E u \in Thread \ {t} :
    writer = u \/ pc[u] \in {"start", "try_collect", "try_resize", "exit", "remove"}

try_lock_fails(t) ==
  /\ pc[t] \in {"try_collect", "try_resize"}
  /\ Contended(t)
  /\ pc' = [pc EXCEPT ![t] = "wait"]
  /\ UNCHANGED <<lockvars, protection, storage, collector, collection_due,
                 local>>

wait(t) ==
  /\ pc[t] = "wait"
  /\ Shared(t)
  /\ Return(t)
  /\ UNCHANGED <<lockvars, protection, storage, collector, collection_due>>

\* A mutant: only the pool of the collecting thread is marked.
Mutant_start_collect(t) ==
  /\ Goto(t, "try_collect", "mark")
  /\ RW!AcquireExclusive(t)
  /\ roots' = m_variables[t]
  /\ UNCHANGED <<protection, storage, marked, todo, unswept, collection_due,
                 local>>

start_collect(t) ==
  /\ Goto(t, "try_collect", "mark")
  /\ RW!AcquireExclusive(t)
  /\ roots' = UNION {m_variables[u] : u \in m_thread_pools}
  /\ UNCHANGED <<protection, storage, marked, todo, unswept, collection_due,
                 local>>

\* A mutant of mark_term: the marked arguments are not pushed on the stack.
Mutant_mark_term(t) ==
  /\ pc[t] = "mark"
  /\ \E x \in todo :
       /\ todo' = todo \ {x}
       /\ marked' = marked \cup Arg[x]
  /\ UNCHANGED <<lockvars, protection, storage, roots, unswept, collection_due,
                 pc, local>>

(***************************************************************************)
(* mark: for each address of each protection set, mark the terms there     *)
(* unless they are marked, and then, until the stack is empty, the         *)
(* arguments of the terms on it that are not marked.                       *)
(***************************************************************************)
mark(t) ==
  /\ pc[t] = "mark" /\ todo = {}
  /\ \E v \in roots :
       /\ roots' = roots \ {v}
       /\ todo' = Contents(v) \ marked
       /\ marked' = marked \cup Contents(v)
  /\ UNCHANGED <<lockvars, protection, storage, unswept, collection_due, pc,
                 local>>

mark_term(t) ==
  /\ pc[t] = "mark"
  /\ \E x \in todo :
       /\ todo' = (todo \ {x}) \cup (Arg[x] \ marked)
       /\ marked' = marked \cup Arg[x]
  /\ UNCHANGED <<lockvars, protection, storage, roots, unswept, collection_due,
                 pc, local>>

start_sweep(t) ==
  /\ Goto(t, "mark", "sweep")
  /\ roots = {} /\ todo = {}
  /\ unswept' = m_term_set
  /\ UNCHANGED <<lockvars, protection, storage, marked, roots, todo,
                 collection_due, local>>

(***************************************************************************)
(* sweep: the storages in order of decreasing arity, and the terms of one  *)
(* storage in any order.  A term without a mark is destroyed, after its    *)
(* deletion hook; the mark of another term is reset.                       *)
(***************************************************************************)
NextToSweep == {x \in unswept : \A y \in unswept : Arity[y] <= Arity[x]}

sweep(t) ==
  /\ pc[t] = "sweep"
  /\ \E x \in NextToSweep :
       /\ unswept' = unswept \ {x}
       /\ \/ /\ x \in marked
             /\ marked' = marked \ {x}
             /\ UNCHANGED storage
          \/ /\ x \notin marked
             /\ m_term_set' = m_term_set \ {x}
             /\ IF x \in Hooked THEN erase(x)
                ELSE UNCHANGED <<index, free_numbers>>
             /\ UNCHANGED marked
  /\ UNCHANGED <<lockvars, protection, roots, todo, collection_due, pc, local>>

end_collect(t) ==
  /\ Goto(t, "sweep", "unlock")
  /\ unswept = {}
  /\ collection_due' = FALSE     \* size() > 0: there are always some terms
  /\ UNCHANGED <<lockvars, protection, storage, collector, local>>

unlock(t) ==
  /\ pc[t] = "unlock"
  /\ RW!ReleaseExclusive(t)
  /\ Return(t)
  /\ UNCHANGED <<protection, storage, collector, collection_due>>

-----------------------------------------------------------------------------
\* resize_is_needed looks at the tables in a shared section;
\* resize_if_needed rehashes them, which changes none of the state here.
resize_is_needed(t) ==
  /\ pc[t] = "resize"
  /\ Shared(t)
  /\ \E to \in {"idle", "try_resize"} : pc' = [pc EXCEPT ![t] = to]
  /\ UNCHANGED <<lockvars, protection, storage, collector, collection_due,
                 local>>

resize_if_needed(t) ==
  /\ Goto(t, "try_resize", "unlock")
  /\ RW!AcquireExclusive(t)
  /\ UNCHANGED <<protection, storage, collector, collection_due, local>>

\* A mutant of absorb: the variables of the thread are dropped.
Mutant_absorb(t) ==
  /\ Goto(t, "exit", "unlock")
  /\ RW!AcquireExclusive(t)
  /\ local' = [local EXCEPT ![t].next = "remove"]
  /\ UNCHANGED <<protection, storage, collector, collection_due>>

(***************************************************************************)
(* A thread registers its pool when it first uses it.  When it ends, its   *)
(* variables that still exist go to the pool of the main thread, and only  *)
(* then its pool is removed; each time under the exclusive lock.           *)
(***************************************************************************)
start_thread(t) ==
  /\ Goto(t, "none", "start")
  /\ UNCHANGED <<lockvars, protection, storage, collector, collection_due,
                 local>>

register_thread_aterm_pool(t) ==
  /\ Goto(t, "start", "unlock")
  /\ RW!AcquireExclusive(t)
  /\ m_thread_pools' = m_thread_pools \cup {t}
  /\ UNCHANGED <<m_variables, m_term, storage, collector, collection_due,
                 local>>

end_thread(t) ==
  /\ Goto(t, "idle", "exit")
  /\ t # Main /\ readers[t] = 0
  /\ UNCHANGED <<lockvars, protection, storage, collector, collection_due,
                 local>>

absorb(t) ==
  /\ Goto(t, "exit", "unlock")
  /\ RW!AcquireExclusive(t)
  /\ m_variables' = [m_variables EXCEPT ![Main] = @ \cup m_variables[t]]
  /\ local' = [local EXCEPT ![t].next = "remove"]
  /\ UNCHANGED <<m_thread_pools, m_term, storage, collector, collection_due>>

remove_thread_aterm_pool(t) ==
  /\ Goto(t, "remove", "unlock")
  /\ RW!AcquireExclusive(t)
  /\ m_thread_pools' = m_thread_pools \ {t}
  /\ m_variables' = [m_variables EXCEPT ![t] = {}]
  /\ local' = [local EXCEPT ![t].next = "gone"]
  /\ UNCHANGED <<m_term, storage, collector, collection_due>>

-----------------------------------------------------------------------------
\* The calls a thread may start, and the steps of the call it is in.
Start(t) ==
  \/ \E v \in Variable : construct(t, v) \/ destruct(t, v) \/ create(t, v)
  \/ \E v, w \in Variable :
       copy_construct(t, v, w) \/ register_pointer(t, v, w) \/ assign(t, v, w)
  \/ lock_shared(t) \/ collect(t) \/ start_thread(t) \/ end_thread(t)

Step(t) ==
  \/ register_copy(t) \/ write_pointer(t) \/ unlock_shared(t)
  \/ \E x \in Term : create_argument(t, x) \/ create_appl(t, x)
  \/ created_term(t) \/ collect_impl(t) \/ try_lock_fails(t) \/ wait(t)
  \/ start_collect(t) \/ mark(t) \/ mark_term(t) \/ start_sweep(t) \/ sweep(t)
  \/ end_collect(t) \/ unlock(t) \/ resize_is_needed(t) \/ resize_if_needed(t)
  \/ register_thread_aterm_pool(t) \/ absorb(t) \/ remove_thread_aterm_pool(t)

Next == \E t \in Thread : Start(t) \/ Step(t)

Spec == Init /\ [][Next]_vars

-----------------------------------------------------------------------------
(***************************************************************************)
(* Type invariant.                                                         *)
(***************************************************************************)
TypeOK ==
  /\ writer \in Thread \cup {NoThread}
  /\ readers \in [Thread -> Nat]
  /\ m_thread_pools \subseteq Thread
  /\ m_variables \in [Thread -> SUBSET Address]
  /\ m_term \in [Address -> SUBSET Term]
  /\ m_term_set \subseteq Term /\ marked \subseteq Term /\ todo \subseteq Term
  /\ unswept \subseteq Term /\ roots \subseteq Address
  /\ DOMAIN index \subseteq Hooked
  /\ collection_due \in BOOLEAN
  /\ pc \in [Thread -> PC]
  /\ local \in [Thread -> Locals]

Protection == UNION {m_variables[t] : t \in m_thread_pools}

Sweeping == \E t \in Thread : pc[t] = "sweep"

(***************************************************************************)
(* No term that a thread can still get at is destroyed: not the terms in   *)
(* registered variables and containers, not one that is being copied to a  *)
(* variable that is not yet registered, and not the unprotected arguments  *)
(* of a term that is being made.                                           *)
(***************************************************************************)
AccessibleTermsExist ==
  /\ \A v \in Protection : Contents(v) \subseteq m_term_set
  /\ \A t \in Thread :
       /\ local[t].args \subseteq m_term_set
       /\ pc[t] = "copy" => m_term[local[t].to] \subseteq m_term_set

(***************************************************************************)
(* verify_sweep: "Check that no argument was removed from a reachable      *)
(* term".  Except in the middle of a sweep, all arguments of all terms     *)
(* exist.                                                                  *)
(***************************************************************************)
ArgumentsExist ==
  ~Sweeping => \A x \in m_term_set : Arg[x] \subseteq m_term_set

(***************************************************************************)
(* The deletion hook finds its term complete, as the assertion             *)
(* verify_term(term) of call_deletion_hook says, and the assertion         *)
(* i != m.end() of erase holds.  The arguments may belong to a storage     *)
(* that is swept before; the index map keeps them.                         *)
(***************************************************************************)
HookFindsItsTerm ==
  Sweeping => \A x \in (unswept \cap Hooked) \ marked :
                /\ Arg[x] \subseteq m_term_set
                /\ x \in DOMAIN index

(***************************************************************************)
(* The numbers of the terms with an index are different.                   *)
(***************************************************************************)
IndicesDistinct ==
  \A g, h \in DOMAIN index : g # h => index[g] # index[h]

(***************************************************************************)
(* The comment on aterm_core: during garbage collection "all terms that    *)
(* are protected remain protected until the end of the garbage collection  *)
(* or rehashing phase by the same address or term".                        *)
(***************************************************************************)
ProtectionStable ==
  [][(\E t \in Thread : pc[t] \in {"mark", "sweep"}) =>
       /\ Protection \subseteq Protection'
       /\ \A v \in Protection \ {IndexMap} : m_term[v] \subseteq m_term'[v]]_vars

(***************************************************************************)
(* A variable leaves the registered protection sets only when it is        *)
(* destroyed, and not when its thread ends.                                *)
(***************************************************************************)
NoVariableOrphaned ==
  [][\A v \in Protection : v \in Protection' \/ \E t \in Thread : destruct(t, v)]_vars

(***************************************************************************)
(* Fairness: a thread in a call is scheduled, shared sections end, and     *)
(* only finitely many calls are made.  A thread that wants a lock gets it  *)
(* when it stays free, which WriterGetsIn and ReaderGetsIn of SharedMutex  *)
(* justify.                                                                *)
(***************************************************************************)
FairSpec ==
  /\ Spec
  /\ \A t \in Thread : WF_vars(Step(t))
  /\ <>[][\A t \in Thread : ~Start(t)]_vars

(***************************************************************************)
(* Every call returns: threads that create, collect, resize, start and end *)
(* do not wait for each other for ever.                                    *)
(***************************************************************************)
EveryCallReturns ==
  \A t \in Thread : (pc[t] # "idle") ~> (pc[t] \in {"idle", "none", "gone"})

-----------------------------------------------------------------------------
(***************************************************************************)
(* The inductive invariant.  The lock excludes the collector from shared   *)
(* sections, and arguments are unprotected only inside one.                *)
(***************************************************************************)
LockAtPoint ==
  /\ \A t \in Thread : pc[t] \in {"mark", "sweep", "unlock"} <=> writer = t
  /\ writer # NoThread => \A t \in Thread : readers[t] = 0
  /\ \A t \in Thread : pc[t] = "create" => readers[t] > 0
  /\ \A t \in Thread : local[t].args # {} => pc[t] = "create"

\* Between absorb and the removal of its pool a thread does not use the
\* variables it shares with the main thread.
Leaving(t) ==
  pc[t] = "remove" \/ (pc[t] = "unlock" /\ local[t].next = "remove")

\* Where a thread goes on after a collection, a wait or an exclusive section.
ReturnPoints ==
  \A t \in Thread :
    \/ local[t].next \in {"idle", "resize"}
    \/ local[t].next \in {"remove", "gone"} /\ pc[t] = "unlock"

\* The pool of a thread is registered whenever it protects something, and that
\* of the main thread always.
PoolsRegistered ==
  /\ Main \in m_thread_pools
  /\ pc[Main] \notin {"none", "start", "exit", "remove"}
  /\ local[Main].next \in {"idle", "resize"}
  /\ \A t \in Thread :
       \/ t \in m_thread_pools
       \/ /\ m_variables[t] = {}
          /\ \/ pc[t] \in {"none", "start", "gone"}
             \/ pc[t] = "unlock" /\ local[t].next = "gone"

VariablesAbsorbed ==
  \A t \in Thread : Leaving(t) => m_variables[t] \subseteq m_variables[Main]

VariablesApart ==
  \A t, u \in Thread :
    t # u => \A v \in m_variables[t] \cap m_variables[u] : Leaving(t) \/ Leaving(u)

VariablesInUse ==
  \A t \in Thread :
    /\ pc[t] \in {"copy", "write"} => local[t].from \in Own(t)
    /\ pc[t] \in {"create", "write"} => local[t].to \in Own(t)
    /\ pc[t] = "write" => m_term[local[t].to] = {}
    /\ pc[t] = "copy" =>
         /\ local[t].to \in Variable
         /\ m_term[local[t].to] = m_term[local[t].from]
         /\ \A u \in Thread : /\ local[t].to \notin m_variables[u]
                              /\ u # t => local[u].to # local[t].to

CollectorIdle ==
  /\ (\A t \in Thread : pc[t] # "mark") => roots = {} /\ todo = {}
  /\ (\A t \in Thread : pc[t] # "sweep") => unswept = {}
  /\ (\A t \in Thread : pc[t] \notin {"mark", "sweep"}) => marked = {}

\* While marking: what is marked is closed under arguments but for the terms on
\* the stack, and everything accessible is marked or at a root still to visit.
Marking ==
  (\E t \in Thread : pc[t] = "mark") =>
    /\ marked \subseteq m_term_set /\ todo \subseteq marked
    /\ roots \subseteq Protection
    /\ \A x \in marked \ todo : Arg[x] \subseteq marked
    /\ \A v \in Protection :
         Contents(v) \subseteq marked \cup UNION {Contents(w) : w \in roots}

SweepsTermsOnly == Sweeping => marked \subseteq unswept /\ unswept \subseteq m_term_set

\* The terms that survive the collection that is going on, if any.
Kept == IF Sweeping THEN (m_term_set \ unswept) \cup marked ELSE m_term_set

KeptClosed == \A x \in Kept : Arg[x] \subseteq Kept

AccessibleKept ==
  /\ \A v \in Protection : Contents(v) \subseteq Kept
  /\ \A t \in Thread : local[t].args \subseteq Kept

HookedIndexed ==
  /\ m_term_set \cap Hooked \subseteq DOMAIN index
  /\ DOMAIN index # {} => IndexMap \in Protection

IInv ==
  /\ TypeOK /\ LockAtPoint /\ ReturnPoints /\ PoolsRegistered /\ VariablesAbsorbed
  /\ VariablesApart /\ VariablesInUse /\ CollectorIdle /\ Marking
  /\ SweepsTermsOnly /\ KeptClosed /\ AccessibleKept /\ HookedIndexed

\* The numbers in use and the free ones are all different, and below their sum:
\* when none is free, the size of the map is not in use.
NumbersApart(f, q) ==
  /\ IsFiniteSet(DOMAIN f) /\ f \in [DOMAIN f -> Nat] /\ q \in Seq(Nat)
  /\ \A g, h \in DOMAIN f : g # h => f[g] # f[h]
  /\ \A i, j \in 1 .. Len(q) : i # j => q[i] # q[j]
  /\ \A h \in DOMAIN f, i \in 1 .. Len(q) : f[h] # q[i]
  /\ \A h \in DOMAIN f : f[h] < Cardinality(DOMAIN f) + Len(q)
  /\ \A i \in 1 .. Len(q) : q[i] < Cardinality(DOMAIN f) + Len(q)

NumbersInv == NumbersApart(index, free_numbers)
=============================================================================
