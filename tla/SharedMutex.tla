----------------------------- MODULE SharedMutex -----------------------------
(***************************************************************************)
(* The readers-writer lock of libraries/utilities, shared_mutex.h: the     *)
(* "busy-forbidden" protocol.  Every thread owns one shared_mutex object,  *)
(* and all the objects that are copies of each other share a              *)
(* shared_mutex_data record with an ordinary mutex and the list of the     *)
(* registered objects.  A thread enters a shared section by raising its    *)
(* own busy flag and then reading its own forbidden flag; a thread enters  *)
(* the exclusive section by taking the ordinary mutex, raising the         *)
(* forbidden flag of every other object and then waiting until each of     *)
(* them has been seen not busy.                                            *)
(*                                                                         *)
(* One action is one atomic load or store, or one call on the ordinary     *)
(* mutex, so every interleaving of the flag accesses is explored.  The     *)
(* flags are sequentially consistent atomics in the code, as here.         *)
(***************************************************************************)
EXTENDS Naturals

CONSTANTS
  Mutex,      \* the shared_mutex objects, one per thread
  NoMutex,    \* nobody holds m_shared->mutex
  First,      \* the object made by the default constructor
  MaxDepth    \* bound on the nesting of shared sections

ASSUME MutexAssumption == NoMutex \notin Mutex /\ First \in Mutex
ASSUME DepthAssumption == MaxDepth \in Nat \ {0}

VARIABLES
  other,      \* m_shared->other, the registered objects
  owner,      \* holder of m_shared->mutex
  busy,       \* m_busy_flag of each object
  forbidden,  \* m_forbidden_flag of each object
  depth,      \* m_lock_depth of each object
  pc,         \* where the thread of the object is
  todo        \* the objects a loop over m_shared->other still has to visit

vars == <<other, owner, busy, forbidden, depth, pc, todo>>

(***************************************************************************)
(* The points at which a thread can be.  "out": the object does not exist; *)
(* "idle": outside every section; "refused": a try_ call returned false;   *)
(* "forbid", "await": the two loops of set_forbidden_flags; "exclusive":   *)
(* after lock; "release": the loop of unlock; "check": lock_shared is      *)
(* about to read the forbidden flag; "backoff", "block", "pass", "retry":  *)
(* the four statements of its loop body; "trycheck": try_lock_shared is    *)
(* about to read the forbidden flag, "tryback": it has read it as set;     *)
(* "shared": in a shared section.                                          *)
(***************************************************************************)
PC == {"out", "idle", "refused", "forbid", "await", "exclusive", "release",
       "check", "backoff", "block", "pass", "retry", "trycheck", "tryback",
       "shared"}

(***************************************************************************)
(* Type invariant.                                                         *)
(***************************************************************************)
TypeOK ==
  /\ other \in SUBSET Mutex
  /\ owner \in Mutex \cup {NoMutex}
  /\ busy \in [Mutex -> BOOLEAN]
  /\ forbidden \in [Mutex -> BOOLEAN]
  /\ depth \in [Mutex -> 0 .. MaxDepth]
  /\ pc \in [Mutex -> PC]
  /\ todo \in [Mutex -> SUBSET Mutex]

Init ==
  /\ other = {First}
  /\ owner = NoMutex
  /\ busy = [m \in Mutex |-> FALSE]
  /\ forbidden = [m \in Mutex |-> FALSE]
  /\ depth = [m \in Mutex |-> 0]
  /\ pc = [m \in Mutex |-> IF m = First THEN "idle" ELSE "out"]
  /\ todo = [m \in Mutex |-> {}]

Goto(m, from, to) ==
  /\ pc[m] = from
  /\ pc' = [pc EXCEPT ![m] = to]

-----------------------------------------------------------------------------
(***************************************************************************)
(* Plausible mistakes in the functions below.  No action of the            *)
(* specification uses them: they show that the properties can fail.        *)
(***************************************************************************)
\* Waits for each object before all the forbidden flags have been set.
Mutant_all_forbidden(m) ==
  /\ Goto(m, "forbid", "await")
  /\ todo' = [todo EXCEPT ![m] = other \ {m}]
  /\ UNCHANGED <<other, owner, busy, forbidden, depth>>

\* Does not wait for the busy flag.
Mutant_wait_for_busy(m) ==
  /\ pc[m] = "await"
  /\ \E q \in todo[m] : todo' = [todo EXCEPT ![m] = @ \ {q}]
  /\ UNCHANGED <<other, owner, busy, forbidden, depth, pc>>

\* m_shared->mutex is released before the flags are cleared.
Mutant_unlock(m) ==
  /\ Goto(m, "exclusive", "release")
  /\ owner' = NoMutex
  /\ todo' = [todo EXCEPT ![m] = other]
  /\ UNCHANGED <<other, busy, forbidden, depth>>

\* Clears the caller's own flag instead of the flag of the visited object.
Mutant_clear_forbidden(m) ==
  /\ pc[m] = "release"
  /\ \E q \in todo[m] :
       /\ forbidden' = [forbidden EXCEPT ![m] = FALSE]
       /\ todo' = [todo EXCEPT ![m] = @ \ {q}]
  /\ UNCHANGED <<other, owner, busy, depth, pc>>

\* The busy flag stays up while the thread waits for m_shared->mutex.
Mutant_back_off(m) ==
  /\ Goto(m, "backoff", "block")
  /\ UNCHANGED <<other, owner, busy, forbidden, depth, todo>>

\* Returns false with the busy flag still up.
Mutant_try_shared_refuse(m) ==
  /\ Goto(m, "tryback", "refused")
  /\ UNCHANGED <<other, owner, busy, forbidden, depth, todo>>

-----------------------------------------------------------------------------
(***************************************************************************)
(* The copy constructor, for a thread that starts, and the destructor, for *)
(* one that ends.  Both take m_shared->mutex, so neither happens during an *)
(* exclusive section; a shared section of another thread is no obstacle.   *)
(***************************************************************************)
register_mutex(m) ==
  /\ Goto(m, "out", "idle")
  /\ owner = NoMutex
  /\ other' = other \cup {m}
  /\ busy' = [busy EXCEPT ![m] = FALSE]
  /\ forbidden' = [forbidden EXCEPT ![m] = FALSE]
  /\ depth' = [depth EXCEPT ![m] = 0]
  /\ UNCHANGED <<owner, todo>>

\* The shared_mutex_data dies with the last object, and the model ends there.
unregister_mutex(m) ==
  /\ Goto(m, "idle", "out")
  /\ other # {m}
  /\ owner = NoMutex
  /\ other' = other \ {m}
  /\ UNCHANGED <<owner, busy, forbidden, depth, todo>>

-----------------------------------------------------------------------------
(***************************************************************************)
(* lock and try_lock: take m_shared->mutex and start set_forbidden_flags.  *)
(* The two loops visit every registered object but the caller's own; the   *)
(* order of the vector is left open.                                       *)
(***************************************************************************)
lock(m) ==
  /\ Goto(m, "idle", "forbid")
  /\ owner = NoMutex
  /\ owner' = m
  /\ todo' = [todo EXCEPT ![m] = other \ {m}]
  /\ UNCHANGED <<other, busy, forbidden, depth>>

\* A successful try_lock is a lock; this is the call that returns false.
try_lock_fails(m) ==
  /\ Goto(m, "idle", "refused")
  /\ owner # NoMutex
  /\ UNCHANGED <<other, owner, busy, forbidden, depth, todo>>

\* The caller of a try_ function that returned false goes on.
refused(m) ==
  /\ Goto(m, "refused", "idle")
  /\ UNCHANGED <<other, owner, busy, forbidden, depth, todo>>

set_forbidden(m) ==
  /\ pc[m] = "forbid"
  /\ \E q \in todo[m] :
       /\ forbidden' = [forbidden EXCEPT ![q] = TRUE]
       /\ todo' = [todo EXCEPT ![m] = @ \ {q}]
  /\ UNCHANGED <<other, owner, busy, depth, pc>>

all_forbidden(m) ==
  /\ todo[m] = {}
  /\ Goto(m, "forbid", "await")
  /\ todo' = [todo EXCEPT ![m] = other \ {m}]
  /\ UNCHANGED <<other, owner, busy, forbidden, depth>>

wait_for_busy(m) ==
  /\ pc[m] = "await"
  /\ \E q \in todo[m] :
       /\ ~busy[q]
       /\ todo' = [todo EXCEPT ![m] = @ \ {q}]
  /\ UNCHANGED <<other, owner, busy, forbidden, depth, pc>>

acquired(m) ==
  /\ todo[m] = {}
  /\ Goto(m, "await", "exclusive")
  /\ UNCHANGED <<other, owner, busy, forbidden, depth, todo>>

-----------------------------------------------------------------------------
(***************************************************************************)
(* unlock: clear every forbidden flag, then release m_shared->mutex.       *)
(***************************************************************************)
unlock(m) ==
  /\ Goto(m, "exclusive", "release")
  /\ todo' = [todo EXCEPT ![m] = other]
  /\ UNCHANGED <<other, owner, busy, forbidden, depth>>

clear_forbidden(m) ==
  /\ pc[m] = "release"
  /\ \E q \in todo[m] :
       /\ forbidden' = [forbidden EXCEPT ![q] = FALSE]
       /\ todo' = [todo EXCEPT ![m] = @ \ {q}]
  /\ UNCHANGED <<other, owner, busy, depth, pc>>

unlocked(m) ==
  /\ todo[m] = {}
  /\ Goto(m, "release", "idle")
  /\ owner' = NoMutex
  /\ UNCHANGED <<other, busy, forbidden, depth, todo>>

-----------------------------------------------------------------------------
(***************************************************************************)
(* lock_shared.  At depth 0: raise the busy flag, then read the forbidden  *)
(* flag; while it is set, lower the busy flag, lock and unlock             *)
(* m_shared->mutex, raise the busy flag again and read once more.  Nested  *)
(* calls only count.                                                       *)
(***************************************************************************)
lock_shared(m) ==
  /\ Goto(m, "idle", "check")
  /\ busy' = [busy EXCEPT ![m] = TRUE]
  /\ UNCHANGED <<other, owner, forbidden, depth, todo>>

enter_shared(m) ==
  /\ ~forbidden[m]
  /\ Goto(m, "check", "shared")
  /\ depth' = [depth EXCEPT ![m] = @ + 1]
  /\ UNCHANGED <<other, owner, busy, forbidden, todo>>

must_wait(m) ==
  /\ forbidden[m]
  /\ Goto(m, "check", "backoff")
  /\ UNCHANGED <<other, owner, busy, forbidden, depth, todo>>

back_off(m) ==
  /\ Goto(m, "backoff", "block")
  /\ busy' = [busy EXCEPT ![m] = FALSE]
  /\ UNCHANGED <<other, owner, forbidden, depth, todo>>

wait_for_global(m) ==
  /\ Goto(m, "block", "pass")
  /\ owner = NoMutex
  /\ owner' = m
  /\ UNCHANGED <<other, busy, forbidden, depth, todo>>

pass_global(m) ==
  /\ Goto(m, "pass", "retry")
  /\ owner' = NoMutex
  /\ UNCHANGED <<other, busy, forbidden, depth, todo>>

retry(m) ==
  /\ Goto(m, "retry", "check")
  /\ busy' = [busy EXCEPT ![m] = TRUE]
  /\ UNCHANGED <<other, owner, forbidden, depth, todo>>

lock_shared_nested(m) ==
  /\ pc[m] = "shared"
  /\ depth[m] < MaxDepth
  /\ depth' = [depth EXCEPT ![m] = @ + 1]
  /\ UNCHANGED <<other, owner, busy, forbidden, pc, todo>>

(***************************************************************************)
(* try_lock_shared: one read of the forbidden flag, and no waiting.  At    *)
(* depth > 0 it is lock_shared_nested.                                     *)
(***************************************************************************)
try_lock_shared(m) ==
  /\ Goto(m, "idle", "trycheck")
  /\ busy' = [busy EXCEPT ![m] = TRUE]
  /\ UNCHANGED <<other, owner, forbidden, depth, todo>>

try_shared_enter(m) ==
  /\ ~forbidden[m]
  /\ Goto(m, "trycheck", "shared")
  /\ depth' = [depth EXCEPT ![m] = @ + 1]
  /\ UNCHANGED <<other, owner, busy, forbidden, todo>>

try_shared_fail(m) ==
  /\ forbidden[m]
  /\ Goto(m, "trycheck", "tryback")
  /\ UNCHANGED <<other, owner, busy, forbidden, depth, todo>>

try_shared_refuse(m) ==
  /\ Goto(m, "tryback", "refused")
  /\ busy' = [busy EXCEPT ![m] = FALSE]
  /\ UNCHANGED <<other, owner, forbidden, depth, todo>>

(***************************************************************************)
(* unlock_shared: the last one lowers the busy flag.                       *)
(***************************************************************************)
unlock_shared(m) ==
  /\ pc[m] = "shared"
  /\ depth' = [depth EXCEPT ![m] = @ - 1]
  /\ IF depth[m] = 1
     THEN /\ busy' = [busy EXCEPT ![m] = FALSE]
          /\ pc' = [pc EXCEPT ![m] = "idle"]
     ELSE UNCHANGED <<busy, pc>>
  /\ UNCHANGED <<other, owner, forbidden, todo>>

-----------------------------------------------------------------------------
Exclusive(m) ==
  \/ lock(m) \/ try_lock_fails(m) \/ set_forbidden(m) \/ all_forbidden(m)
  \/ wait_for_busy(m) \/ acquired(m) \/ unlock(m) \/ clear_forbidden(m)
  \/ unlocked(m)

Shared(m) ==
  \/ lock_shared(m) \/ enter_shared(m) \/ must_wait(m) \/ back_off(m)
  \/ wait_for_global(m) \/ pass_global(m) \/ retry(m)
  \/ lock_shared_nested(m) \/ unlock_shared(m)
  \/ try_lock_shared(m) \/ try_shared_enter(m) \/ try_shared_fail(m)
  \/ try_shared_refuse(m)

Next ==
  \E m \in Mutex :
    register_mutex(m) \/ unregister_mutex(m) \/ refused(m)
      \/ Exclusive(m) \/ Shared(m)

Spec == Init /\ [][Next]_vars

(***************************************************************************)
(* Fairness.  A thread that is inside one of the functions is eventually   *)
(* scheduled when it can go on; this holds for the loops of                *)
(* set_forbidden_flags and unlock and for the flag accesses.  Whoever is   *)
(* in a section eventually leaves it: the guards are block-scoped objects  *)
(* around terminating code.  No thread has to call lock or lock_shared.    *)
(* The ordinary mutex is not assumed to be fair between its waiters.  The  *)
(* spin loop of wait_for_busy reads the flag over and over, so it sees a   *)
(* flag that is down again and again (strong fairness): this only matters  *)
(* against a thread that polls try_lock_shared forever.                    *)
(***************************************************************************)
Step(m) ==
  \/ refused(m) \/ set_forbidden(m) \/ all_forbidden(m) \/ wait_for_busy(m)
  \/ acquired(m) \/ unlock(m) \/ clear_forbidden(m) \/ unlocked(m)
  \/ enter_shared(m) \/ must_wait(m) \/ back_off(m) \/ wait_for_global(m)
  \/ pass_global(m) \/ retry(m)
  \/ try_shared_enter(m) \/ try_shared_fail(m) \/ try_shared_refuse(m)

LeaveShared(m) == depth[m] = 1 /\ unlock_shared(m)

Fairness ==
  \A m \in Mutex :
    /\ WF_vars(Step(m))
    /\ SF_vars(wait_for_busy(m))
    /\ WF_vars(unlock_shared(m)) /\ SF_vars(LeaveShared(m))

FairSpec == Spec /\ Fairness

-----------------------------------------------------------------------------
InShared(m) == depth[m] > 0
InExclusive(m) == pc[m] = "exclusive"

(***************************************************************************)
(* The postconditions of lock ("All threads sharing this mutex are         *)
(* suspended outside of their shared sections") and of lock_shared ("No    *)
(* thread can acquire the exclusive lock until the last unlock_shared()"): *)
(* while a thread is in its exclusive section no other thread is in a      *)
(* shared or an exclusive one.                                             *)
(***************************************************************************)
MutualExclusion ==
  \A m, q \in Mutex :
    m # q /\ InExclusive(m) => ~InShared(q) /\ ~InExclusive(q)

(***************************************************************************)
(* The asserts of lock_shared, try_lock_shared and set_forbidden_flags:    *)
(* the busy flag of a thread that is in no function and no section, or     *)
(* whose try_ call returned false, is down.  A flag that stays up would    *)
(* make every later exclusive lock wait forever.                           *)
(***************************************************************************)
NoStaleBusyFlag ==
  \A m \in Mutex :
    pc[m] \in {"out", "idle", "refused", "forbid", "await", "exclusive",
               "release", "block", "pass"} => ~busy[m]

(***************************************************************************)
(* A forbidden flag is only up on behalf of a thread that is between lock  *)
(* and the end of unlock, and never on that thread's own object: unlock    *)
(* clears every flag that set_forbidden_flags raised before it releases    *)
(* m_shared->mutex.  A flag left behind would suspend its thread forever.  *)
(***************************************************************************)
NoStaleForbiddenFlag ==
  \A q \in Mutex :
    forbidden[q] =>
      \E m \in Mutex \ {q} :
        /\ owner = m
        /\ pc[m] \in {"forbid", "await", "exclusive", "release"}

(***************************************************************************)
(* The inductive strengthening of the three invariants above.  HoldsMutex  *)
(* are the points between taking and releasing m_shared->mutex; PassedBusy *)
(* says that once wait_for_busy has seen an object not busy, its thread    *)
(* can raise the busy flag again but cannot get past its forbidden flag.   *)
(***************************************************************************)
HoldsMutex == {"forbid", "await", "exclusive", "release", "pass"}

OwnerAtPoint ==
  \A m \in Mutex : pc[m] \in HoldsMutex <=> owner = m

Registered ==
  \A m \in Mutex : m \in other <=> pc[m] # "out"

BusyAtPoint ==
  \A m \in Mutex :
    /\ busy[m] <=> pc[m] \in {"check", "backoff", "trycheck", "tryback", "shared"}
    /\ depth[m] > 0 <=> pc[m] = "shared"

ForbiddenRegistered ==
  \A m \in Mutex :
    /\ forbidden[m] => m \in other
    /\ pc[m] = "forbid" => todo[m] \subseteq other \ {m}

PassedForbidden ==
  \A m \in Mutex : \A q \in other \ {m} :
    /\ pc[m] = "forbid" => q \in todo[m] \/ forbidden[q]
    /\ pc[m] \in {"await", "exclusive"} => forbidden[q]
    /\ pc[m] = "release" => q \in todo[m] \/ ~forbidden[q]

PassedBusy ==
  \A m \in Mutex : \A q \in other \ {m} :
    /\ pc[m] = "await" => q \in todo[m] \/ pc[q] # "shared"
    /\ pc[m] = "exclusive" => pc[q] # "shared"

IInv ==
  /\ TypeOK /\ OwnerAtPoint /\ Registered /\ BusyAtPoint
  /\ ForbiddenRegistered /\ PassedForbidden /\ PassedBusy
  /\ NoStaleForbiddenFlag

(***************************************************************************)
(* A registration never takes effect during an exclusive section: the      *)
(* list that the loops of set_forbidden_flags and unlock traverse does not *)
(* change between lock and the end of unlock.                              *)
(***************************************************************************)
RegistrationExcluded ==
  [][other' # other =>
       \A m \in Mutex : pc[m] \notin {"forbid", "await", "exclusive", "release"}]_vars

(***************************************************************************)
(* A thread that has taken m_shared->mutex in lock gets its exclusive      *)
(* section, whatever shared sections are started meanwhile: readers cannot *)
(* starve a writer.                                                        *)
(***************************************************************************)
WriterGetsIn ==
  \A m \in Mutex : pc[m] = "forbid" ~> InExclusive(m)

(***************************************************************************)
(* A thread that is in lock_shared enters its shared section, provided     *)
(* that m_shared->mutex is eventually left alone by lock: it never spins   *)
(* or sleeps on a flag that nobody will clear.                             *)
(***************************************************************************)
ReaderGetsIn ==
  (<>[][~ \E m \in Mutex : lock(m)]_vars)
    => \A m \in Mutex :
         pc[m] \in {"check", "backoff", "block", "pass", "retry"} ~> InShared(m)

-----------------------------------------------------------------------------
(***************************************************************************)
(* The exclusive section is seen from the outside from the last            *)
(* wait_for_busy to the call of unlock, a shared section from the read of  *)
(* the forbidden flag as false to the last unlock_shared.                  *)
(***************************************************************************)
AbstractWriter ==
  IF \E m \in Mutex : InExclusive(m)
  THEN CHOOSE m \in Mutex : InExclusive(m)
  ELSE NoMutex

RW == INSTANCE ReadersWriterLock
        WITH Thread <- Mutex, NoThread <- NoMutex,
             writer <- AbstractWriter, readers <- depth

(***************************************************************************)
(* The busy-forbidden protocol implements the readers-writer lock: every   *)
(* lock, unlock, lock_shared and unlock_shared takes effect at one step    *)
(* that the contract allows.                                               *)
(***************************************************************************)
ImplementsReadersWriterLock == RW!Spec
=============================================================================
