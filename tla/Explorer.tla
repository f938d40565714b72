------------------------------- MODULE Explorer -------------------------------
(***************************************************************************)
(* The parallel exploration of a state space by lps::explorer.  Worker     *)
(* threads take states from a shared todo set, explore them with a todo    *)
(* set of their own, give work away when others have run out of it, and    *)
(* wait on a condition variable when there is none.  The last active       *)
(* thread that finds no work ends the exploration.                         *)
(*                                                                         *)
(* discovered is the indexed_set, whose calls are atomic (KeyNumbering).   *)
(* A critical section of m_exclusive_state_access or of                    *)
(* m_global_todo_buffer_mutex is one step; the reads of the todo set and   *)
(* of number_of_active_processes outside of them are steps of their own.   *)
(* The todo sets are sets from which any element may be chosen, which      *)
(* covers the breadth-first and the depth-first strategy, and the targets  *)
(* of a state are handled in any order.                                    *)
(***************************************************************************)
EXTENDS Naturals, FiniteSets

CONSTANTS
  Thread,
  State,
  Initial,       \* the initial states, with and without probabilities
  Targets,       \* for each state, the targets of its transitions
  Stochastic,    \* the values of the template parameter Stochastic
  Timed,
  ShareLimit,    \* a thread with more states than this gives some away (100)
  MayAbort       \* may a callback call abort()?

ASSUME ThreadAssumption == IsFiniteSet(Thread) /\ Thread # {}
ASSUME StateAssumption ==
  /\ IsFiniteSet(State) /\ Initial \in [BOOLEAN -> SUBSET State \ {{}}]
  /\ Targets \in [State -> SUBSET State]
ASSUME KindAssumption ==
  Stochastic \subseteq BOOLEAN /\ Timed \in BOOLEAN /\ MayAbort \in BOOLEAN
ASSUME LimitAssumption == ShareLimit \in Nat \ {0}

VARIABLES
  stochastic,    \* which of the explorers this is
  running,       \* generate_state_space has not returned
  discovered,
  todo,          \* the shared todo set
  active,        \* number_of_active_processes
  must_abort,    \* m_must_abort
  pc,
  mine,          \* thread_todo of each thread
  current,       \* the state that each thread explores, as a set
  rest,          \* the targets of that state that are still to be handled
  target,        \* the target that is being inserted, as a set
  aborted,       \* history: abort() has been called
  reported,      \* history: the states passed to discover_state
  finished       \* history: the states passed to finish_state

history == <<aborted, reported, finished>>
vars == <<stochastic, running, discovered, todo, active, must_abort, pc, mine,
          current, rest, target, history>>
fixed == <<stochastic, running>>     \* what no thread changes
local == <<mine, current, rest, target>>

N == Cardinality(Thread)
Nothing == [t \in Thread |-> {}]
PC == {"take", "choose", "targets", "insert", "discover", "finish", "share",
       "notify", "check", "decide", "waiting", "woken", "stopped"}

Goto(t, from, to) ==
  /\ pc[t] = from
  /\ pc' = [pc EXCEPT ![t] = to]

Init ==
  /\ stochastic \in Stochastic
  /\ running = FALSE
  /\ discovered = {} /\ todo = {} /\ active = 0 /\ must_abort = FALSE
  /\ pc = [t \in Thread |-> "stopped"]
  /\ mine = Nothing /\ current = Nothing /\ rest = Nothing /\ target = Nothing
  /\ aborted = FALSE /\ reported = {} /\ finished = {}

(***************************************************************************)
(* Mutants of the steps below: a state is read but not removed, every      *)
(* target is taken for a new one, a new state is not put in a todo set,    *)
(* the shared todo set is not looked at again, the waiting threads are not *)
(* told of the end, a thread that wakes up is not counted.                 *)
(***************************************************************************)
Mutant_take(t) ==
  /\ Goto(t, "take", "choose")
  /\ mine' = [mine EXCEPT ![t] = @ \cup todo]
  /\ UNCHANGED todo

Mutant_insert_target(t) ==
  /\ ~stochastic
  /\ Goto(t, "targets", "discover")
  /\ \E s \in rest[t] :
       /\ rest' = [rest EXCEPT ![t] = @ \ {s}]
       /\ discovered' = discovered \cup {s}
       /\ target' = [target EXCEPT ![t] = {s}]
  /\ UNCHANGED <<fixed, todo, active, must_abort, mine, current, history>>

Mutant_discover_state(t) ==
  /\ Goto(t, "discover", "targets")
  /\ target' = [target EXCEPT ![t] = {}]
  /\ reported' = reported \cup target[t]
  /\ UNCHANGED <<fixed, discovered, todo, active, must_abort, mine, current,
                 rest, aborted, finished>>

Mutant_check_todo(t) ==
  /\ Goto(t, "check", "decide")
  /\ UNCHANGED <<fixed, discovered, todo, active, must_abort, local, history>>

Mutant_become_inactive(t) ==
  /\ Goto(t, "decide", IF active = 1 THEN "take" ELSE "waiting")
  /\ active' = active - 1
  /\ must_abort' = (must_abort \/ active = 1)
  /\ UNCHANGED <<fixed, discovered, todo, local, history>>

Mutant_become_active(t) ==
  /\ Goto(t, "woken", "take")
  /\ UNCHANGED <<fixed, discovered, todo, active, must_abort, local, history>>

-----------------------------------------------------------------------------
\* generate_state_space up to the creation of the threads.
generate_state_space ==
  /\ ~running
  /\ running' = TRUE
  /\ discovered' = Initial[stochastic]
  /\ reported' = Initial[stochastic]
  /\ todo' = Initial[stochastic]
  /\ active' = N
  /\ pc' = [t \in Thread |-> "take"]
  /\ mine' = Nothing /\ current' = Nothing /\ rest' = Nothing /\ target' = Nothing
  /\ aborted' = FALSE
  /\ finished' = {}
  /\ UNCHANGED <<stochastic, must_abort>>

\* The threads have been joined, and generate_state_space returns.
join ==
  /\ running
  /\ \A t \in Thread : pc[t] = "stopped"
  /\ running' = FALSE
  /\ must_abort' = FALSE
  /\ UNCHANGED <<stochastic, discovered, todo, active, pc, local, history>>

-----------------------------------------------------------------------------
(***************************************************************************)
(* generate_state_space_thread.  Holding m_exclusive_state_access, a       *)
(* thread leaves when it must abort, takes one state, or finds none.       *)
(***************************************************************************)
take(t) ==
  \/ /\ must_abort
     /\ Goto(t, "take", "stopped")
     /\ UNCHANGED <<todo, mine>>
  \/ /\ ~must_abort
     /\ Goto(t, "take", "choose")
     /\ \E s \in todo :
          /\ todo' = todo \ {s}
          /\ mine' = [mine EXCEPT ![t] = @ \cup {s}]
  \/ /\ ~must_abort
     /\ todo = {}
     /\ Goto(t, "take", "check")
     /\ UNCHANGED <<todo, mine>>

take_state(t) ==
  /\ take(t)
  /\ UNCHANGED <<fixed, discovered, active, must_abort, current, rest, target,
                 history>>

\* The loop over the states of the thread itself; start_state is called here.
choose_element(t) ==
  /\ Goto(t, "choose", "targets")
  /\ ~must_abort
  /\ \E s \in mine[t] :
       /\ mine' = [mine EXCEPT ![t] = @ \ {s}]
       /\ current' = [current EXCEPT ![t] = {s}]
       /\ rest' = [rest EXCEPT ![t] = Targets[s]]
  /\ UNCHANGED <<fixed, discovered, todo, active, must_abort, target, history>>

leave_loop(t) ==
  /\ Goto(t, "choose", "check")
  /\ mine[t] = {} \/ must_abort
  /\ UNCHANGED <<fixed, discovered, todo, active, must_abort, local, history>>

(***************************************************************************)
(* One transition.  Without time and probabilities the target is inserted  *)
(* and the result of insert tells whether it is new.  Otherwise it is      *)
(* looked up first and inserted in a second call.  In the timed case the   *)
(* state vector without its time is looked up; it is one element shorter   *)
(* than every state in discovered, and hence never found.                  *)
(***************************************************************************)
Found(s) == s \in discovered /\ ~(Timed /\ ~stochastic)

insert_target(t) ==
  /\ ~stochastic /\ ~Timed
  /\ pc[t] = "targets"
  /\ \E s \in rest[t] :
       /\ rest' = [rest EXCEPT ![t] = @ \ {s}]
       /\ discovered' = discovered \cup {s}
       /\ IF s \in discovered
          THEN UNCHANGED <<pc, target>>
          ELSE /\ pc' = [pc EXCEPT ![t] = "discover"]
               /\ target' = [target EXCEPT ![t] = {s}]
  /\ UNCHANGED <<fixed, todo, active, must_abort, mine, current, history>>

lookup_target(t) ==
  /\ stochastic \/ Timed
  /\ pc[t] = "targets"
  /\ \E s \in rest[t] :
       /\ rest' = [rest EXCEPT ![t] = @ \ {s}]
       /\ IF Found(s)
          THEN UNCHANGED <<pc, target>>
          ELSE /\ pc' = [pc EXCEPT ![t] = "insert"]
               /\ target' = [target EXCEPT ![t] = {s}]
  /\ UNCHANGED <<fixed, discovered, todo, active, must_abort, mine, current,
                 history>>

insert_looked_up(t) ==
  /\ Goto(t, "insert", "discover")
  /\ discovered' = discovered \cup target[t]
  /\ UNCHANGED <<fixed, todo, active, must_abort, local, history>>

discover_state(t) ==
  /\ Goto(t, "discover", "targets")
  /\ mine' = [mine EXCEPT ![t] = @ \cup target[t]]
  /\ target' = [target EXCEPT ![t] = {}]
  /\ reported' = reported \cup target[t]
  /\ UNCHANGED <<fixed, discovered, todo, active, must_abort, current, rest,
                 aborted, finished>>

(***************************************************************************)
(* finish_state, and the decision to give work away: some thread is not    *)
(* active, this one has enough states and the shared todo set is empty.    *)
(***************************************************************************)
finish_state(t) ==
  /\ pc[t] = "targets"
  /\ rest[t] = {}
  /\ finished' = finished \cup current[t]
  /\ current' = [current EXCEPT ![t] = {}]
  /\ pc' = [pc EXCEPT ![t] =
       IF active < N /\ Cardinality(mine[t]) > ShareLimit /\ todo = {}
       THEN "share" ELSE "choose"]
  /\ UNCHANGED <<fixed, discovered, todo, active, must_abort, mine, rest,
                 target, aborted, reported>>

\* A quarter of the states is moved, but never all of them.
NumberToMove(n) == IF n - 1 < 1 + n \div 4 THEN n - 1 ELSE 1 + n \div 4

share_states(t) ==
  /\ Goto(t, "share", "notify")
  /\ \E moved \in SUBSET mine[t] :
       /\ Cardinality(moved) = NumberToMove(Cardinality(mine[t]))
       /\ todo' = todo \cup moved
       /\ mine' = [mine EXCEPT ![t] = @ \ moved]
  /\ UNCHANGED <<fixed, discovered, active, must_abort, current, rest, target,
                 history>>

\* pc after notify_all, for a thread t that goes on at next.
NotifyAll(t, next) ==
  [u \in Thread |-> IF u = t THEN next
                    ELSE IF pc[u] = "waiting" THEN "woken" ELSE pc[u]]

notify_all(t) ==
  /\ pc[t] = "notify"
  /\ pc' = NotifyAll(t, "choose")
  /\ UNCHANGED <<fixed, discovered, todo, active, must_abort, local, history>>

-----------------------------------------------------------------------------
(***************************************************************************)
(* No work left: the shared todo set is read without a lock; when it is    *)
(* empty the thread gives up its place among the active threads, and ends  *)
(* the exploration or waits.                                               *)
(***************************************************************************)
check_todo(t) ==
  /\ pc[t] = "check"
  /\ pc' = [pc EXCEPT ![t] = IF todo = {} THEN "decide" ELSE "take"]
  /\ UNCHANGED <<fixed, discovered, todo, active, must_abort, local, history>>

become_inactive(t) ==
  /\ pc[t] = "decide"
  /\ active' = active - 1
  /\ IF active = 1
     THEN /\ must_abort' = TRUE
          /\ pc' = NotifyAll(t, "take")
     ELSE /\ pc' = [pc EXCEPT ![t] = "waiting"]
          /\ UNCHANGED must_abort
  /\ UNCHANGED <<fixed, discovered, todo, local, history>>

\* A wait on a condition variable may also end without a notification.
wake_up(t) ==
  /\ Goto(t, "waiting", "woken")
  /\ UNCHANGED <<fixed, discovered, todo, active, must_abort, local, history>>

become_active(t) ==
  /\ Goto(t, "woken", "take")
  /\ active' = IF must_abort THEN active ELSE active + 1
  /\ UNCHANGED <<fixed, discovered, todo, must_abort, local, history>>

\* abort() is called by a callback, from the thread that runs it.
abort(t) ==
  /\ MayAbort /\ ~must_abort
  /\ pc[t] \in {"targets", "discover"}
  /\ must_abort' = TRUE
  /\ aborted' = TRUE
  /\ UNCHANGED <<fixed, discovered, todo, active, pc, local, reported, finished>>

-----------------------------------------------------------------------------
Step(t) ==
  \/ take_state(t) \/ choose_element(t) \/ leave_loop(t)
  \/ insert_target(t) \/ lookup_target(t) \/ insert_looked_up(t)
  \/ discover_state(t) \/ finish_state(t) \/ share_states(t) \/ notify_all(t)
  \/ check_todo(t) \/ become_inactive(t) \/ become_active(t)

Next ==
  \/ generate_state_space \/ join
  \/ \E t \in Thread : Step(t) \/ wake_up(t) \/ abort(t)

Spec == Init /\ [][Next]_vars

(***************************************************************************)
(* Every thread that can go on eventually does.  A wait is never sure to   *)
(* end by itself, and does so finitely often: otherwise the threads could  *)
(* take turns in waking up for ever.                                       *)
(***************************************************************************)
FairSpec ==
  /\ Spec
  /\ WF_vars(join) /\ \A t \in Thread : WF_vars(Step(t))
  /\ <>[][\A t \in Thread : ~wake_up(t)]_vars

-----------------------------------------------------------------------------
(***************************************************************************)
(* Type invariant.                                                         *)
(***************************************************************************)
TypeOK ==
  /\ stochastic \in BOOLEAN
  /\ running \in BOOLEAN /\ must_abort \in BOOLEAN /\ aborted \in BOOLEAN
  /\ discovered \subseteq State /\ todo \subseteq State
  /\ reported \subseteq State /\ finished \subseteq State
  /\ active \in 0 .. N
  /\ pc \in [Thread -> PC]
  /\ mine \in [Thread -> SUBSET State] /\ current \in [Thread -> SUBSET State]
  /\ rest \in [Thread -> SUBSET State] /\ target \in [Thread -> SUBSET State]

Inactive == {t \in Thread : pc[t] \in {"waiting", "woken"}}

(***************************************************************************)
(* While the exploration goes on, number_of_active_processes is the number *)
(* of threads that are not in the wait; the test 1 == fetch_sub(1) of the  *)
(* last thread relies on it.                                               *)
(***************************************************************************)
ActiveCounts ==
  running /\ ~must_abort => active = N - Cardinality(Inactive)

(***************************************************************************)
(* The assertions that a thread has explored all of its own states when it *)
(* looks for other work.                                                   *)
(***************************************************************************)
OwnWorkDone ==
  \A t \in Thread :
    pc[t] \in {"take", "check", "decide", "waiting", "woken"} =>
      mine[t] = {} \/ must_abort

(***************************************************************************)
(* The exploration does not end too early: unless it is aborted, all work  *)
(* is done when m_must_abort is set, although the shared todo set was read *)
(* without a lock before.                                                  *)
(***************************************************************************)
NoWorkLost ==
  must_abort /\ ~aborted =>
    /\ todo = {}
    /\ \A t \in Thread : mine[t] = {} /\ current[t] = {} /\ target[t] = {}

(***************************************************************************)
(* The result: when generate_state_space has returned without abort, every *)
(* discovered state was reported and finished, and the discovered states   *)
(* contain the initial ones and are closed under transitions.              *)
(***************************************************************************)
Complete ==
  ~running /\ ~aborted /\ discovered # {} =>
    /\ Initial[stochastic] \subseteq discovered
    /\ reported = discovered /\ finished = discovered
    /\ \A s \in discovered : Targets[s] \subseteq discovered

(***************************************************************************)
(* discover_state "is invoked when a state is encountered for the first    *)
(* time" (the documentation of generate_state_space).  With probabilities, *)
(* where two threads may both look up a state before one inserts it, the   *)
(* property is not claimed.                                                *)
(***************************************************************************)
DiscoverOnce ==
  [][~stochastic => \A t \in Thread :
       pc[t] = "discover" /\ pc'[t] # pc[t] => target[t] \cap reported = {}]_vars

(***************************************************************************)
(* No state is explored twice: finish_state never gets a finished state,   *)
(* without probabilities.                                                  *)
(***************************************************************************)
FinishOnce ==
  [][~stochastic => \A t \in Thread :
       current[t] # {} /\ current'[t] = {} => current[t] \cap finished = {}]_vars

(***************************************************************************)
(* generate_state_space returns unless it is aborted: the last thread is   *)
(* not kept from ending the exploration, and no thread is left in the      *)
(* wait.                                                                   *)
(***************************************************************************)
Terminates == running ~> ~running \/ aborted

(***************************************************************************)
(* "Abort the state space generation": after abort() generate_state_space  *)
(* returns.                                                                *)
(***************************************************************************)
AbortTerminates == aborted ~> ~running

-----------------------------------------------------------------------------
(***************************************************************************)
(* The inductive invariant behind NoWorkLost and Complete.                 *)
(***************************************************************************)
Exploring == {"targets", "insert", "discover"}
Working == {t \in Thread : pc[t] \notin {"take", "waiting", "woken", "stopped"}}

\* A thread has a state, targets and a new target only where the code does.
LocalAtPoint ==
  \A t \in Thread :
    /\ pc[t] \notin Exploring => current[t] = {} /\ rest[t] = {}
    /\ pc[t] \notin {"insert", "discover"} => target[t] = {}
    /\ pc[t] = "discover" => target[t] \subseteq discovered

\* Threads only stop when told to, and m_must_abort is reset at the end.
StoppedOnlyAtTheEnd ==
  /\ running /\ ~must_abort => \A t \in Thread : pc[t] # "stopped"
  /\ ~running => ~must_abort /\ \A t \in Thread : pc[t] = "stopped"

\* After m_must_abort is set, each thread gives up its place at most once.
ActiveSuffices == running /\ must_abort => Cardinality(Working) <= active

\* A state in the shared todo set will be seen by a thread that is active.
TodoWatched ==
  running /\ ~must_abort /\ todo # {} =>
    \E t \in Thread : pc[t] \notin {"decide", "waiting", "woken", "stopped"}

\* At the end all threads are on their way out and have nothing left.
Quiet ==
  (must_abort \/ ~running) /\ ~aborted =>
    /\ todo = {}
    /\ \A t \in Thread : /\ mine[t] = {} /\ current[t] = {} /\ target[t] = {}
                         /\ pc[t] \in {"take", "woken", "stopped"}

\* Every discovered state is somewhere, and every state somewhere is discovered.
Accounted ==
  /\ \A s \in discovered : s \in finished \/ s \in todo
       \/ \E t \in Thread : s \in mine[t] \/ s \in current[t] \/ s \in target[t]
  /\ \A s \in discovered : s \in reported \/ \E t \in Thread : s \in target[t]
  /\ reported \subseteq discovered /\ finished \subseteq discovered
  /\ todo \subseteq discovered
  /\ \A t \in Thread : mine[t] \subseteq discovered /\ current[t] \subseteq discovered
  /\ running \/ discovered # {} => Initial[stochastic] \subseteq discovered

\* The targets of a state have been handled when it is finished.
TargetsHandled ==
  /\ \A s \in finished : Targets[s] \subseteq discovered
  /\ \A t \in Thread : \A s \in current[t] :
       Targets[s] \subseteq discovered \cup rest[t] \cup target[t]

IInv ==
  /\ TypeOK /\ LocalAtPoint /\ StoppedOnlyAtTheEnd /\ ActiveCounts
  /\ ActiveSuffices /\ OwnWorkDone /\ TodoWatched /\ Quiet /\ Accounted
  /\ TargetsHandled

(***************************************************************************)
(* Without time and probabilities each reported state is in one place.     *)
(***************************************************************************)
OnePlace ==
  /\ finished \subseteq reported /\ todo \subseteq reported
  /\ todo \cap finished = {}
  /\ \A t \in Thread :
       /\ mine[t] \cup current[t] \subseteq reported
       /\ mine[t] \cap current[t] = {}
       /\ (mine[t] \cup current[t]) \cap (finished \cup todo) = {}
       /\ target[t] \subseteq discovered /\ target[t] \cap reported = {}
       /\ \A u \in Thread \ {t} :
            /\ target[t] \cap target[u] = {}
            /\ (mine[t] \cup current[t]) \cap (mine[u] \cup current[u]) = {}
=============================================================================
