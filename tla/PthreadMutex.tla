---------------------------- MODULE PthreadMutex ----------------------------
(***************************************************************************)
(* One mutex of libraries/pthreads-win32/pthread_mutex_*.c: normal, error  *)
(* checking or recursive, robust or not, initialised statically or not.    *)
(*                                                                         *)
(* lock_idx is 0 (free), 1 (locked) or -1 (locked, with possible waiters); *)
(* waiters sleep on an event that resets itself when it wakes one.  Each   *)
(* interlocked instruction, wait and SetEvent is a step.  owner and count  *)
(* are written by the thread that has the lock and only compared by others *)
(* with themselves, so they change with the step before or after.          *)
(*                                                                         *)
(* The program calls lock, timedlock and trylock, a bounded number of      *)
(* times, unlocks what it holds, and does not lock a normal mutex that it  *)
(* holds.  A holder of a robust mutex may die.  Calls that answer EPERM or *)
(* EINVAL change nothing and are left out.                                 *)
(***************************************************************************)
EXTENDS Integers

CONSTANTS
  Threads,
  None,
  MaxCalls,      \* bound on the calls that lock
  MaxDepth,      \* bound on the locks of one thread on a recursive mutex
  MaxDeaths      \* bound on the threads that die

ASSUME MutexAssumption ==
  /\ None \notin Threads
  /\ MaxCalls \in Nat /\ MaxDepth \in Nat /\ MaxDeaths \in Nat

VARIABLES
  kind, robust,  \* mx->kind
  made,          \* *mutex is not one of the static initialisers
  lock_idx,
  event,         \* mx->event is signalled
  owner,         \* mx->ownerThread
  count,         \* mx->recursive_count
  state,         \* mx->robustNode->stateInconsistent; "dead" is the -1 of a dead owner
  pc,            \* pc[t]: the next statement of t, "idle" outside of the calls
  op,            \* op[t]: the last call of t
  held,          \* history: held[t]: locks that t was given and has not undone
  told,          \* history: told[t]: t was given the lock with EOWNERDEAD
  dirty,         \* history: a holder died, and nobody has called consistent since
  calls, deaths

mutexVars == <<lock_idx, event, owner, count, state>>
historyVars == <<held, told, dirty>>
vars == <<kind, robust, made, mutexVars, pc, op, historyVars, calls, deaths>>

Kinds == {"normal", "errorcheck", "recursive"}
Ops == {"none", "lock", "timedlock", "trylock"}

Locking == {"need_init", "check", "first", "slow", "exchange", "wait", "woken", "after",
            "after_lost", "recall", "try_inherit"}
Unlocking == {"mark", "leave", "set_event"}

Init ==
  /\ kind \in Kinds
  /\ robust \in BOOLEAN
  /\ made \in IF robust THEN {TRUE} ELSE BOOLEAN
  /\ lock_idx = 0
  /\ event = FALSE
  /\ owner = None
  /\ count = 0
  /\ state = "consistent"
  /\ pc = [t \in Threads |-> "idle"]
  /\ op = [t \in Threads |-> "none"]
  /\ held = [t \in Threads |-> 0]
  /\ told = [t \in Threads |-> FALSE]
  /\ dirty = FALSE
  /\ calls = 0
  /\ deaths = 0

GoTo(t, from, to) ==
  /\ pc[t] = from
  /\ pc' = [pc EXCEPT ![t] = to]

\* What the steps of a call leave alone.
Fixed == UNCHANGED <<kind, robust, made, op, calls, deaths>>

\* timedlock of a robust mutex that has an owner looks at its state after the
\* loop, every other lock of a robust mutex inside.
LooksAfter(t) == robust /\ op[t] = "timedlock" /\ kind # "normal"

-----------------------------------------------------------------------------
(***************************************************************************)
(* pthread_mutex_lock, _timedlock, _trylock                                *)
(***************************************************************************)

Call(t, call) ==
  /\ calls < MaxCalls
  /\ held[t] < MaxDepth /\ (kind = "normal" => held[t] = 0)
  /\ GoTo(t, "idle", CASE ~made -> "need_init" [] robust -> "check" [] OTHER -> "first")
  /\ op' = [op EXCEPT ![t] = call]
  /\ calls' = calls + 1
  /\ UNCHANGED <<kind, robust, made, mutexVars, historyVars, deaths>>

AlwaysStatic == TRUE

\* Tested again with the lock of the initialisers held.
StillStatic == ~made

\* ptw32_mutex_check_need_init, under that lock.
NeedInit(t) ==
  /\ GoTo(t, "need_init", "first")
  /\ made' = TRUE
  /\ IF StillStatic
     THEN /\ lock_idx' = 0
          /\ event' = FALSE
          /\ owner' = None
          /\ count' = 0
     ELSE UNCHANGED <<lock_idx, event, owner, count>>
  /\ UNCHANGED state
  /\ UNCHANGED <<kind, robust, op, historyVars, calls, deaths>>

Check(t) ==
  /\ GoTo(t, "check", IF state = "notrecoverable" THEN "idle" ELSE "first")
  /\ UNCHANGED <<mutexVars, historyVars>>
  /\ Fixed

\* t is given the lock.  A mutex that is normal and not robust has no owner.
Give(t, owned) ==
  /\ owner' = IF owned THEN t ELSE owner
  /\ count' = IF kind = "normal" THEN count ELSE 1
  /\ held' = [held EXCEPT ![t] = 1]
  /\ UNCHANGED dirty

\* A normal mutex is exchanged with 1.  timedlock forgets the owner here.
FirstExchange(t) ==
  /\ kind = "normal" /\ op[t] # "trylock"
  /\ lock_idx' = 1
  /\ told' = [told EXCEPT ![t] = FALSE]
  /\ IF lock_idx = 0
     THEN /\ GoTo(t, "first", "idle")
          /\ Give(t, robust /\ op[t] = "lock")
     ELSE /\ GoTo(t, "first", "slow")
          /\ UNCHANGED <<owner, count, held, dirty>>
  /\ UNCHANGED <<event, state>>
  /\ Fixed

\* Other kinds, and trylock, compare with 0 first.
FirstCompare(t) ==
  /\ kind # "normal" \/ op[t] = "trylock"
  /\ lock_idx = 0
  /\ GoTo(t, "first", "idle")
  /\ lock_idx' = 1
  /\ told' = [told EXCEPT ![t] = FALSE]
  /\ Give(t, robust \/ kind # "normal")
  /\ UNCHANGED <<event, state>>
  /\ Fixed

\* The owner of a recursive mutex counts.
LockAgain(t) ==
  /\ kind = "recursive" /\ owner = t
  /\ lock_idx # 0
  /\ GoTo(t, "first", "idle")
  /\ count' = count + 1
  /\ held' = [held EXCEPT ![t] = @ + 1]
  /\ UNCHANGED <<lock_idx, event, owner, state, told, dirty>>
  /\ Fixed

\* Otherwise the owner has EDEADLK, and a trylock EBUSY if nothing is inherited.
FirstFails(t) ==
  /\ kind # "normal" \/ op[t] = "trylock"
  /\ ~(kind = "recursive" /\ owner = t)
  /\ lock_idx # 0
  /\ GoTo(t, "first", CASE op[t] = "trylock" -> IF robust THEN "try_inherit" ELSE "idle"
                        [] op[t] # "trylock" /\ owner = t -> "idle"
                        [] OTHER -> "slow")
  /\ told' = [told EXCEPT ![t] = IF owner = t THEN @ ELSE FALSE]
  /\ UNCHANGED <<mutexVars, held, dirty>>
  /\ Fixed

\* ptw32_robust_mutex_inherit, the head of the loop for a robust mutex: the
\* first who comes after the death of the owner has the lock.
Inherit(t) ==
  /\ robust
  /\ pc[t] \in {"slow", "try_inherit"}
  /\ state = "dead"
  /\ state' = "inconsistent"
  /\ told' = [told EXCEPT ![t] = TRUE]
  /\ IF LooksAfter(t)
     THEN /\ pc' = [pc EXCEPT ![t] = "after"]
          /\ UNCHANGED <<owner, count, held, dirty>>
     ELSE /\ pc' = [pc EXCEPT ![t] = "idle"]
          /\ Give(t, TRUE)
  /\ UNCHANGED <<lock_idx, event>>
  /\ Fixed

InheritNothing(t) ==
  /\ robust
  /\ pc[t] \in {"slow", "try_inherit"}
  /\ state # "dead"
  /\ pc' = [pc EXCEPT ![t] =
       CASE state # "notrecoverable" /\ pc[t] = "slow" -> "exchange"
         [] state = "notrecoverable" /\ LooksAfter(t) -> "after_lost"
         [] OTHER -> "idle"]
  /\ UNCHANGED <<mutexVars, historyVars>>
  /\ Fixed

MarkedAsLocked == 1

\* Who is going to wait says so, and so does one who waited.
MarkedAsWaiting == -1

\* The exchange in a loop with the wait.
Exchange(t) ==
  /\ pc[t] = IF robust THEN "exchange" ELSE "slow"
  /\ lock_idx' = MarkedAsWaiting
  /\ IF lock_idx # 0
     THEN /\ pc' = [pc EXCEPT ![t] = "wait"]
          /\ UNCHANGED <<owner, count, held, dirty>>
     ELSE IF LooksAfter(t)
     THEN /\ pc' = [pc EXCEPT ![t] = "after"]
          /\ UNCHANGED <<owner, count, held, dirty>>
     ELSE /\ pc' = [pc EXCEPT ![t] = "idle"]
          /\ Give(t, robust \/ kind # "normal")
  /\ UNCHANGED <<event, state, told>>
  /\ Fixed

Wait(t) ==
  /\ event
  /\ event' = FALSE
  /\ GoTo(t, "wait", IF robust /\ ~LooksAfter(t) THEN "woken" ELSE "slow")
  /\ UNCHANGED <<lock_idx, owner, count, state, historyVars>>
  /\ Fixed

\* ptw32_timed_eventwait answers ETIMEDOUT.
Timeout(t) ==
  /\ op[t] = "timedlock"
  /\ GoTo(t, "wait", "idle")
  /\ UNCHANGED <<mutexVars, historyVars>>
  /\ Fixed

Woken(t) ==
  /\ GoTo(t, "woken", IF state = "notrecoverable" THEN "recall" ELSE "slow")
  /\ UNCHANGED <<mutexVars, historyVars>>
  /\ Fixed

\* After the loop of LooksAfter: too late, or the lock is given.
After(t) ==
  /\ IF state = "notrecoverable"
     THEN /\ GoTo(t, "after", "recall")
          /\ UNCHANGED <<owner, count, held, dirty>>
     ELSE /\ GoTo(t, "after", "idle")
          /\ Give(t, TRUE)
  /\ UNCHANGED <<lock_idx, event, state, told>>
  /\ Fixed

\* The same with the answer ENOTRECOVERABLE.
AfterLost(t) ==
  /\ GoTo(t, "after_lost", IF state = "notrecoverable" THEN "recall" ELSE "idle")
  /\ UNCHANGED <<mutexVars, historyVars>>
  /\ Fixed

\* Wakes the next waiter to see that the mutex is not recoverable.
Recall(t) ==
  /\ GoTo(t, "recall", "idle")
  /\ event' = TRUE
  /\ UNCHANGED <<lock_idx, owner, count, state, historyVars>>
  /\ Fixed

-----------------------------------------------------------------------------
(***************************************************************************)
(* pthread_mutex_unlock, pthread_mutex_consistent, and death               *)
(***************************************************************************)

\* Anybody may unlock a mutex that is normal and not robust; the program lets
\* only holders.  The count of a robust mutex goes down with the next step.
Unlock(t) ==
  /\ held[t] > 0
  /\ robust \/ kind # "normal" => owner = t
  /\ IF ~robust /\ kind = "recursive" /\ count > 1
     THEN /\ GoTo(t, "idle", "idle")
          /\ count' = count - 1
          /\ held' = [held EXCEPT ![t] = @ - 1]
     ELSE /\ GoTo(t, "idle", IF robust THEN "mark" ELSE "leave")
          /\ UNCHANGED <<count, held>>
  /\ UNCHANGED <<lock_idx, event, owner, state, told, dirty>>
  /\ Fixed

LostNever(s) == s

\* A robust mutex that was inherited and not repaired is lost.
Lost(s) == IF s = "inconsistent" THEN "notrecoverable" ELSE s

Mark(t) ==
  /\ state' = Lost(state)
  /\ IF kind = "recursive" /\ count > 1
     THEN /\ GoTo(t, "mark", "idle")
          /\ count' = count - 1
          /\ held' = [held EXCEPT ![t] = @ - 1]
     ELSE /\ GoTo(t, "mark", "leave")
          /\ UNCHANGED <<count, held>>
  /\ UNCHANGED <<lock_idx, event, owner, told, dirty>>
  /\ Fixed

Leave(t) ==
  /\ GoTo(t, "leave", IF lock_idx < 0 THEN "set_event" ELSE "idle")
  /\ lock_idx' = 0
  /\ owner' = None
  /\ count' = IF kind = "recursive" THEN 0 ELSE count
  /\ held' = [held EXCEPT ![t] = 0]
  /\ UNCHANGED <<event, state, told, dirty>>
  /\ Fixed

SetEvent(t) ==
  /\ GoTo(t, "set_event", "idle")
  /\ event' = TRUE
  /\ UNCHANGED <<lock_idx, owner, count, state, historyVars>>
  /\ Fixed

\* The program has repaired the data that the mutex protects.
Consistent(t) ==
  /\ robust
  /\ pc[t] = "idle" /\ held[t] > 0
  /\ state = "inconsistent"
  /\ state' = "consistent"
  /\ dirty' = FALSE
  /\ UNCHANGED <<lock_idx, event, owner, count, pc, held, told>>
  /\ Fixed

\* pthread_win32_thread_detach_np of a thread that owns a robust mutex.
Die(t) ==
  /\ robust
  /\ deaths < MaxDeaths
  /\ held[t] > 0 /\ owner = t
  /\ GoTo(t, "idle", "die_event")
  /\ state' = "dead"
  /\ held' = [held EXCEPT ![t] = 0]
  /\ dirty' = TRUE
  /\ deaths' = deaths + 1
  /\ UNCHANGED <<kind, robust, made, lock_idx, event, owner, count, op, told, calls>>

DieEvent(t) ==
  /\ GoTo(t, "die_event", "dead")
  /\ event' = TRUE
  /\ UNCHANGED <<lock_idx, owner, count, state, historyVars>>
  /\ Fixed

-----------------------------------------------------------------------------

LockStep(t) ==
  \/ NeedInit(t) \/ Check(t) \/ FirstExchange(t) \/ FirstCompare(t) \/ LockAgain(t)
  \/ FirstFails(t) \/ Inherit(t) \/ InheritNothing(t) \/ Exchange(t) \/ Wait(t)
  \/ Timeout(t) \/ Woken(t) \/ After(t) \/ AfterLost(t) \/ Recall(t)

Step(t) ==
  LockStep(t) \/ Unlock(t) \/ Mark(t) \/ Leave(t) \/ SetEvent(t) \/ DieEvent(t)

Next ==
  \E t \in Threads :
    \/ \E call \in Ops \ {"none"} : Call(t, call)
    \/ Step(t) \/ Consistent(t) \/ Die(t)

Spec == Init /\ [][Next]_vars

\* Threads are scheduled, and holders unlock; nothing else is promised.
Fairness == \A t \in Threads : WF_vars(Step(t))

FairSpec == Spec /\ Fairness

-----------------------------------------------------------------------------
(***************************************************************************)
(* Properties                                                              *)
(***************************************************************************)

TypeOK ==
  /\ kind \in Kinds
  /\ robust \in BOOLEAN
  /\ made \in BOOLEAN
  /\ lock_idx \in {-1, 0, 1}
  /\ event \in BOOLEAN
  /\ owner \in Threads \cup {None}
  /\ count \in Nat
  /\ state \in {"consistent", "inconsistent", "notrecoverable", "dead"}
  /\ pc \in [Threads -> Locking \cup Unlocking \cup {"idle", "die_event", "dead"}]
  /\ op \in [Threads -> Ops]
  /\ held \in [Threads -> Nat]
  /\ told \in [Threads -> BOOLEAN]
  /\ dirty \in BOOLEAN
  /\ calls \in Nat
  /\ deaths \in Nat

\* The mutex has one holder at a time, whatever its kind, however it was locked
\* and whoever died.
MutualExclusion ==
  \A t, u \in Threads : held[t] > 0 /\ held[u] > 0 => t = u

\* A recursive mutex counts the locks that its owner has to undo.
CountsTheLocks ==
  kind = "recursive" => \A t \in Threads : held[t] > 0 => owner = t /\ count = held[t]

\* A lock that is not the answer EOWNERDEAD protects data that nobody left in
\* the middle of a change, unless the mutex was lost while the call ran.
UnwarnedIsClean ==
  \A t \in Threads : held[t] > 0 /\ ~told[t] => ~dirty \/ state = "notrecoverable"

\* timedlock has lost the owner of a robust normal mutex: unlock answers EPERM.
Ownerless == robust /\ \E t \in Threads : held[t] > 0 /\ owner # t

\* No wakeup is lost: while all owners live, nobody is left asleep by a mutex
\* that others unlock.
EveryCallReturns ==
  <>[](deaths > 0 \/ Ownerless \/ \A t \in Threads : pc[t] \notin Locking)
=============================================================================
