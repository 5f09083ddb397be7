---------------------------- MODULE PthreadCond ----------------------------
(***************************************************************************)
(* One condition variable of libraries/pthreads-win32/pthread_cond_*.c     *)
(* over the semaphores of sem_*.c, and the mutex its callers hold.         *)
(*                                                                         *)
(* Two semaphores: the gate (semBlockLock, 1 when open), through which     *)
(* threads come in and which a signal closes until the threads it is meant *)
(* for have left, and the queue (semBlockQueue), on which they wait.  A    *)
(* semaphore is a count under its own lock and a kernel semaphore that     *)
(* wakes those for whom the count was not enough; each of the two is a     *)
(* step.                                                                   *)
(*                                                                         *)
(* Threads lock and unlock the mutex, wait with it, and signal or          *)
(* broadcast with or without it.  A waiter may give up, by timeout or      *)
(* cancelled, at the gate or in the queue; a thread that is cancelled      *)
(* unlocks the mutex and another takes its place.  Somebody destroys the   *)
(* variable when no thread is on its way in or in a signal.                *)
(***************************************************************************)
EXTENDS Integers, FiniteSets

CONSTANTS
  Threads,
  None,
  GoneLimit,     \* INT_MAX / 2
  MaxWaits,      \* bound on the waits
  MaxSignals,    \* bound on the signals, broadcasts and calls of destroy
  MaxQuits       \* bound on the waiters that give up or are cancelled

ASSUME CondAssumption ==
  /\ None \notin Threads
  /\ IsFiniteSet(Threads)
  /\ GoneLimit \in Nat \ {0}
  /\ MaxWaits \in Nat /\ MaxSignals \in Nat /\ MaxQuits \in Nat

VARIABLES
  value,         \* value[s]: s->value
  kernel,        \* kernel[s]: the count of s->sem
  blocked,       \* nWaitersBlocked
  toUnblock,     \* nWaitersToUnblock
  gone,          \* nWaitersGone
  unblockLock,   \* the holder of mtxUnblockLock where a step ends with it held
  mutex,         \* the holder of the mutex of the callers
  pc,            \* pc[t]: the next statement of t, "idle" outside of the calls
  everybody,     \* everybody[t]: unblockAll of the last signal of t
  issue,         \* issue[t]: nSignalsToIssue of t
  destroyed,
  waits, signals, quits

semVars == <<value, kernel>>
counters == <<blocked, toUnblock, gone>>
bounds == <<waits, signals, quits>>
vars == <<semVars, counters, unblockLock, mutex, pc, everybody, issue, destroyed, bounds>>

Sems == {"gate", "queue"}

Entering == {"gate", "gate_kernel", "gate_back", "count", "gate_post"}
Cleaning == {"gone_gate", "gone_kernel", "gone_adjust", "open", "relock"}
Signalling == {"unblock", "close", "close_kernel", "mark", "issue"}
Destroying == {"destroy", "destroy_kernel", "destroy_try"}

Init ==
  /\ value = [s \in Sems |-> IF s = "gate" THEN 1 ELSE 0]
  /\ kernel = [s \in Sems |-> 0]
  /\ blocked = 0
  /\ toUnblock = 0
  /\ gone = 0
  /\ unblockLock = None
  /\ mutex = None
  /\ pc = [t \in Threads |-> "idle"]
  /\ everybody = [t \in Threads |-> FALSE]
  /\ issue = [t \in Threads |-> 0]
  /\ destroyed = FALSE
  /\ waits = 0
  /\ signals = 0
  /\ quits = 0

GoTo(t, from, to) ==
  /\ pc[t] = from
  /\ pc' = [pc EXCEPT ![t] = to]

-----------------------------------------------------------------------------
(***************************************************************************)
(* The semaphores                                                          *)
(***************************************************************************)

\* sem_wait, sem_timedwait, ptw32_semwait: the count, then the kernel.
Down(t, s, from, got, sleep) ==
  /\ GoTo(t, from, IF value[s] > 0 THEN got ELSE sleep)
  /\ value' = [value EXCEPT ![s] = @ - 1]
  /\ UNCHANGED kernel

Take(t, s, from, got) ==
  /\ kernel[s] > 0
  /\ GoTo(t, from, got)
  /\ kernel' = [kernel EXCEPT ![s] = @ - 1]
  /\ UNCHANGED value

\* sem_post and sem_post_multiple release the kernel for those who wait there.
Released(s, n) ==
  CASE value[s] >= 0 -> 0
    [] value[s] < 0 /\ -value[s] <= n -> -value[s]
    [] OTHER -> n

Up(s, n) ==
  /\ value' = [value EXCEPT ![s] = @ + n]
  /\ kernel' = [kernel EXCEPT ![s] = @ + Released(s, n)]

-----------------------------------------------------------------------------
(***************************************************************************)
(* The program                                                             *)
(***************************************************************************)

Lock(t) ==
  /\ pc[t] = "idle" /\ mutex = None
  /\ mutex' = t
  /\ UNCHANGED <<semVars, counters, unblockLock, pc, everybody, issue, destroyed, bounds>>

Unlock(t) ==
  /\ pc[t] = "idle" /\ mutex = t
  /\ mutex' = None
  /\ UNCHANGED <<semVars, counters, unblockLock, pc, everybody, issue, destroyed, bounds>>

MayCall == ~destroyed /\ \A t \in Threads : pc[t] \notin Destroying

-----------------------------------------------------------------------------
(***************************************************************************)
(* pthread_cond_wait and pthread_cond_timedwait                            *)
(***************************************************************************)

Wait(t) ==
  /\ MayCall
  /\ waits < MaxWaits
  /\ mutex = t
  /\ GoTo(t, "idle", "gate")
  /\ waits' = waits + 1
  /\ UNCHANGED <<semVars, counters, unblockLock, mutex, everybody, issue, destroyed, signals, quits>>

\* What the steps of a call leave alone.
Fixed == UNCHANGED <<everybody, destroyed, waits, signals>>

EnterGate(t) ==
  /\ \/ Down(t, "gate", "gate", "count", "gate_kernel")
     \/ Take(t, "gate", "gate_kernel", "count")
  /\ UNCHANGED <<counters, unblockLock, mutex, issue, quits>> /\ Fixed

\* "Thread can be cancelled in sem_wait() but this is OK": at once, or asleep.
CancelAtGate(t) ==
  /\ quits < MaxQuits
  /\ GoTo(t, "gate", "idle") \/ GoTo(t, "gate_kernel", "gate_back")
  /\ quits' = quits + 1
  /\ UNCHANGED <<semVars, counters, unblockLock, mutex, issue>> /\ Fixed

\* ptw32_sem_wait_cleanup takes a post that came meanwhile, whoever it was for,
\* and the thread is gone all the same.  It takes a value of 0, the first word of
\* the semaphore, for a semaphore that has been destroyed.
GateBack(t) ==
  /\ GoTo(t, "gate_back", "idle")
  /\ \/ value["gate"] = 0 /\ UNCHANGED semVars
     \/ /\ value["gate"] # 0 /\ kernel["gate"] > 0
        /\ kernel' = [kernel EXCEPT !["gate"] = @ - 1]
        /\ UNCHANGED value
     \/ /\ value["gate"] # 0 /\ kernel["gate"] = 0
        /\ value' = [value EXCEPT !["gate"] = @ + 1]
        /\ UNCHANGED kernel
  /\ UNCHANGED <<counters, unblockLock, mutex, issue, quits>> /\ Fixed

Count(t) ==
  /\ GoTo(t, "count", "gate_post")
  /\ blocked' = blocked + 1
  /\ UNCHANGED <<semVars, toUnblock, gone, unblockLock, mutex, issue, quits>> /\ Fixed

LeaveGate(t) ==
  /\ GoTo(t, "gate_post", "unlock")
  /\ Up("gate", 1)
  /\ UNCHANGED <<counters, unblockLock, mutex, issue, quits>> /\ Fixed

UnlockMutex(t) ==
  /\ GoTo(t, "unlock", "queue")
  /\ mutex' = None
  /\ UNCHANGED <<semVars, counters, unblockLock, issue, quits>> /\ Fixed

Queue(t) ==
  /\ \/ Down(t, "queue", "queue", "cleanup", "queue_kernel")
     \/ Take(t, "queue", "queue_kernel", "cleanup")
  /\ UNCHANGED <<counters, unblockLock, mutex, issue, quits>> /\ Fixed

\* The time is over, or the thread is cancelled: before the queue too.
GiveUp(t) ==
  /\ quits < MaxQuits
  /\ GoTo(t, "queue", "cleanup") \/ GoTo(t, "queue_kernel", "queue_back")
  /\ quits' = quits + 1
  /\ UNCHANGED <<semVars, counters, unblockLock, mutex, issue>> /\ Fixed

\* ptw32_sem_timedwait_cleanup: takes a wakeup that came meanwhile.
QueueBack(t) ==
  /\ IF kernel["queue"] > 0
     THEN Take(t, "queue", "queue_back", "cleanup")
     ELSE /\ GoTo(t, "queue_back", "cleanup")
          /\ value' = [value EXCEPT !["queue"] = @ + 1]
          /\ UNCHANGED kernel
  /\ UNCHANGED <<counters, unblockLock, mutex, issue, quits>> /\ Fixed

\* nSignalsWasLeft of the thread that opens the gate.
LastSignal(n) == n = 1

\* ptw32_cond_wait_cleanup, up to the unlock of mtxUnblockLock: woken or not,
\* a thread takes a signal if one is left.
Cleanup(t) ==
  /\ unblockLock = None
  /\ IF toUnblock # 0
     THEN /\ GoTo(t, "cleanup", IF LastSignal(toUnblock) THEN "open" ELSE "relock")
          /\ toUnblock' = toUnblock - 1
          /\ UNCHANGED <<gone, unblockLock>>
     ELSE /\ gone' = gone + 1
          /\ UNCHANGED toUnblock
          /\ IF gone + 1 = GoneLimit
             THEN GoTo(t, "cleanup", "gone_gate") /\ unblockLock' = t
             ELSE GoTo(t, "cleanup", "relock") /\ UNCHANGED unblockLock
  /\ UNCHANGED <<semVars, blocked, mutex, issue, quits>> /\ Fixed

\* The count of those gone is at its limit.
GoneGate(t) ==
  /\ \/ Down(t, "gate", "gone_gate", "gone_adjust", "gone_kernel")
     \/ Take(t, "gate", "gone_kernel", "gone_adjust")
  /\ UNCHANGED <<counters, unblockLock, mutex, issue, quits>> /\ Fixed

GoneAdjust(t) ==
  /\ GoTo(t, "gone_adjust", "relock")
  /\ blocked' = blocked - gone
  /\ Up("gate", 1)
  /\ gone' = 0
  /\ unblockLock' = None
  /\ UNCHANGED <<toUnblock, mutex, issue, quits>> /\ Fixed

\* Opens the gate when it has the mutex again.
OpenGateLate(t) ==
  /\ mutex = None
  /\ GoTo(t, "open", "idle")
  /\ mutex' = t
  /\ Up("gate", 1)
  /\ UNCHANGED <<counters, unblockLock, issue, quits>> /\ Fixed

OpenGate(t) ==
  /\ GoTo(t, "open", "relock")
  /\ Up("gate", 1)
  /\ UNCHANGED <<counters, unblockLock, mutex, issue, quits>> /\ Fixed

Relock(t) ==
  /\ mutex = None
  /\ GoTo(t, "relock", "idle")
  /\ mutex' = t
  /\ UNCHANGED <<semVars, counters, unblockLock, issue, quits>> /\ Fixed

-----------------------------------------------------------------------------
(***************************************************************************)
(* pthread_cond_signal and pthread_cond_broadcast: ptw32_cond_unblock      *)
(***************************************************************************)

Signal(t, all) ==
  /\ MayCall
  /\ signals < MaxSignals
  /\ GoTo(t, "idle", "unblock")
  /\ everybody' = [everybody EXCEPT ![t] = all]
  /\ signals' = signals + 1
  /\ UNCHANGED <<semVars, counters, unblockLock, mutex, issue, destroyed, waits, quits>>

\* The gate is closed: the new signals join those on their way.
UnblockMore(t) ==
  /\ unblockLock = None
  /\ toUnblock # 0
  /\ LET n == IF everybody[t] THEN blocked ELSE 1
     IN IF blocked = 0
        THEN GoTo(t, "unblock", "idle") /\ UNCHANGED <<blocked, toUnblock, issue>>
        ELSE /\ GoTo(t, "unblock", "issue")
             /\ toUnblock' = toUnblock + n
             /\ blocked' = blocked - n
             /\ issue' = [issue EXCEPT ![t] = n]
  /\ UNCHANGED <<semVars, gone, unblockLock, mutex, quits>> /\ Fixed

SomebodyWaits == blocked > gone

\* Goes to close the gate, with mtxUnblockLock.
UnblockFirst(t) ==
  /\ unblockLock = None
  /\ toUnblock = 0
  /\ IF SomebodyWaits
     THEN GoTo(t, "unblock", "close") /\ unblockLock' = t
     ELSE GoTo(t, "unblock", "idle") /\ UNCHANGED unblockLock
  /\ UNCHANGED <<semVars, counters, mutex, issue, quits>> /\ Fixed

CloseGate(t) ==
  /\ \/ Down(t, "gate", "close", "mark", "close_kernel")
     \/ Take(t, "gate", "close_kernel", "mark")
  /\ UNCHANGED <<counters, unblockLock, mutex, issue, quits>> /\ Fixed

WithTheGone == blocked

StillHere == blocked - gone

Mark(t) ==
  LET n == IF everybody[t] THEN StillHere ELSE 1
  IN /\ GoTo(t, "mark", "issue")
     /\ toUnblock' = n
     /\ blocked' = StillHere - n
     /\ gone' = 0
     /\ issue' = [issue EXCEPT ![t] = n]
     /\ unblockLock' = None
     /\ UNCHANGED <<semVars, mutex, quits>> /\ Fixed

IssueOne(t) ==
  /\ GoTo(t, "issue", "idle")
  /\ Up("queue", 1)
  /\ issue' = [issue EXCEPT ![t] = 0]
  /\ UNCHANGED <<counters, unblockLock, mutex, quits>> /\ Fixed

Issue(t) ==
  /\ GoTo(t, "issue", "idle")
  /\ Up("queue", issue[t])
  /\ issue' = [issue EXCEPT ![t] = 0]
  /\ UNCHANGED <<counters, unblockLock, mutex, quits>> /\ Fixed

-----------------------------------------------------------------------------
(***************************************************************************)
(* pthread_cond_destroy                                                    *)
(***************************************************************************)

Destroy(t) ==
  /\ MayCall
  /\ \A u \in Threads : pc[u] \notin Entering \cup Signalling
  /\ signals < MaxSignals
  /\ GoTo(t, "idle", "destroy")
  /\ signals' = signals + 1
  /\ UNCHANGED <<semVars, counters, unblockLock, mutex, everybody, issue, destroyed, waits, quits>>

\* Does not wait at the gate.
DestroyAtOnce(t) ==
  /\ GoTo(t, "destroy", "destroy_try")
  /\ UNCHANGED <<semVars, counters, unblockLock, mutex, issue, quits>> /\ Fixed

DestroyGate(t) ==
  /\ \/ Down(t, "gate", "destroy", "destroy_try", "destroy_kernel")
     \/ Take(t, "gate", "destroy_kernel", "destroy_try")
  /\ UNCHANGED <<counters, unblockLock, mutex, issue, quits>> /\ Fixed

\* The trylock of mtxUnblockLock and the test; otherwise EBUSY.
DestroyTry(t) ==
  /\ GoTo(t, "destroy_try", "idle")
  /\ IF unblockLock # None \/ SomebodyWaits
     THEN Up("gate", 1) /\ UNCHANGED destroyed
     ELSE destroyed' = TRUE /\ UNCHANGED semVars
  /\ UNCHANGED <<counters, unblockLock, mutex, everybody, issue, bounds>>

-----------------------------------------------------------------------------

\* Every step of a call that is under way, but for giving up.
Step(t) ==
  \/ EnterGate(t) \/ GateBack(t) \/ Count(t) \/ LeaveGate(t) \/ UnlockMutex(t) \/ Queue(t) \/ QueueBack(t)
  \/ Cleanup(t) \/ GoneGate(t) \/ GoneAdjust(t) \/ OpenGate(t) \/ Relock(t)
  \/ UnblockMore(t) \/ UnblockFirst(t) \/ CloseGate(t) \/ Mark(t) \/ Issue(t)
  \/ DestroyGate(t) \/ DestroyTry(t)

Next ==
  \E t \in Threads :
    \/ Lock(t) \/ Unlock(t) \/ Wait(t) \/ CancelAtGate(t) \/ GiveUp(t) \/ Destroy(t) \/ Step(t)
    \/ \E all \in BOOLEAN : Signal(t, all)

Spec == Init /\ [][Next]_vars

\* Threads are scheduled.  The mutex passes to each of those that want it, and
\* the program unlocks it; it need not wait, signal, give up or destroy.
Fairness ==
  \A t \in Threads : WF_vars(Step(t)) /\ WF_vars(Unlock(t)) /\ SF_vars(Relock(t))

FairSpec == Spec /\ Fairness

-----------------------------------------------------------------------------
(***************************************************************************)
(* Properties                                                              *)
(***************************************************************************)

At(pcs) == {t \in Threads : pc[t] \in pcs}

\* Threads that the counters have to account for.
Counted == At({"gate_post", "unlock", "queue", "queue_kernel", "queue_back", "cleanup"})

Sleeping(s) ==
  IF s = "gate" THEN At({"gate_kernel", "gate_back", "gone_kernel", "close_kernel", "destroy_kernel"})
  ELSE At({"queue_kernel", "queue_back"})

\* The gate is closed and nobody is left to open it: a thread that was cancelled
\* has taken the post with it.
GateLost ==
  /\ value["gate"] <= 0 /\ kernel["gate"] = 0
  /\ At({"count", "gate_post", "gone_adjust", "open", "mark", "destroy_try"}) = {}
  /\ toUnblock = 0 /\ ~destroyed

\* Signals that are on their way to the queue; several threads may have some.
Pending == Cardinality(UNION {{t} \X (1 .. issue[t]) : t \in Threads})

TypeOK ==
  /\ value \in [Sems -> Int]
  /\ kernel \in [Sems -> Nat]
  /\ blocked \in Nat /\ toUnblock \in Nat /\ gone \in Nat
  /\ unblockLock \in Threads \cup {None}
  /\ mutex \in Threads \cup {None}
  /\ pc \in [Threads -> {"idle", "unlock", "queue", "queue_kernel", "queue_back", "cleanup"}
                         \cup Entering \cup Cleaning \cup Signalling \cup Destroying]
  /\ everybody \in [Threads -> BOOLEAN]
  /\ issue \in [Threads -> Nat]
  /\ destroyed \in BOOLEAN
  /\ waits \in Nat /\ signals \in Nat /\ quits \in Nat

\* The types, and: every thread that came in and has not left is either waiting without a
\* signal or has one: the three counters lose nobody.  A semaphore sends to
\* sleep those its count has no place for, and has one wakeup for each of the
\* others who sleep.  Only where somebody has given up may there be a wakeup more
\* at the gate than sleepers, or may the gate be lost.
WaitersAccounted ==
  /\ TypeOK
  /\ Cardinality(Counted) = blocked - gone + toUnblock
  /\ \A s \in Sems :
       LET waiting == Cardinality(Sleeping(s)) - kernel[s]
           due == IF value[s] < 0 THEN -value[s] ELSE 0
       IN  \/ waiting = due
           \/ s = "gate" /\ quits > 0 /\ waiting = due - 1
  /\ GateLost => quits > 0

\* Every signal has its wakeup: to be issued, in the queue, or taken by a thread
\* that is about to leave.  Unless a waiter gave up, there are no others, and no
\* thread is woken that was not signalled: while a signal is on its way to those
\* who waited, the gate is closed and nobody comes in.
SignalsAreWakeups ==
  LET wakeups == Pending + kernel["queue"]
                   + (IF value["queue"] > 0 THEN value["queue"] ELSE 0)
                   + Cardinality(At({"cleanup"}))
  IN  /\ toUnblock <= wakeups
      /\ quits = 0 => toUnblock = wakeups
      /\ toUnblock > 0 => At({"count", "gate_post"}) = {}

\* "can be destroyed immediately after all the threads that are blocked on it
\* are awakened": none of them touches it afterwards.
DestroyedIsQuiet == destroyed => \A t \in Threads : pc[t] \in {"idle", "relock"}

\* In the end whoever was signalled has left, with the mutex, and nobody is
\* stuck at the gate, in a signal, or between the locks, unless a thread that was
\* cancelled at the gate has taken the post for another with it (sem_wait.c:63).
EveryoneSignalledLeaves ==
  <>[](\/ GateLost
       \/ /\ toUnblock = 0
          /\ \A t \in Threads : pc[t] \in {"idle", "queue_kernel"})
=============================================================================
