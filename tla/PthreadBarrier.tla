--------------------------- MODULE PthreadBarrier ---------------------------
(***************************************************************************)
(* pthread_once and barriers, libraries/pthreads-win32/pthread_once.c and  *)
(* pthread_barrier_*.c, over the queue locks of MCSLock.                   *)
(*                                                                         *)
(* Threads initialise a barrier through pthread_once and then meet at it,  *)
(* any Count of them at a time, MaxArrivals times in all.  A thread may be *)
(* cancelled inside the initialisation.  Once nobody is going to call      *)
(* again, somebody destroys the barrier.                                   *)
(***************************************************************************)
EXTENDS MCSLock, FiniteSets

CONSTANTS
  Count,         \* the height of the barrier
  MaxArrivals,   \* bound on the calls of pthread_barrier_wait
  OnceLock,      \* once_control->lock
  BarrierLock,   \* b->lock
  Proxy          \* b->proxynode

ASSUME BarrierAssumption ==
  /\ IsFiniteSet(Threads)
  /\ Count \in Nat \ {0, 1}
  /\ MaxArrivals \in Nat
  /\ Locks = {OnceLock, BarrierLock} /\ OnceLock # BarrierLock
  /\ Proxies = {Proxy} /\ Proxy \notin Threads

VARIABLES
  pc,              \* pc[t]: the next statement of t in pthread_once or pthread_barrier_wait
  done,            \* once_control->done
  height,          \* b->nCurrentBarrierHeight
  sem,             \* the value of b->semBarrierBreeched
  destroyed,
  inits,           \* history: complete runs of the init routine
  arrivals,        \* history: calls that have passed the lock of the barrier
  generation,      \* history: generation[t]: the meeting t has arrived for
  serials          \* history: calls that have returned PTHREAD_BARRIER_SERIAL_THREAD

onceVars == <<done, inits>>
barrierVars == <<height, sem, destroyed, arrivals, generation, serials>>
vars == <<mcsVars, pc, onceVars, barrierVars>>

Init ==
  /\ MCSInit
  /\ pc = [t \in Threads |-> "once"]
  /\ done = FALSE
  /\ height = 0
  /\ sem = 0
  /\ destroyed = FALSE
  /\ inits = 0
  /\ arrivals = 0
  /\ generation = [t \in Threads |-> 0]
  /\ serials = 0

GoTo(t, from, to) ==
  /\ pc[t] = from
  /\ pc' = [pc EXCEPT ![t] = to]

Holding(t, from, to) == mcs[t] = "held" /\ GoTo(t, from, to)

\* The steps of a release of node n, the last of which leads to pc to.
Releasing(t, n, from, to) ==
  /\ pc[t] = from
  /\ \/ /\ ReleaseFree(t, n) \/ ReleasePasses(t, n)
        /\ pc' = [pc EXCEPT ![t] = to]
     \/ ReleaseWaits(n) /\ UNCHANGED pc
     \/ ReleaseCrashes(n) /\ pc' = [pc EXCEPT ![t] = "crashed"]

-----------------------------------------------------------------------------
(***************************************************************************)
(* pthread_once                                                            *)
(***************************************************************************)

OnceDone(t) ==
  /\ done
  /\ GoTo(t, "once", "ready")
  /\ UNCHANGED <<mcsVars, onceVars, barrierVars>>

OnceAcquire(t) ==
  /\ ~done
  /\ GoTo(t, "once", "once_test")
  /\ LockAcquire(t, OnceLock)
  /\ UNCHANGED <<onceVars, barrierVars>>

\* Initialises without testing again.
OnceTestsNothing(t) ==
  /\ Holding(t, "once_test", "once_init")
  /\ UNCHANGED <<mcsVars, onceVars, barrierVars>>

\* Tests done again with the lock held.
OnceTest(t) ==
  /\ Holding(t, "once_test", IF done THEN "once_release" ELSE "once_init")
  /\ UNCHANGED <<mcsVars, onceVars, barrierVars>>

\* The init routine: pthread_barrier_init.
OnceInit(t) ==
  /\ Holding(t, "once_init", "once_done")
  /\ height' = Count
  /\ sem' = 0
  /\ inits' = inits + 1
  /\ UNCHANGED <<mcsVars, done, destroyed, arrivals, generation, serials>>

\* The thread is cancelled in the init routine; the clean-up handler releases.
\* One thread at most, so that the others can still meet.
OnceCancelled(t) ==
  /\ \A u \in Threads : pc[u] \notin {"cancel", "cancel_return", "cancelled"}
  /\ Holding(t, "once_init", "cancel")
  /\ UNCHANGED <<mcsVars, onceVars, barrierVars>>

CancelRelease(t) ==
  /\ Releasing(t, t, "cancel", "cancel_return")
  /\ UNCHANGED <<onceVars, barrierVars>>

CancelReturn(t) ==
  /\ GoTo(t, "cancel_return", "cancelled")
  /\ Leave(t)
  /\ UNCHANGED <<onceVars, barrierVars>>

OnceSetDone(t) ==
  /\ Holding(t, "once_done", "once_release")
  /\ done' = TRUE
  /\ UNCHANGED <<mcsVars, inits, barrierVars>>

OnceRelease(t) ==
  /\ Releasing(t, t, "once_release", "once_return")
  /\ UNCHANGED <<onceVars, barrierVars>>

OnceReturn(t) ==
  /\ GoTo(t, "once_return", "ready")
  /\ Leave(t)
  /\ UNCHANGED <<onceVars, barrierVars>>

Once(t) ==
  \/ OnceDone(t) \/ OnceAcquire(t) \/ OnceTest(t) \/ OnceInit(t) \/ OnceSetDone(t)
  \/ OnceRelease(t) \/ OnceReturn(t)
  \/ CancelRelease(t) \/ CancelReturn(t)

-----------------------------------------------------------------------------
(***************************************************************************)
(* pthread_barrier_wait                                                    *)
(***************************************************************************)

\* Callers inside, whether they have passed the lock or not.
Inside == {t \in Threads : pc[t] \in {"arrive", "transfer", "post", "release", "wait",
                                      "count", "release_proxy", "return"}}

BarrierAcquire(t) ==
  /\ arrivals + Cardinality({u \in Threads : pc[u] = "arrive"}) < MaxArrivals
  /\ ~destroyed
  /\ GoTo(t, "ready", "arrive")
  /\ LockAcquire(t, BarrierLock)
  /\ UNCHANGED <<onceVars, barrierVars>>

\* --b->nCurrentBarrierHeight
Arrive(t) ==
  /\ Holding(t, "arrive", IF height = 1 THEN "transfer" ELSE "release")
  /\ height' = height - 1
  /\ arrivals' = arrivals + 1
  /\ generation' = [generation EXCEPT ![t] = arrivals \div Count + 1]
  /\ UNCHANGED <<mcsVars, onceVars, sem, destroyed, serials>>

\* The last to arrive hands the lock to the proxy node, and posts.
Transfer(t) ==
  /\ GoTo(t, "transfer", "post")
  /\ NodeTransfer(t, Proxy)
  /\ UNCHANGED <<onceVars, barrierVars>>

Post(t) ==
  /\ GoTo(t, "post", "count")
  /\ sem' = sem + Count - 1
  /\ UNCHANGED <<mcsVars, onceVars, height, destroyed, arrivals, generation, serials>>

BarrierRelease(t) ==
  /\ Releasing(t, t, "release", "wait")
  /\ UNCHANGED <<onceVars, barrierVars>>

SemWait(t) ==
  /\ sem > 0
  /\ GoTo(t, "wait", "count")
  /\ sem' = sem - 1
  /\ UNCHANGED <<mcsVars, onceVars, height, destroyed, arrivals, generation, serials>>

\* The first to leave releases the proxy node.
FirstOutReleases(t) ==
  /\ GoTo(t, "count", IF height = 0 THEN "release_proxy" ELSE "return")
  /\ height' = height + 1
  /\ serials' = IF height = 0 THEN serials + 1 ELSE serials
  /\ UNCHANGED <<mcsVars, onceVars, sem, destroyed, arrivals, generation>>

\* The interlocked increment: the last to leave releases the proxy node.
CountOut(t) ==
  /\ GoTo(t, "count", IF height + 1 = Count THEN "release_proxy" ELSE "return")
  /\ height' = height + 1
  /\ serials' = IF height + 1 = Count THEN serials + 1 ELSE serials
  /\ UNCHANGED <<mcsVars, onceVars, sem, destroyed, arrivals, generation>>

ReleaseProxy(t) ==
  /\ Releasing(t, Proxy, "release_proxy", "return")
  /\ UNCHANGED <<onceVars, barrierVars>>

BarrierReturn(t) ==
  /\ GoTo(t, "return", "ready")
  /\ Leave(t)
  /\ generation' = [generation EXCEPT ![t] = 0]
  /\ UNCHANGED <<onceVars, height, sem, destroyed, arrivals, serials>>

BarrierWait(t) ==
  \/ Arrive(t) \/ Transfer(t) \/ Post(t) \/ BarrierRelease(t) \/ SemWait(t)
  \/ CountOut(t) \/ ReleaseProxy(t) \/ BarrierReturn(t)

\* pthread_barrier_destroy, called when everyone has called for the last time
\* but may still be inside.  EBUSY changes nothing.
BarrierDestroy(t) ==
  /\ arrivals = MaxArrivals
  /\ pc[t] = "ready"
  /\ ~destroyed
  /\ CanTryAcquire(BarrierLock)
  /\ height = Count
  /\ destroyed' = TRUE
  /\ UNCHANGED <<mcsVars, pc, onceVars, height, sem, arrivals, generation, serials>>

-----------------------------------------------------------------------------

Queue(t) == Acquiring(t) /\ UNCHANGED <<pc, onceVars, barrierVars>>

Step(t) == Once(t) \/ Queue(t) \/ BarrierWait(t)

Next == \E t \in Threads : Step(t) \/ OnceCancelled(t) \/ BarrierAcquire(t) \/ BarrierDestroy(t)

Spec == Init /\ [][Next]_vars

\* Threads are scheduled; nothing obliges them to call.
Fairness == \A t \in Threads : WF_vars(Step(t))

FairSpec == Spec /\ Fairness

-----------------------------------------------------------------------------
(***************************************************************************)
(* Properties                                                              *)
(***************************************************************************)

TypeOK ==
  /\ tail \in [Locks -> Nodes \cup {None}]
  /\ next \in [Nodes -> Threads \cup {None}]
  /\ nextFlag \in [Nodes -> FlagValues]
  /\ readyFlag \in [Nodes -> FlagValues]
  /\ nodeLock \in [Nodes -> Locks \cup {None}]
  /\ mcs \in [Threads -> {"out", "link", "tell", "ready", "sleep", "held"}]
  /\ pred \in [Threads -> Nodes \cup {None}]
  /\ height \in 0 .. Count
  /\ sem \in 0 .. Count - 1
  /\ arrivals \in 0 .. MaxArrivals

\* The threads of a complete meeting that have not left.
Leaving ==
  {t \in Threads :
     \/ pc[t] \in {"post", "count", "release_proxy"}
     \/ pc[t] = "wait" /\ sem > 0}

\* A lock has one holder.  While the threads of a complete meeting leave, the
\* proxy node holds the lock of the barrier, and nobody else.  And without a
\* stray write nobody follows a null pointer to the next node.
MutualExclusion ==
  /\ crashed => strayed
  /\ \A l \in Locks :
       LET holders == {t \in Threads : mcs[t] = "held" /\ nodeLock[t] = l}
       IN  /\ Cardinality(holders) <= 1
           /\ l = BarrierLock /\ Leaving # {} => holders = {}

\* The init routine runs to its end once, also when a thread is cancelled in
\* it, and nobody goes past pthread_once before that.
InitialisedOnce ==
  /\ inits <= 1
  /\ \A t \in Threads :
       pc[t] \in {"once_release", "once_return", "ready"} \cup {"arrive"} => inits = 1

\* The types, and: nobody leaves the barrier before all of its meeting have
\* arrived: a thread of the next meeting cannot take a post that is meant for
\* this one.  Each meeting has one serial thread, and a destroyed barrier has
\* nobody left in it that would touch it.  The comment in pthread_barrier_wait
\* (lines 81-85) fears that pthread_barrier_destroy may take the semaphore from
\* the threads of a complete meeting that are still at it.  It cannot: until the
\* last of them is out the proxy node holds the lock, and destroy returns EBUSY.
MeetingsAreWhole ==
  /\ TypeOK
  /\ \A t \in Threads :
       pc[t] \in {"count", "release_proxy", "return"} => arrivals >= generation[t] * Count
  /\ Inside = {} => serials * Count = arrivals - (arrivals % Count)
  /\ destroyed => \A t \in Inside : pc[t] = "return"

\* In every execution without a stray write (strayed, ptw32_MCS_lock.c:175) every
\* thread gets the lock it queues for, and those of a complete meeting leave the
\* barrier: in the end only a thread whose meeting is not complete is left
\* inside.  After a stray write the property promises nothing: the flag is in a
\* node that may be waiting for it, and a thread can stay in a queue for ever.
EveryoneGetsThrough ==
  <>[](\/ strayed
       \/ \A t \in Threads :
            /\ mcs[t] = "out"
            /\ t \in Inside => pc[t] = "wait" /\ arrivals < generation[t] * Count)
=============================================================================
