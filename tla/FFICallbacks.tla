---------------------------- MODULE FFICallbacks ----------------------------
(***************************************************************************)
(* Calls of a JavaScript callback from native threads                      *)
(* (modules/Bridge/ffi.cc, CallbackInfo and ThreadedCallbackInvokation).   *)
(*                                                                         *)
(* A native thread that calls the closure pushes an invocation on g_queue, *)
(* signals g_async and waits on the invocation's condition variable; the   *)
(* main thread runs WatcherCallback from its event loop, runs the          *)
(* JavaScript of every queued invocation and signals each one.             *)
(*                                                                         *)
(* An invocation is named by the thread that allocated it: the thread      *)
(* stays in Invoke until it has deleted it.  The object is live while      *)
(* inv[t] holds.  Which closure is called, its arguments and its result    *)
(* are left out.  A call made on the main thread itself is an ordinary     *)
(* nested call of DispatchToV8 and touches none of this state.  The        *)
(* closure is not collected: _callback.js ties the buffer of the code      *)
(* pointer to the JavaScript function that the closure's persistent handle *)
(* keeps reachable.                                                        *)
(***************************************************************************)
EXTENDS Integers, Sequences

CONSTANTS
  Threads,          \* the native threads that call the closure
  Main,             \* the thread of the event loop (g_mainthread)
  NoOne,            \* the owner of a free mutex
  Restless,         \* the threads whose uv_cond_wait may return without a signal
  MaxSkew           \* bound: no call starts once g_async_active is above it, or below 0

ASSUME ThreadsAssumption == Main \notin Threads /\ NoOne \notin Threads \cup {Main}
ASSUME RestlessAssumption == Restless \subseteq Threads
ASSUME SkewAssumption == MaxSkew \in Nat

VARIABLES
  pc,               \* pc[t]: the next statement of thread t in Invoke
  inv,              \* inv[t]: the invocation of t is allocated
  served,           \* served[t]: the JavaScript of t's invocation has run
  unasked,          \* history: threads whose wait returned without a signal
  m_mutex,          \* m_mutex[t]: owner of the mutex of t's invocation
  m_cond,           \* the threads asleep on their invocation's m_cond
  g_queue,          \* the invocations waiting for WatcherCallback
  g_queue_mutex,    \* its owner
  async_pending,    \* uv_async_send was called since the last WatcherCallback
  main_pc,          \* the next statement of the main thread
  current,          \* the invocation WatcherCallback has popped
  g_async_ref,      \* the libuv REF flag of g_async
  g_async_active    \* what g_async adds to loop->active_handles

invokeVars == <<pc, inv, served, unasked, m_mutex, m_cond>>
queueVars == <<g_queue, g_queue_mutex, async_pending>>
watcherVars == <<main_pc, current>>
refVars == <<g_async_ref, g_async_active>>
vars == <<invokeVars, queueVars, watcherVars, refVars>>

InvokePC == {"native", "uv_ref", "uv_ref_set", "new", "lock", "push", "send",
             "wait", "blocked", "uv_unref", "uv_unref_clear", "delete", "free"}

WatcherPC == {"loop", "lock", "drain", "js", "sig_lock", "signal", "sig_unlock",
              "undefined"}

\* Between uv_ref and uv_unref a call wants the loop to stay open.
InFlight(t) ==
  pc[t] \in InvokePC \ {"native", "uv_ref", "uv_ref_set", "delete", "free"}

\* No step is followed after undefined behaviour of the main thread.
GoTo(t, from, to) ==
  /\ main_pc # "undefined"
  /\ pc[t] = from
  /\ pc' = [pc EXCEPT ![t] = to]

MainGoTo(from, to) ==
  /\ main_pc = from
  /\ main_pc' = to

Init ==
  /\ pc = [t \in Threads |-> "native"]
  /\ inv = [t \in Threads |-> FALSE]
  /\ served = [t \in Threads |-> FALSE]
  /\ unasked = {}
  /\ m_mutex = [t \in Threads |-> NoOne]
  /\ m_cond = {}
  /\ g_queue = <<>>
  /\ g_queue_mutex = NoOne
  /\ async_pending = FALSE
  /\ main_pc = "loop"
  /\ current = NoOne
  /\ g_async_ref = FALSE          \* Initialize unrefs the handle
  /\ g_async_active = 0

-----------------------------------------------------------------------------
(***************************************************************************)
(* Faulty variants of the steps below.  None is part of Next: each stands  *)
(* for a mistake that one of the properties must catch.                    *)
(***************************************************************************)

\* The constructor does not lock the mutex.
NewInvokationUnlocked(t) ==
  /\ GoTo(t, "new", "lock")
  /\ inv' = [inv EXCEPT ![t] = TRUE]
  /\ served' = [served EXCEPT ![t] = FALSE]
  /\ UNCHANGED <<unasked, m_mutex, m_cond, queueVars, watcherVars, refVars>>

\* front() without pop(): the invocation stays in the queue.
WatcherPopPeeks ==
  /\ MainGoTo("drain", "js")
  /\ g_queue # <<>>
  /\ current' = Head(g_queue)
  /\ UNCHANGED <<invokeVars, queueVars, refVars>>

\* The signal is not sent.
SignalForgotten ==
  /\ MainGoTo("signal", "sig_unlock")
  /\ UNCHANGED <<invokeVars, queueVars, current, refVars>>

\* The mutex is unlocked before the signal: the thread that wakes up need not
\* wait for the last use of its invocation.
SignalUnlocked ==
  /\ MainGoTo("signal", "sig_unlock")
  /\ inv[current]
  /\ m_cond' = m_cond \ {current}
  /\ m_mutex' = [m_mutex EXCEPT ![current] = NoOne]
  /\ UNCHANGED <<pc, inv, served, unasked, queueVars, current, refVars>>

\* WatcherCallback may leave before the queue is empty.
WatcherUnlockEarly ==
  /\ MainGoTo("drain", "loop")
  /\ g_queue_mutex' = NoOne
  /\ UNCHANGED <<invokeVars, g_queue, async_pending, current, refVars>>

-----------------------------------------------------------------------------
(***************************************************************************)
(* CallbackInfo::Invoke on a thread other than the main one.               *)
(***************************************************************************)

\* The main thread has no pointer to the invocation of t.
Forgotten(t) == current # t /\ \A i \in 1 .. Len(g_queue) : g_queue[i] # t

\* Bound: while the main thread has still to come to a deleted invocation, the
\* thread it belonged to makes no other call (whether the next one gets the
\* same memory is the allocator's choice).
Invoke(t) ==
  /\ GoTo(t, "native", "uv_ref")
  /\ g_async_active \in 0 .. MaxSkew
  /\ Forgotten(t)
  /\ UNCHANGED <<inv, served, unasked, m_mutex, m_cond, queueVars, watcherVars, refVars>>

(***************************************************************************)
(* uv_ref and uv_unref test a flag and then change the flag and the        *)
(* handle count without synchronisation: libuv allows them on the loop's   *)
(* thread only, and Invoke calls them on the native thread.                *)
(***************************************************************************)
UvRefTest(t) ==
  /\ GoTo(t, "uv_ref", IF g_async_ref THEN "new" ELSE "uv_ref_set")
  /\ UNCHANGED <<inv, served, unasked, m_mutex, m_cond, queueVars, watcherVars, refVars>>

UvRefSet(t) ==
  /\ GoTo(t, "uv_ref_set", "new")
  /\ g_async_ref' = TRUE
  /\ g_async_active' = g_async_active + 1
  /\ UNCHANGED <<inv, served, unasked, m_mutex, m_cond, queueVars, watcherVars>>

\* The constructor initialises the mutex and returns holding it.
NewInvokation(t) ==
  /\ GoTo(t, "new", "lock")
  /\ inv' = [inv EXCEPT ![t] = TRUE]
  /\ served' = [served EXCEPT ![t] = FALSE]
  /\ m_mutex' = [m_mutex EXCEPT ![t] = t]
  /\ UNCHANGED <<unasked, m_cond, queueVars, watcherVars, refVars>>

LockQueue(t) ==
  /\ GoTo(t, "lock", "push")
  /\ g_queue_mutex = NoOne
  /\ g_queue_mutex' = t
  /\ UNCHANGED <<inv, served, unasked, m_mutex, m_cond, g_queue, async_pending,
                 watcherVars, refVars>>

PushUnlock(t) ==
  /\ GoTo(t, "push", "send")
  /\ g_queue' = Append(g_queue, t)
  /\ g_queue_mutex' = NoOne
  /\ UNCHANGED <<inv, served, unasked, m_mutex, m_cond, async_pending,
                 watcherVars, refVars>>

\* Any number of sends before the next turn of the loop is one wakeup.
AsyncSend(t) ==
  /\ GoTo(t, "send", "wait")
  /\ async_pending' = TRUE
  /\ UNCHANGED <<inv, served, unasked, m_mutex, m_cond, g_queue, g_queue_mutex,
                 watcherVars, refVars>>

\* uv_cond_wait gives up the mutex and falls asleep in one step ...
WaitForExecution(t) ==
  /\ GoTo(t, "wait", "blocked")
  /\ m_mutex' = [m_mutex EXCEPT ![t] = NoOne]
  /\ m_cond' = m_cond \cup {t}
  /\ UNCHANGED <<inv, served, unasked, queueVars, watcherVars, refVars>>

\* ... and returns holding it again, once a signal has woken the thread ...
WakeUp(t) ==
  /\ GoTo(t, "blocked", "uv_unref")
  /\ t \notin m_cond
  /\ m_mutex[t] = NoOne
  /\ m_mutex' = [m_mutex EXCEPT ![t] = t]
  /\ UNCHANGED <<inv, served, unasked, m_cond, queueVars, watcherVars, refVars>>

\* ... or without one, where condition variables may do that.  No loop tests a
\* condition around the wait: Invoke goes on as if its JavaScript had run.
WakeUpUnasked(t) ==
  /\ t \in Restless
  /\ GoTo(t, "blocked", "uv_unref")
  /\ t \in m_cond
  /\ m_mutex[t] = NoOne
  /\ m_cond' = m_cond \ {t}
  /\ m_mutex' = [m_mutex EXCEPT ![t] = t]
  /\ unasked' = unasked \cup {t}
  /\ UNCHANGED <<inv, served, queueVars, watcherVars, refVars>>

UvUnrefTest(t) ==
  /\ GoTo(t, "uv_unref", IF g_async_ref THEN "uv_unref_clear" ELSE "delete")
  /\ UNCHANGED <<inv, served, unasked, m_mutex, m_cond, queueVars, watcherVars, refVars>>

UvUnrefClear(t) ==
  /\ GoTo(t, "uv_unref_clear", "delete")
  /\ g_async_ref' = FALSE
  /\ g_async_active' = g_async_active - 1
  /\ UNCHANGED <<inv, served, unasked, m_mutex, m_cond, queueVars, watcherVars>>

\* The destructor unlocks the mutex ...
DeleteInvokation(t) ==
  /\ GoTo(t, "delete", "free")
  /\ m_mutex' = [m_mutex EXCEPT ![t] = NoOne]
  /\ UNCHANGED <<inv, served, unasked, m_cond, queueVars, watcherVars, refVars>>

\* ... and destroys it, whoever holds it; the memory is freed, Invoke returns.
\* How the wait ended matters no longer if nobody else knows the invocation.
FreeInvokation(t) ==
  /\ GoTo(t, "free", "native")
  /\ inv' = [inv EXCEPT ![t] = FALSE]
  /\ m_mutex' = [m_mutex EXCEPT ![t] = NoOne]
  /\ unasked' = IF Forgotten(t) THEN unasked \ {t} ELSE unasked
  /\ UNCHANGED <<served, m_cond, queueVars, watcherVars, refVars>>

-----------------------------------------------------------------------------
(***************************************************************************)
(* The main thread: turns of the event loop, and WatcherCallback with its  *)
(* calls of DispatchToV8 and SignalDoneExecuting.                          *)
(***************************************************************************)

\* A loop without active handles is not alive: uv_run returns at once and the
\* runtime emits beforeExit.  The count is unsigned: any value but 0 is alive.
HeldOpen == g_async_active # 0

\* libuv clears the pending mark before it calls WatcherCallback.  Without
\* g_async, a timer or a socket may keep the loop alive, or nothing.
RunAsyncCallback ==
  /\ MainGoTo("loop", "lock")
  /\ async_pending
  /\ async_pending' = FALSE
  /\ UNCHANGED <<invokeVars, g_queue, g_queue_mutex, current, refVars>>

WatcherLock ==
  /\ MainGoTo("lock", "drain")
  /\ g_queue_mutex = NoOne
  /\ g_queue_mutex' = Main
  /\ UNCHANGED <<invokeVars, g_queue, async_pending, current, refVars>>

WatcherPop ==
  /\ MainGoTo("drain", "js")
  /\ g_queue # <<>>
  /\ current' = Head(g_queue)
  /\ g_queue' = Tail(g_queue)
  /\ UNCHANGED <<invokeVars, g_queue_mutex, async_pending, refVars>>

\* The JavaScript function returns, normally or with an error that is
\* reported to the process: the invocation is finished either way.
DispatchToV8 ==
  /\ MainGoTo("js", "sig_lock")
  /\ inv[current]
  /\ served' = [served EXCEPT ![current] = TRUE]
  /\ UNCHANGED <<pc, inv, unasked, m_mutex, m_cond, queueVars, current, refVars>>

SignalLock ==
  /\ MainGoTo("sig_lock", "signal")
  /\ inv[current]
  /\ m_mutex[current] = NoOne
  /\ m_mutex' = [m_mutex EXCEPT ![current] = Main]
  /\ UNCHANGED <<pc, inv, served, unasked, m_cond, queueVars, current, refVars>>

\* A signal with nobody asleep on the condition variable is lost.
SignalCond ==
  /\ MainGoTo("signal", "sig_unlock")
  /\ inv[current]
  /\ m_cond' = m_cond \ {current}
  /\ UNCHANGED <<pc, inv, served, unasked, m_mutex, queueVars, current, refVars>>

SignalUnlock ==
  /\ MainGoTo("sig_unlock", "drain")
  /\ inv[current]
  /\ m_mutex' = [m_mutex EXCEPT ![current] = NoOne]
  /\ current' = NoOne
  /\ UNCHANGED <<pc, inv, served, unasked, m_cond, queueVars, refVars>>

\* Each of these four steps reads or writes the popped invocation.  Once that
\* is deleted the outcome is undefined, and the model follows it no further.
Serving == main_pc \in {"js", "sig_lock", "signal", "sig_unlock"}

TouchDeleted ==
  /\ Serving
  /\ ~inv[current]
  /\ main_pc' = "undefined"
  /\ UNCHANGED <<invokeVars, queueVars, current, refVars>>

WatcherUnlock ==
  /\ MainGoTo("drain", "loop")
  /\ g_queue = <<>>
  /\ g_queue_mutex' = NoOne
  /\ UNCHANGED <<invokeVars, g_queue, async_pending, current, refVars>>

-----------------------------------------------------------------------------

\* The statements of Invoke after its call: a scheduled thread runs them.
InvokeStep(t) ==
  \/ UvRefTest(t) \/ UvRefSet(t) \/ NewInvokation(t) \/ LockQueue(t)
  \/ PushUnlock(t) \/ AsyncSend(t) \/ WaitForExecution(t) \/ WakeUp(t)
  \/ UvUnrefTest(t) \/ UvUnrefClear(t) \/ DeleteInvokation(t) \/ FreeInvokation(t)

WatcherCallback ==
  \/ WatcherLock \/ WatcherPop \/ DispatchToV8
  \/ SignalLock \/ SignalCond \/ SignalUnlock \/ TouchDeleted \/ WatcherUnlock

Next ==
  \/ \E t \in Threads : Invoke(t) \/ InvokeStep(t) \/ WakeUpUnasked(t)
  \/ RunAsyncCallback \/ WatcherCallback

Spec == Init /\ [][Next]_vars

\* Threads are scheduled, callbacks return, and the loop keeps turning
\* (LoopEmbed shows that it does); a turn runs WatcherCallback if the loop is
\* alive, and nothing obliges others to keep it so.  Nor is a thread obliged to
\* call, or a wait to return without a signal.  A mutex is not assumed fair.
Fairness ==
  /\ \A t \in Threads : WF_vars(InvokeStep(t))
  /\ WF_vars(HeldOpen /\ RunAsyncCallback)
  /\ WF_vars(WatcherCallback)

FairSpec == Spec /\ Fairness

-----------------------------------------------------------------------------
(***************************************************************************)
(* Properties                                                              *)
(***************************************************************************)

\* The types of the variables, and only an allocated invocation of
\* ThreadedCallbackInvokation has a mutex that somebody owns.
TypeOK ==
  /\ pc \in [Threads -> InvokePC]
  /\ inv \in [Threads -> BOOLEAN]
  /\ served \in [Threads -> BOOLEAN]
  /\ unasked \in SUBSET Threads
  /\ m_mutex \in [Threads -> Threads \cup {Main, NoOne}]
  /\ m_cond \in SUBSET Threads
  /\ g_queue \in Seq(Threads)
  /\ g_queue_mutex \in Threads \cup {Main, NoOne}
  /\ async_pending \in BOOLEAN
  /\ main_pc \in WatcherPC
  /\ current \in Threads \cup {NoOne}
  /\ g_async_ref \in BOOLEAN
  /\ g_async_active \in Int
  /\ \A t \in Threads : m_mutex[t] # NoOne => inv[t]

\* Memory is used after it is freed only by way of a wait that returned
\* unasked (ffi.cc:47), and then only the memory of that wait's invocation.
\* Otherwise the main thread never touches a deleted invocation, neither one it
\* has popped nor one that a later turn will pop from g_queue, and the
\* destructor never destroys a mutex that the main thread holds.
NoUseAfterFree ==
  /\ Serving => inv[current] \/ current \in unasked
  /\ \A i \in 1 .. Len(g_queue) : inv[g_queue[i]] \/ g_queue[i] \in unasked
  /\ \A t \in Threads : pc[t] = "free" => m_mutex[t] = NoOne \/ t \in unasked
  /\ main_pc = "undefined" => current \in unasked

\* SignalDoneExecuting finds its waiter asleep, unless that has returned
\* unasked: the constructor's lock makes it wait for uv_cond_wait, so no signal
\* is lost to a thread that does not sleep yet.
SignalFindsWaiter == main_pc = "signal" => current \in m_cond \cup unasked

\* The native caller reads the return value after its JavaScript wrote it:
\* signalled, WaitForExecution returns only when DispatchToV8 ran for this
\* invocation.
ReturnsAfterDispatch ==
  \A t \in Threads \ unasked :
    pc[t] \in {"uv_unref", "uv_unref_clear", "delete", "free"} => served[t]

\* A queued invocation is never forgotten by the loop: when the main thread
\* is back in the loop with invocations queued and no wakeup pending, one of
\* their threads has still to call uv_async_send.
NoLostWakeup ==
  main_pc = "loop" /\ g_queue # <<>> /\ ~async_pending
    => \E i \in 1 .. Len(g_queue) : pc[g_queue[i]] = "send"

\* The JavaScript of an invocation runs once: only an invocation that was not
\* served is dispatched.
DispatchedOnce == main_pc = "js" => ~served[current]

\* Every invocation that reached the queue returns to its native caller, also
\* when the waits of others return unasked, unless the main thread runs into a
\* deleted invocation or the loop is let go during the call (HoldsLoopOpen).
QueuedCallsReturn ==
  \A t \in Threads :
    pc[t] = "send" ~> pc[t] = "native" \/ main_pc = "undefined" \/ ~HeldOpen

\* "hold the event loop open while this is executing" (Invoke, before uv_ref):
\* no turn that may begin finds the loop not alive during an invocation.
HoldsLoopOpen == main_pc = "loop" /\ ~HeldOpen => \A t \in Threads : ~InFlight(t)

\* The calls of native threads, as CallbackCall promises them: a call is done
\* once its JavaScript has run, and returns when Invoke does.  One that comes
\* back from uv_cond_wait unasked before that has given up on its run.
CallState ==
  [t \in Threads |->
     CASE pc[t] = "native" -> "idle"
       [] pc[t] # "native" /\ inv[t] /\ served[t] -> "done"
       [] pc[t] # "native" /\ ~(inv[t] /\ served[t]) ->
            IF t \in unasked THEN "abandoned" ELSE "called"]

CallRunning == IF main_pc = "js" /\ inv[current] THEN {current} ELSE {}

Call == INSTANCE CallbackCall
          WITH state <- CallState, running <- CallRunning, MayAbandon <- Restless

CallSpec == Call!Spec
=============================================================================
