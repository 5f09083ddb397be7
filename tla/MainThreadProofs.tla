-------------------------- MODULE MainThreadProofs --------------------------
(***************************************************************************)
(* The main thread and the threads that want something of it: callbacks    *)
(* from native threads, and the watcher of the event loop.                 *)
(*                                                                         *)
(* The hand-shake of FFICallbacks is correct for any set of native         *)
(* threads; where waits may return without a signal, the harm is confined  *)
(* to the invocations whose wait did.                                      *)
(***************************************************************************)
EXTENDS FFICallbacks, LoopEmbed, TLAPS

\* Where a thread of each kind stands in Invoke.
Outside == {"native", "uv_ref", "uv_ref_set", "new"}
HoldsOwn == {"lock", "push", "send", "wait", "uv_unref", "uv_unref_clear", "delete"}
Returned == {"uv_unref", "uv_unref_clear", "delete", "free"}
Pushed == {"send", "wait", "blocked"}

\* The mutex of an invocation is with its thread except while that thread
\* sleeps or destroys it; the main thread holds it only to signal.
MutexInv ==
  \A t \in Threads :
    /\ pc[t] \in HoldsOwn <=> m_mutex[t] = t
    /\ m_mutex[t] = Main <=>
         main_pc \in {"signal", "sig_unlock"} /\ current = t /\ inv[t]
    /\ m_mutex[t] \in {t, Main, NoOne}

\* A thread that was not woken unasked has been served when its wait is over.
ObjectInv ==
  \A t \in Threads :
    /\ inv[t] <=> pc[t] \notin Outside
    /\ t \in m_cond => pc[t] = "blocked"
    /\ t \in unasked => pc[t] \in Returned \cup {"native"}
    /\ t \in unasked /\ pc[t] = "native" => ~Forgotten(t)
    /\ pc[t] \in Returned /\ t \notin unasked => served[t] /\ current # t
    /\ pc[t] = "blocked" /\ t \notin m_cond => served[t] /\ m_mutex[t] # t
    /\ pc[t] = "blocked" /\ ~served[t] => t \in m_cond

QueueInv ==
  /\ \A i \in 1 .. Len(g_queue) :
       /\ pc[g_queue[i]] \in Pushed \/ g_queue[i] \in unasked
       /\ ~served[g_queue[i]]
       /\ g_queue[i] # current
  /\ \A i, j \in 1 .. Len(g_queue) : g_queue[i] = g_queue[j] => i = j
  /\ \A t \in Threads : pc[t] = "push" <=> g_queue_mutex = t
  /\ \A t \in Threads : pc[t] \in {"lock", "push"} => ~served[t] /\ current # t

\* An invocation being served has been pushed, and its thread has not come
\* back from uv_cond_wait, or has come back unasked.
ServingInv ==
  /\ Serving \/ main_pc = "undefined" <=> current # NoOne
  /\ current # NoOne =>
       /\ current \in Threads
       /\ pc[current] \in Pushed \/ current \in unasked
  /\ Serving => (served[current] <=> main_pc # "js")
  /\ main_pc = "undefined" => current \in unasked
  /\ main_pc = "sig_lock" /\ pc[current] = "blocked" => current \in m_cond
  /\ main_pc = "signal" => current \in m_cond \cup unasked
  /\ main_pc \in {"drain", "js", "sig_lock", "signal", "sig_unlock", "undefined"}
       <=> g_queue_mutex = Main

IInv == TypeOK /\ MutexInv /\ ObjectInv /\ QueueInv /\ ServingInv

-----------------------------------------------------------------------------

LEMMA InitIInv == Init => IInv
<1> USE ThreadsAssumption DEF Init
<1>1. Init => TypeOK
  <2> USE DEF InvokePC, WatcherPC
  <2> SUFFICES ASSUME Init PROVE TypeOK
    OBVIOUS
  <2>1. pc \in [Threads -> InvokePC] /\ inv \in [Threads -> BOOLEAN]
    OBVIOUS
  <2>2. served \in [Threads -> BOOLEAN] /\ unasked \in SUBSET Threads
        /\ m_mutex \in [Threads -> Threads \cup {Main, NoOne}]
    OBVIOUS
  <2>3. g_queue \in Seq(Threads) /\ m_cond \in SUBSET Threads
    OBVIOUS
  <2>4. \A t \in Threads : m_mutex[t] # NoOne => inv[t]
    OBVIOUS
  <2>5. g_async_ref \in BOOLEAN /\ async_pending \in BOOLEAN
    OBVIOUS
  <2>6. g_async_active \in Int /\ main_pc \in WatcherPC
    OBVIOUS
  <2>7. current \in Threads \cup {NoOne} /\ g_queue_mutex \in Threads \cup {Main, NoOne}
    OBVIOUS
  <2> QED
    BY <2>1, <2>2, <2>3, <2>4, <2>5, <2>6, <2>7, Zenon DEF TypeOK
<1>2. Init => MutexInv /\ ObjectInv
  BY DEF MutexInv, ObjectInv, HoldsOwn, Outside, Returned
<1>3. Init => QueueInv
  BY DEF QueueInv, Pushed
<1>4. Init => ServingInv
  BY DEF ServingInv, Serving
<1> QED
  BY <1>1, <1>2, <1>3, <1>4 DEF IInv

LEMMA StepIInv == IInv /\ [Next]_vars => IInv'
<1> SUFFICES ASSUME IInv, [Next]_vars PROVE IInv'
  OBVIOUS
<1> USE ThreadsAssumption
<1> USE DEF Outside, HoldsOwn, Returned, Pushed, InvokePC, WatcherPC, Serving, Forgotten,
            GoTo, MainGoTo, invokeVars, queueVars, watcherVars, refVars
<1>1. ASSUME NEW t \in Threads, Invoke(t) PROVE IInv'
  <2>1. TypeOK'
    BY <1>1 DEF Invoke, IInv, TypeOK, MutexInv, ObjectInv, QueueInv, ServingInv
  <2>2. MutexInv'
    BY <1>1 DEF Invoke, IInv, TypeOK, MutexInv, ObjectInv, QueueInv, ServingInv
  <2>3. ObjectInv'
    BY <1>1 DEF Invoke, IInv, TypeOK, MutexInv, ObjectInv, QueueInv, ServingInv
  <2>4. QueueInv'
    BY <1>1 DEF Invoke, IInv, TypeOK, MutexInv, ObjectInv, QueueInv, ServingInv
  <2>5. ServingInv'
    BY <1>1 DEF Invoke, IInv, TypeOK, MutexInv, ObjectInv, QueueInv, ServingInv
  <2>6. QED BY <2>1, <2>2, <2>3, <2>4, <2>5 DEF IInv
<1>2. ASSUME NEW t \in Threads, UvRefTest(t) PROVE IInv'
  <2>1. TypeOK'
    BY <1>2 DEF UvRefTest, IInv, TypeOK, MutexInv, ObjectInv, QueueInv, ServingInv
  <2>2. MutexInv'
    BY <1>2 DEF UvRefTest, IInv, TypeOK, MutexInv, ObjectInv, QueueInv, ServingInv
  <2>3. ObjectInv'
    BY <1>2 DEF UvRefTest, IInv, TypeOK, MutexInv, ObjectInv, QueueInv, ServingInv
  <2>4. QueueInv'
    BY <1>2 DEF UvRefTest, IInv, TypeOK, MutexInv, ObjectInv, QueueInv, ServingInv
  <2>5. ServingInv'
    BY <1>2 DEF UvRefTest, IInv, TypeOK, MutexInv, ObjectInv, QueueInv, ServingInv
  <2>6. QED BY <2>1, <2>2, <2>3, <2>4, <2>5 DEF IInv
<1>3. ASSUME NEW t \in Threads, UvRefSet(t) PROVE IInv'
  <2>1. TypeOK'
    BY <1>3 DEF UvRefSet, IInv, TypeOK, MutexInv, ObjectInv, QueueInv, ServingInv
  <2>2. MutexInv'
    BY <1>3 DEF UvRefSet, IInv, TypeOK, MutexInv, ObjectInv, QueueInv, ServingInv
  <2>3. ObjectInv'
    BY <1>3 DEF UvRefSet, IInv, TypeOK, MutexInv, ObjectInv, QueueInv, ServingInv
  <2>4. QueueInv'
    BY <1>3 DEF UvRefSet, IInv, TypeOK, MutexInv, ObjectInv, QueueInv, ServingInv
  <2>5. ServingInv'
    BY <1>3 DEF UvRefSet, IInv, TypeOK, MutexInv, ObjectInv, QueueInv, ServingInv
  <2>6. QED BY <2>1, <2>2, <2>3, <2>4, <2>5 DEF IInv
<1>4. ASSUME NEW t \in Threads, NewInvokation(t) PROVE IInv'
  <2>1. TypeOK'
    BY <1>4 DEF NewInvokation, IInv, TypeOK, MutexInv, ObjectInv, QueueInv, ServingInv
  <2>2. MutexInv'
    BY <1>4 DEF NewInvokation, IInv, TypeOK, MutexInv, ObjectInv, QueueInv, ServingInv
  <2>3. ObjectInv'
    BY <1>4 DEF NewInvokation, IInv, TypeOK, MutexInv, ObjectInv, QueueInv, ServingInv
  <2>4. QueueInv'
    BY <1>4 DEF NewInvokation, IInv, TypeOK, MutexInv, ObjectInv, QueueInv, ServingInv
  <2>5. ServingInv'
    BY <1>4 DEF NewInvokation, IInv, TypeOK, MutexInv, ObjectInv, QueueInv, ServingInv
  <2>6. QED BY <2>1, <2>2, <2>3, <2>4, <2>5 DEF IInv
<1>5. ASSUME NEW t \in Threads, LockQueue(t) PROVE IInv'
  <2>1. TypeOK'
    BY <1>5 DEF LockQueue, IInv, TypeOK, MutexInv, ObjectInv, QueueInv, ServingInv
  <2>2. MutexInv'
    BY <1>5 DEF LockQueue, IInv, TypeOK, MutexInv, ObjectInv, QueueInv, ServingInv
  <2>3. ObjectInv'
    BY <1>5 DEF LockQueue, IInv, TypeOK, MutexInv, ObjectInv, QueueInv, ServingInv
  <2>4. QueueInv'
    BY <1>5 DEF LockQueue, IInv, TypeOK, MutexInv, ObjectInv, QueueInv, ServingInv
  <2>5. ServingInv'
    BY <1>5 DEF LockQueue, IInv, TypeOK, MutexInv, ObjectInv, QueueInv, ServingInv
  <2>6. QED BY <2>1, <2>2, <2>3, <2>4, <2>5 DEF IInv
<1>6. ASSUME NEW t \in Threads, PushUnlock(t) PROVE IInv'
  <2>1. TypeOK'
    BY <1>6 DEF PushUnlock, IInv, TypeOK, MutexInv, ObjectInv, QueueInv, ServingInv
  <2>2. MutexInv'
    BY <1>6 DEF PushUnlock, IInv, TypeOK, MutexInv, ObjectInv, QueueInv, ServingInv
  <2>3. ObjectInv'
    BY <1>6 DEF PushUnlock, IInv, TypeOK, MutexInv, ObjectInv, QueueInv, ServingInv
  <2>4. QueueInv'
    BY <1>6 DEF PushUnlock, IInv, TypeOK, MutexInv, ObjectInv, QueueInv, ServingInv
  <2>5. ServingInv'
    BY <1>6 DEF PushUnlock, IInv, TypeOK, MutexInv, ObjectInv, QueueInv, ServingInv
  <2>6. QED BY <2>1, <2>2, <2>3, <2>4, <2>5 DEF IInv
<1>7. ASSUME NEW t \in Threads, AsyncSend(t) PROVE IInv'
  <2>1. TypeOK'
    BY <1>7 DEF AsyncSend, IInv, TypeOK, MutexInv, ObjectInv, QueueInv, ServingInv
  <2>2. MutexInv'
    BY <1>7 DEF AsyncSend, IInv, TypeOK, MutexInv, ObjectInv, QueueInv, ServingInv
  <2>3. ObjectInv'
    BY <1>7 DEF AsyncSend, IInv, TypeOK, MutexInv, ObjectInv, QueueInv, ServingInv
  <2>4. QueueInv'
    BY <1>7 DEF AsyncSend, IInv, TypeOK, MutexInv, ObjectInv, QueueInv, ServingInv
  <2>5. ServingInv'
    BY <1>7 DEF AsyncSend, IInv, TypeOK, MutexInv, ObjectInv, QueueInv, ServingInv
  <2>6. QED BY <2>1, <2>2, <2>3, <2>4, <2>5 DEF IInv
<1>8. ASSUME NEW t \in Threads, WaitForExecution(t) PROVE IInv'
  <2>1. TypeOK'
    BY <1>8 DEF WaitForExecution, IInv, TypeOK, MutexInv, ObjectInv, QueueInv, ServingInv
  <2>2. MutexInv'
    BY <1>8 DEF WaitForExecution, IInv, TypeOK, MutexInv, ObjectInv, QueueInv, ServingInv
  <2>3. ObjectInv'
    BY <1>8 DEF WaitForExecution, IInv, TypeOK, MutexInv, ObjectInv, QueueInv, ServingInv
  <2>4. QueueInv'
    BY <1>8 DEF WaitForExecution, IInv, TypeOK, MutexInv, ObjectInv, QueueInv, ServingInv
  <2>5. ServingInv'
    BY <1>8 DEF WaitForExecution, IInv, TypeOK, MutexInv, ObjectInv, QueueInv, ServingInv
  <2>6. QED BY <2>1, <2>2, <2>3, <2>4, <2>5 DEF IInv
<1>9. ASSUME NEW t \in Threads, WakeUp(t) PROVE IInv'
  <2>1. TypeOK'
    BY <1>9 DEF WakeUp, IInv, TypeOK, MutexInv, ObjectInv, QueueInv, ServingInv
  <2>2. MutexInv'
    BY <1>9 DEF WakeUp, IInv, TypeOK, MutexInv, ObjectInv, QueueInv, ServingInv
  <2>3. ObjectInv'
    BY <1>9 DEF WakeUp, IInv, TypeOK, MutexInv, ObjectInv, QueueInv, ServingInv
  <2>4. QueueInv'
    BY <1>9 DEF WakeUp, IInv, TypeOK, MutexInv, ObjectInv, QueueInv, ServingInv
  <2>5. ServingInv'
    BY <1>9 DEF WakeUp, IInv, TypeOK, MutexInv, ObjectInv, QueueInv, ServingInv
  <2>6. QED BY <2>1, <2>2, <2>3, <2>4, <2>5 DEF IInv
<1>10. ASSUME NEW t \in Threads, WakeUpUnasked(t) PROVE IInv'
  <2>1. TypeOK'
    BY <1>10 DEF WakeUpUnasked, IInv, TypeOK, MutexInv, ObjectInv, QueueInv, ServingInv
  <2>2. MutexInv'
    BY <1>10 DEF WakeUpUnasked, IInv, TypeOK, MutexInv, ObjectInv, QueueInv, ServingInv
  <2>3. ObjectInv'
    BY <1>10 DEF WakeUpUnasked, IInv, TypeOK, MutexInv, ObjectInv, QueueInv, ServingInv
  <2>4. QueueInv'
    BY <1>10 DEF WakeUpUnasked, IInv, TypeOK, MutexInv, ObjectInv, QueueInv, ServingInv
  <2>5. ServingInv'
    BY <1>10 DEF WakeUpUnasked, IInv, TypeOK, MutexInv, ObjectInv, QueueInv, ServingInv
  <2>6. QED BY <2>1, <2>2, <2>3, <2>4, <2>5 DEF IInv
<1>11. ASSUME NEW t \in Threads, UvUnrefTest(t) PROVE IInv'
  <2>1. TypeOK'
    BY <1>11 DEF UvUnrefTest, IInv, TypeOK, MutexInv, ObjectInv, QueueInv, ServingInv
  <2>2. MutexInv'
    BY <1>11 DEF UvUnrefTest, IInv, TypeOK, MutexInv, ObjectInv, QueueInv, ServingInv
  <2>3. ObjectInv'
    BY <1>11 DEF UvUnrefTest, IInv, TypeOK, MutexInv, ObjectInv, QueueInv, ServingInv
  <2>4. QueueInv'
    BY <1>11 DEF UvUnrefTest, IInv, TypeOK, MutexInv, ObjectInv, QueueInv, ServingInv
  <2>5. ServingInv'
    BY <1>11 DEF UvUnrefTest, IInv, TypeOK, MutexInv, ObjectInv, QueueInv, ServingInv
  <2>6. QED BY <2>1, <2>2, <2>3, <2>4, <2>5 DEF IInv
<1>12. ASSUME NEW t \in Threads, UvUnrefClear(t) PROVE IInv'
  <2>1. TypeOK'
    <3>1. g_async_active' \in Int
      BY <1>12 DEF UvUnrefClear, IInv, TypeOK
    <3>2. g_async_ref' \in BOOLEAN
      BY <1>12 DEF UvUnrefClear
    <3>3. pc' \in [Threads -> InvokePC]
      BY <1>12 DEF UvUnrefClear, IInv, TypeOK
    <3> QED
      BY <1>12, <3>1, <3>2, <3>3, Zenon DEF UvUnrefClear, IInv, TypeOK
  <2>2. MutexInv'
    BY <1>12 DEF UvUnrefClear, IInv, TypeOK, MutexInv, ObjectInv, QueueInv, ServingInv
  <2>3. ObjectInv'
    BY <1>12 DEF UvUnrefClear, IInv, TypeOK, MutexInv, ObjectInv, QueueInv, ServingInv
  <2>4. QueueInv'
    BY <1>12 DEF UvUnrefClear, IInv, TypeOK, MutexInv, ObjectInv, QueueInv, ServingInv
  <2>5. ServingInv'
    BY <1>12 DEF UvUnrefClear, IInv, TypeOK, MutexInv, ObjectInv, QueueInv, ServingInv
  <2>6. QED BY <2>1, <2>2, <2>3, <2>4, <2>5 DEF IInv
<1>13. ASSUME NEW t \in Threads, DeleteInvokation(t) PROVE IInv'
  <2>1. TypeOK'
    BY <1>13 DEF DeleteInvokation, IInv, TypeOK, MutexInv, ObjectInv, QueueInv, ServingInv
  <2>2. MutexInv'
    BY <1>13 DEF DeleteInvokation, IInv, TypeOK, MutexInv, ObjectInv, QueueInv, ServingInv
  <2>3. ObjectInv'
    BY <1>13 DEF DeleteInvokation, IInv, TypeOK, MutexInv, ObjectInv, QueueInv, ServingInv
  <2>4. QueueInv'
    BY <1>13 DEF DeleteInvokation, IInv, TypeOK, MutexInv, ObjectInv, QueueInv, ServingInv
  <2>5. ServingInv'
    BY <1>13 DEF DeleteInvokation, IInv, TypeOK, MutexInv, ObjectInv, QueueInv, ServingInv
  <2>6. QED BY <2>1, <2>2, <2>3, <2>4, <2>5 DEF IInv
<1>14. ASSUME NEW t \in Threads, FreeInvokation(t) PROVE IInv'
  <2>1. TypeOK'
    BY <1>14 DEF FreeInvokation, IInv, TypeOK, MutexInv, ObjectInv, QueueInv, ServingInv
  <2>2. MutexInv'
    BY <1>14 DEF FreeInvokation, IInv, TypeOK, MutexInv, ObjectInv, QueueInv, ServingInv
  <2>3. ObjectInv'
    BY <1>14 DEF FreeInvokation, IInv, TypeOK, MutexInv, ObjectInv, QueueInv, ServingInv
  <2>4. QueueInv'
    BY <1>14 DEF FreeInvokation, IInv, TypeOK, MutexInv, ObjectInv, QueueInv, ServingInv
  <2>5. ServingInv'
    BY <1>14 DEF FreeInvokation, IInv, TypeOK, MutexInv, ObjectInv, QueueInv, ServingInv
  <2>6. QED BY <2>1, <2>2, <2>3, <2>4, <2>5 DEF IInv
<1>15. ASSUME RunAsyncCallback PROVE IInv'
  <2>1. TypeOK'
    BY <1>15 DEF RunAsyncCallback, IInv, TypeOK, MutexInv, ObjectInv, QueueInv, ServingInv
  <2>2. MutexInv'
    BY <1>15 DEF RunAsyncCallback, IInv, TypeOK, MutexInv, ObjectInv, QueueInv, ServingInv
  <2>3. ObjectInv'
    BY <1>15 DEF RunAsyncCallback, IInv, TypeOK, MutexInv, ObjectInv, QueueInv, ServingInv
  <2>4. QueueInv'
    BY <1>15 DEF RunAsyncCallback, IInv, TypeOK, MutexInv, ObjectInv, QueueInv, ServingInv
  <2>5. ServingInv'
    BY <1>15 DEF RunAsyncCallback, IInv, TypeOK, MutexInv, ObjectInv, QueueInv, ServingInv
  <2>6. QED BY <2>1, <2>2, <2>3, <2>4, <2>5 DEF IInv
<1>16. ASSUME WatcherLock PROVE IInv'
  <2>1. TypeOK'
    BY <1>16 DEF WatcherLock, IInv, TypeOK, MutexInv, ObjectInv, QueueInv, ServingInv
  <2>2. MutexInv'
    BY <1>16 DEF WatcherLock, IInv, TypeOK, MutexInv, ObjectInv, QueueInv, ServingInv
  <2>3. ObjectInv'
    BY <1>16 DEF WatcherLock, IInv, TypeOK, MutexInv, ObjectInv, QueueInv, ServingInv
  <2>4. QueueInv'
    BY <1>16 DEF WatcherLock, IInv, TypeOK, MutexInv, ObjectInv, QueueInv, ServingInv
  <2>5. ServingInv'
    BY <1>16 DEF WatcherLock, IInv, TypeOK, MutexInv, ObjectInv, QueueInv, ServingInv
  <2>6. QED BY <2>1, <2>2, <2>3, <2>4, <2>5 DEF IInv
<1>17. ASSUME WatcherPop PROVE IInv'
  <2>1. TypeOK'
    BY <1>17 DEF WatcherPop, IInv, TypeOK, MutexInv, ObjectInv, QueueInv, ServingInv
  <2>2. MutexInv'
    BY <1>17 DEF WatcherPop, IInv, TypeOK, MutexInv, ObjectInv, QueueInv, ServingInv
  <2>3. ObjectInv'
    <3>1. \A t \in Threads : ~Forgotten(t) => ~Forgotten(t)'
      <4> SUFFICES ASSUME NEW t \in Threads, ~Forgotten(t), current' # t
                   PROVE  \E i \in 1 .. Len(g_queue') : g_queue'[i] = t
        OBVIOUS
      <4>1. current = NoOne
        BY <1>17 DEF WatcherPop, IInv, ServingInv
      <4>2. PICK i \in 1 .. Len(g_queue) : g_queue[i] = t
        BY <4>1
      <4>3. i # 1
        BY <1>17, <4>2 DEF WatcherPop, IInv, TypeOK
      <4>4. i - 1 \in 1 .. Len(g_queue') /\ g_queue'[i - 1] = g_queue[i]
        BY <1>17, <4>2, <4>3 DEF WatcherPop, IInv, TypeOK
      <4> QED
        BY <4>2, <4>4
    <3>2. pc[Head(g_queue)] \in Pushed \/ Head(g_queue) \in unasked
      <4>1. Head(g_queue) = g_queue[1] /\ 1 \in 1 .. Len(g_queue)
        BY <1>17 DEF WatcherPop, IInv, TypeOK
      <4> QED BY <4>1 DEF IInv, QueueInv
    <3>3. \A t \in Threads : t \in unasked /\ pc[t] = "native" => ~Forgotten(t)'
      BY <3>1 DEF IInv, ObjectInv
    <3>4. pc' = pc /\ inv' = inv /\ m_cond' = m_cond /\ unasked' = unasked /\ served' = served
          /\ m_mutex' = m_mutex /\ current' = Head(g_queue)
      BY <1>17 DEF WatcherPop
    <3>5. \A t \in Threads : pc[t] \in Returned /\ t \notin unasked => current' # t
      BY <3>2, <3>4
    <3> QED
      BY <3>3, <3>4, <3>5 DEF IInv, ObjectInv
  <2>4. QueueInv'
    BY <1>17 DEF WatcherPop, IInv, TypeOK, MutexInv, ObjectInv, QueueInv, ServingInv
  <2>5. ServingInv'
    BY <1>17 DEF WatcherPop, IInv, TypeOK, MutexInv, ObjectInv, QueueInv, ServingInv
  <2>6. QED BY <2>1, <2>2, <2>3, <2>4, <2>5 DEF IInv
<1>18. ASSUME DispatchToV8 PROVE IInv'
  <2>1. TypeOK'
    BY <1>18 DEF DispatchToV8, IInv, TypeOK, MutexInv, ObjectInv, QueueInv, ServingInv
  <2>2. MutexInv'
    BY <1>18 DEF DispatchToV8, IInv, TypeOK, MutexInv, ObjectInv, QueueInv, ServingInv
  <2>3. ObjectInv'
    BY <1>18 DEF DispatchToV8, IInv, TypeOK, MutexInv, ObjectInv, QueueInv, ServingInv
  <2>4. QueueInv'
    BY <1>18 DEF DispatchToV8, IInv, TypeOK, MutexInv, ObjectInv, QueueInv, ServingInv
  <2>5. ServingInv'
    BY <1>18 DEF DispatchToV8, IInv, TypeOK, MutexInv, ObjectInv, QueueInv, ServingInv
  <2>6. QED BY <2>1, <2>2, <2>3, <2>4, <2>5 DEF IInv
<1>19. ASSUME SignalLock PROVE IInv'
  <2>1. TypeOK'
    BY <1>19 DEF SignalLock, IInv, TypeOK, MutexInv, ObjectInv, QueueInv, ServingInv
  <2>2. MutexInv'
    BY <1>19 DEF SignalLock, IInv, TypeOK, MutexInv, ObjectInv, QueueInv, ServingInv
  <2>3. ObjectInv'
    BY <1>19 DEF SignalLock, IInv, TypeOK, MutexInv, ObjectInv, QueueInv, ServingInv
  <2>4. QueueInv'
    BY <1>19 DEF SignalLock, IInv, TypeOK, MutexInv, ObjectInv, QueueInv, ServingInv
  <2>5. ServingInv'
    BY <1>19 DEF SignalLock, IInv, TypeOK, MutexInv, ObjectInv, QueueInv, ServingInv
  <2>6. QED BY <2>1, <2>2, <2>3, <2>4, <2>5 DEF IInv
<1>20. ASSUME SignalCond PROVE IInv'
  <2>1. TypeOK'
    BY <1>20 DEF SignalCond, IInv, TypeOK, MutexInv, ObjectInv, QueueInv, ServingInv
  <2>2. MutexInv'
    BY <1>20 DEF SignalCond, IInv, TypeOK, MutexInv, ObjectInv, QueueInv, ServingInv
  <2>3. ObjectInv'
    BY <1>20 DEF SignalCond, IInv, TypeOK, MutexInv, ObjectInv, QueueInv, ServingInv
  <2>4. QueueInv'
    BY <1>20 DEF SignalCond, IInv, TypeOK, MutexInv, ObjectInv, QueueInv, ServingInv
  <2>5. ServingInv'
    BY <1>20 DEF SignalCond, IInv, TypeOK, MutexInv, ObjectInv, QueueInv, ServingInv
  <2>6. QED BY <2>1, <2>2, <2>3, <2>4, <2>5 DEF IInv
<1>21. ASSUME SignalUnlock PROVE IInv'
  <2>1. TypeOK'
    BY <1>21 DEF SignalUnlock, IInv, TypeOK, MutexInv, ObjectInv, QueueInv, ServingInv
  <2>2. MutexInv'
    BY <1>21 DEF SignalUnlock, IInv, TypeOK, MutexInv, ObjectInv, QueueInv, ServingInv
  <2>3. ObjectInv'
    BY <1>21 DEF SignalUnlock, IInv, TypeOK, MutexInv, ObjectInv, QueueInv, ServingInv
  <2>4. QueueInv'
    BY <1>21 DEF SignalUnlock, IInv, TypeOK, MutexInv, ObjectInv, QueueInv, ServingInv
  <2>5. ServingInv'
    BY <1>21 DEF SignalUnlock, IInv, TypeOK, MutexInv, ObjectInv, QueueInv, ServingInv
  <2>6. QED BY <2>1, <2>2, <2>3, <2>4, <2>5 DEF IInv
<1>22. ASSUME TouchDeleted PROVE IInv'
  <2>1. TypeOK'
    BY <1>22 DEF TouchDeleted, IInv, TypeOK, MutexInv, ObjectInv, QueueInv, ServingInv
  <2>2. MutexInv'
    BY <1>22 DEF TouchDeleted, IInv, TypeOK, MutexInv, ObjectInv, QueueInv, ServingInv
  <2>3. ObjectInv'
    BY <1>22 DEF TouchDeleted, IInv, TypeOK, MutexInv, ObjectInv, QueueInv, ServingInv
  <2>4. QueueInv'
    BY <1>22 DEF TouchDeleted, IInv, TypeOK, MutexInv, ObjectInv, QueueInv, ServingInv
  <2>5. ServingInv'
    BY <1>22 DEF TouchDeleted, IInv, TypeOK, MutexInv, ObjectInv, QueueInv, ServingInv
  <2>6. QED BY <2>1, <2>2, <2>3, <2>4, <2>5 DEF IInv
<1>23. ASSUME WatcherUnlock PROVE IInv'
  <2>1. TypeOK'
    BY <1>23 DEF WatcherUnlock, IInv, TypeOK, MutexInv, ObjectInv, QueueInv, ServingInv
  <2>2. MutexInv'
    BY <1>23 DEF WatcherUnlock, IInv, TypeOK, MutexInv, ObjectInv, QueueInv, ServingInv
  <2>3. ObjectInv'
    BY <1>23 DEF WatcherUnlock, IInv, TypeOK, MutexInv, ObjectInv, QueueInv, ServingInv
  <2>4. QueueInv'
    BY <1>23 DEF WatcherUnlock, IInv, TypeOK, MutexInv, ObjectInv, QueueInv, ServingInv
  <2>5. ServingInv'
    BY <1>23 DEF WatcherUnlock, IInv, TypeOK, MutexInv, ObjectInv, QueueInv, ServingInv
  <2>6. QED BY <2>1, <2>2, <2>3, <2>4, <2>5 DEF IInv
<1>24. CASE UNCHANGED vars
  BY <1>24 DEF vars, IInv, TypeOK, MutexInv, ObjectInv, QueueInv, ServingInv
<1> QED
  BY <1>1, <1>2, <1>3, <1>4, <1>5, <1>6, <1>7, <1>8, <1>9, <1>10, <1>11,
     <1>12, <1>13, <1>14, <1>15, <1>16, <1>17, <1>18, <1>19, <1>20, <1>21,
     <1>22, <1>23, <1>24
  DEF Next, InvokeStep, WatcherCallback

LEMMA Invariance == Spec => []IInv
  BY InitIInv, StepIInv, PTL DEF Spec

-----------------------------------------------------------------------------

\* The hand-shake keeps its types, and only an allocated invocation has a mutex
\* that somebody owns.
THEOREM TypeCorrect == Spec => []TypeOK
<1>1. IInv => TypeOK
  BY DEF IInv
<1> QED
  BY Invariance, <1>1, PTL

\* Whichever waits return unasked, WatcherCallback never works on, and g_queue
\* never holds, the deleted invocation of another thread, and the destructor of
\* another never destroys the mutex that SignalDoneExecuting holds.
THEOREM MemorySafety == Spec => []NoUseAfterFree
<1>1. IInv => NoUseAfterFree
  BY ThreadsAssumption
  DEF IInv, TypeOK, MutexInv, ObjectInv, QueueInv, ServingInv, NoUseAfterFree, Serving,
      Pushed, Outside, HoldsOwn, Returned
<1> QED
  BY Invariance, <1>1, PTL

\* SignalDoneExecuting finds its waiter asleep on the condition, unless that
\* has woken up unasked.
THEOREM NoSignalIsLost == Spec => []SignalFindsWaiter
<1>1. IInv => SignalFindsWaiter
  BY DEF IInv, ServingInv, SignalFindsWaiter
<1> QED
  BY Invariance, <1>1, PTL

\* Invoke returns to its native caller only after DispatchToV8 ran for it,
\* unless its own wait returned unasked.
THEOREM ReturnsServed == Spec => []ReturnsAfterDispatch
<1>1. IInv => ReturnsAfterDispatch
  BY DEF IInv, ObjectInv, Returned, ReturnsAfterDispatch
<1> QED
  BY Invariance, <1>1, PTL

\* No invocation is dispatched twice.
THEOREM DispatchesOnce == Spec => []DispatchedOnce
<1>1. IInv => DispatchedOnce
  BY DEF IInv, ServingInv, Serving, DispatchedOnce
<1> QED
  BY Invariance, <1>1, PTL

\* No wait has returned unasked, and no step has met a deleted invocation.
NothingUndefined == main_pc # "undefined" /\ unasked = {}

\* Where no wait returns without a signal, none of the exceptions is left: the
\* main thread never touches an invocation that Invoke has deleted.
THEOREM DefinedWhereSignalled ==
  ASSUME Restless = {}
  PROVE  Spec => []NothingUndefined
<1>1. Init => NothingUndefined
  BY DEF Init, NothingUndefined
<1>2. IInv /\ IInv' /\ NothingUndefined /\ [Next]_vars => NothingUndefined'
  <2> SUFFICES ASSUME unasked = {}, IInv', [Next]_vars PROVE NothingUndefined'
    BY DEF NothingUndefined
  <2> SUFFICES unasked' = {}
    BY DEF NothingUndefined, IInv, ServingInv
  <2> USE DEF invokeVars
  <2>1. ASSUME NEW t \in Threads, Invoke(t) \/ InvokeStep(t) \/ WakeUpUnasked(t)
        PROVE  unasked' = {}
    BY <2>1 DEF Invoke, InvokeStep, UvRefTest, UvRefSet, NewInvokation, LockQueue, PushUnlock,
                AsyncSend, WaitForExecution, WakeUp, WakeUpUnasked, UvUnrefTest, UvUnrefClear,
                DeleteInvokation, FreeInvokation
  <2>2. CASE RunAsyncCallback \/ WatcherCallback
    BY <2>2 DEF RunAsyncCallback, WatcherCallback, WatcherLock, WatcherPop, DispatchToV8,
                SignalLock, SignalCond, SignalUnlock, TouchDeleted, WatcherUnlock
  <2>3. CASE UNCHANGED vars
    BY <2>3 DEF vars
  <2> QED BY <2>1, <2>2, <2>3 DEF Next
<1> QED
  BY Invariance, <1>1, <1>2, PTL DEF Spec

\* The queue is never left without a wakeup: between a push and its send the
\* pushing thread covers for it, and the main thread empties the queue before
\* it goes back to the loop.
LEMMA StepNoLostWakeup ==
  ASSUME IInv, NoLostWakeup, [Next]_vars
  PROVE  NoLostWakeup'
<1> USE DEF GoTo, MainGoTo, invokeVars, queueVars, watcherVars, refVars
<1>0. g_queue \in Seq(Threads) /\ pc \in [Threads -> InvokePC] /\ async_pending \in BOOLEAN
  BY DEF IInv, TypeOK
<1>1. ASSUME NEW t \in Threads, PushUnlock(t) PROVE NoLostWakeup'
  <2>1. g_queue' = Append(g_queue, t) /\ pc'[t] = "send"
    BY <1>0, <1>1 DEF PushUnlock
  <2>2. Len(g_queue) + 1 \in 1 .. Len(g_queue') /\ g_queue'[Len(g_queue) + 1] = t
    BY <1>0, <2>1
  <2> QED BY <2>1, <2>2 DEF NoLostWakeup
<1>2. ASSUME NEW t \in Threads, AsyncSend(t) PROVE NoLostWakeup'
  <2>1. async_pending' BY <1>2 DEF AsyncSend
  <2> QED BY <2>1 DEF NoLostWakeup
<1>3. ASSUME NEW t \in Threads, NEW from, NEW to,
             from # "send", pc[t] = from, pc' = [pc EXCEPT ![t] = to],
             UNCHANGED <<g_queue, async_pending, main_pc>>
      PROVE  NoLostWakeup'
  <2>1. \A u \in Threads : pc[u] = "send" => pc'[u] = "send" BY <1>0, <1>3
  <2>2. \A i \in 1 .. Len(g_queue) : g_queue[i] \in Threads BY <1>0
  <2> QED BY <1>3, <2>1, <2>2 DEF NoLostWakeup
<1>4. ASSUME main_pc' # "loop" \/ g_queue' = <<>> PROVE NoLostWakeup'
  BY <1>4 DEF NoLostWakeup
<1>5. ASSUME UNCHANGED <<pc, g_queue, async_pending, main_pc>> PROVE NoLostWakeup'
  BY <1>5 DEF NoLostWakeup
<1>6. ASSUME NEW t \in Threads, Invoke(t) \/ InvokeStep(t) \/ WakeUpUnasked(t)
      PROVE  NoLostWakeup'
  <2>1. CASE Invoke(t) \/ UvRefTest(t) \/ UvRefSet(t) \/ NewInvokation(t) \/ LockQueue(t)
    BY <2>1, <1>3 DEF Invoke, UvRefTest, UvRefSet, NewInvokation, LockQueue
  <2>2. CASE WaitForExecution(t) \/ WakeUp(t) \/ WakeUpUnasked(t) \/ UvUnrefTest(t)
               \/ UvUnrefClear(t) \/ DeleteInvokation(t) \/ FreeInvokation(t)
    BY <2>2, <1>3 DEF WaitForExecution, WakeUp, WakeUpUnasked, UvUnrefTest, UvUnrefClear,
                      DeleteInvokation, FreeInvokation
  <2> QED BY <1>1, <1>2, <1>6, <2>1, <2>2 DEF InvokeStep
<1>7. CASE RunAsyncCallback \/ WatcherCallback
  BY <1>4, <1>7 DEF WatcherCallback, RunAsyncCallback, WatcherLock, WatcherPop, DispatchToV8,
                    SignalLock, SignalCond, SignalUnlock, TouchDeleted, WatcherUnlock
<1>8. CASE UNCHANGED vars
  BY <1>5, <1>8 DEF vars
<1> QED BY <1>6, <1>7, <1>8 DEF Next

\* uv_async_send coalesces, and still no queued invocation is forgotten.
THEOREM WakeupsSuffice == Spec => []NoLostWakeup
<1>1. Init => NoLostWakeup
  BY DEF Init, NoLostWakeup
<1>2. IInv /\ NoLostWakeup /\ [Next]_vars => NoLostWakeup'
  BY StepNoLostWakeup
<1> QED
  BY Invariance, <1>1, <1>2, PTL DEF Spec

-----------------------------------------------------------------------------
(***************************************************************************)
(* FFICallbacks implements CallbackCall: Invoke starts an abstract call,   *)
(* WatcherPop starts its JavaScript, DispatchToV8 finishes it, and the     *)
(* deletion of the invocation is the return; a wait that returns unasked   *)
(* before DispatchToV8 abandons it.  All other steps stutter.              *)
(***************************************************************************)

LEMMA InitCall == Init => Call!Init
<1> SUFFICES ASSUME Init PROVE Call!Init
  OBVIOUS
<1>1. CallState = [t \in Threads |-> "idle"]
  BY DEF Init, CallState
<1>2. CallRunning = {}
  BY DEF Init, CallRunning
<1> QED
  BY <1>1, <1>2 DEF Call!Init

LEMMA StepCall == IInv /\ [Next]_vars => [Call!Next]_(Call!vars)
<1> SUFFICES ASSUME IInv, [Next]_vars PROVE [Call!Next]_(Call!vars)
  OBVIOUS
<1> USE ThreadsAssumption
<1> USE DEF Outside, Pushed, GoTo, MainGoTo, invokeVars, queueVars, watcherVars, refVars,
            CallState, CallRunning, Forgotten
<1>1. ASSUME NEW t \in Threads, Invoke(t) PROVE [Call!Next]_(Call!vars)
  <2>a. pc[t] = "native" /\ pc' = [pc EXCEPT ![t] = "uv_ref"] /\ ~inv[t] /\ t \notin unasked
    BY <1>1 DEF Invoke, IInv, TypeOK, ObjectInv
  <2>b. inv' = inv /\ served' = served /\ unasked' = unasked /\ main_pc' = main_pc
        /\ current' = current
    BY <1>1 DEF Invoke
  <2>c. CallState' = [CallState EXCEPT ![t] = "called"]
    BY <2>a, <2>b DEF IInv, TypeOK
  <2>d. CallState[t] = "idle" /\ CallRunning' = CallRunning
    BY <2>a, <2>b
  <2>1. Call!Call(t)
    BY <2>c, <2>d, Zenon DEF Call!Call
  <2> QED BY <2>1 DEF Call!Next
<1>2. ASSUME NEW t \in Threads, UvRefTest(t) PROVE [Call!Next]_(Call!vars)
  <2>1. CallState' = CallState /\ CallRunning' = CallRunning
    BY <1>2 DEF UvRefTest, IInv, TypeOK, ObjectInv, QueueInv, ServingInv, Serving
  <2> QED BY <2>1 DEF Call!vars
<1>3. ASSUME NEW t \in Threads, UvRefSet(t) PROVE [Call!Next]_(Call!vars)
  <2>1. CallState' = CallState /\ CallRunning' = CallRunning
    BY <1>3 DEF UvRefSet, IInv, TypeOK, ObjectInv, QueueInv, ServingInv, Serving
  <2> QED BY <2>1 DEF Call!vars
<1>4. ASSUME NEW t \in Threads, NewInvokation(t) PROVE [Call!Next]_(Call!vars)
  <2>a. pc[t] = "new" /\ ~inv[t] /\ pc' = [pc EXCEPT ![t] = "lock"]
        /\ inv' = [inv EXCEPT ![t] = TRUE] /\ served' = [served EXCEPT ![t] = FALSE]
        /\ unasked' = unasked /\ main_pc' = main_pc /\ current' = current
    BY <1>4 DEF NewInvokation, IInv, TypeOK, ObjectInv
  <2>b. CallState' = CallState
    BY <2>a DEF IInv, TypeOK
  <2>c. main_pc = "js" => current # t
    BY <2>a DEF IInv, ObjectInv, ServingInv, Serving, Returned
  <2>1. CallRunning' = CallRunning
    BY <2>a, <2>c DEF IInv, TypeOK, ServingInv, Serving
  <2> QED BY <2>b, <2>1 DEF Call!vars
<1>5. ASSUME NEW t \in Threads, LockQueue(t) PROVE [Call!Next]_(Call!vars)
  <2>1. CallState' = CallState /\ CallRunning' = CallRunning
    BY <1>5 DEF LockQueue, IInv, TypeOK, ObjectInv, QueueInv, ServingInv, Serving
  <2> QED BY <2>1 DEF Call!vars
<1>6. ASSUME NEW t \in Threads, PushUnlock(t) PROVE [Call!Next]_(Call!vars)
  <2>1. CallState' = CallState /\ CallRunning' = CallRunning
    BY <1>6 DEF PushUnlock, IInv, TypeOK, ObjectInv, QueueInv, ServingInv, Serving
  <2> QED BY <2>1 DEF Call!vars
<1>7. ASSUME NEW t \in Threads, AsyncSend(t) PROVE [Call!Next]_(Call!vars)
  <2>1. CallState' = CallState /\ CallRunning' = CallRunning
    BY <1>7 DEF AsyncSend, IInv, TypeOK, ObjectInv, QueueInv, ServingInv, Serving
  <2> QED BY <2>1 DEF Call!vars
<1>8. ASSUME NEW t \in Threads, WaitForExecution(t) PROVE [Call!Next]_(Call!vars)
  <2>1. CallState' = CallState /\ CallRunning' = CallRunning
    BY <1>8 DEF WaitForExecution, IInv, TypeOK, ObjectInv, QueueInv, ServingInv, Serving
  <2> QED BY <2>1 DEF Call!vars
<1>9. ASSUME NEW t \in Threads, WakeUp(t) PROVE [Call!Next]_(Call!vars)
  <2>1. CallState' = CallState /\ CallRunning' = CallRunning
    BY <1>9 DEF WakeUp, IInv, TypeOK, ObjectInv, QueueInv, ServingInv, Serving
  <2> QED BY <2>1 DEF Call!vars
<1>10. ASSUME NEW t \in Threads, WakeUpUnasked(t) PROVE [Call!Next]_(Call!vars)
  <2>a. pc[t] = "blocked" /\ pc' = [pc EXCEPT ![t] = "uv_unref"] /\ inv[t] /\ t \notin unasked
        /\ unasked' = unasked \cup {t} /\ t \in Restless
    BY <1>10 DEF WakeUpUnasked, IInv, TypeOK, ObjectInv, Returned
  <2>b. inv' = inv /\ served' = served /\ main_pc' = main_pc /\ current' = current
    BY <1>10 DEF WakeUpUnasked
  <2>c. CallRunning' = CallRunning
    BY <2>b
  <2>1. CASE served[t]
    <3>1. CallState' = CallState
      BY <2>a, <2>b, <2>1 DEF IInv, TypeOK
    <3> QED BY <2>c, <3>1 DEF Call!vars
  <2>2. CASE ~served[t]
    <3>1. CallState' = [CallState EXCEPT ![t] = "abandoned"]
      BY <2>a, <2>b, <2>2 DEF IInv, TypeOK
    <3>2. CallState[t] = "called"
      BY <2>a, <2>2
    <3>3. Call!Abandon(t)
      BY <2>a, <2>c, <3>1, <3>2, Zenon DEF Call!Abandon
    <3> QED BY <3>3 DEF Call!Next
  <2> QED BY <2>1, <2>2
<1>11. ASSUME NEW t \in Threads, UvUnrefTest(t) PROVE [Call!Next]_(Call!vars)
  <2>1. CallState' = CallState /\ CallRunning' = CallRunning
    BY <1>11 DEF UvUnrefTest, IInv, TypeOK, ObjectInv, QueueInv, ServingInv, Serving
  <2> QED BY <2>1 DEF Call!vars
<1>12. ASSUME NEW t \in Threads, UvUnrefClear(t) PROVE [Call!Next]_(Call!vars)
  <2>1. CallState' = CallState /\ CallRunning' = CallRunning
    BY <1>12 DEF UvUnrefClear, IInv, TypeOK, ObjectInv, QueueInv, ServingInv, Serving
  <2> QED BY <2>1 DEF Call!vars
<1>13. ASSUME NEW t \in Threads, DeleteInvokation(t) PROVE [Call!Next]_(Call!vars)
  <2>1. CallState' = CallState /\ CallRunning' = CallRunning
    BY <1>13 DEF DeleteInvokation, IInv, TypeOK, ObjectInv, QueueInv, ServingInv, Serving
  <2> QED BY <2>1 DEF Call!vars
<1>14. ASSUME NEW t \in Threads, FreeInvokation(t) PROVE [Call!Next]_(Call!vars)
  <2>a. pc[t] = "free" /\ pc' = [pc EXCEPT ![t] = "native"] /\ inv[t]
        /\ inv' = [inv EXCEPT ![t] = FALSE] /\ served' = served
        /\ unasked' \in {unasked, unasked \ {t}}
        /\ main_pc' = main_pc /\ current' = current
    BY <1>14 DEF FreeInvokation, IInv, TypeOK, ObjectInv
  <2>b. CallState[t] \in {"done", "abandoned"}
    BY <2>a DEF IInv, ObjectInv, Returned
  <2>c. CallState' = [CallState EXCEPT ![t] = "idle"]
    BY <2>a DEF IInv, TypeOK
  <2>d. CallRunning' = CallRunning \ {t}
    BY <2>a DEF IInv, TypeOK, ServingInv, Serving
  <2>1. Call!Return(t)
    BY <2>b, <2>c, <2>d, Zenon DEF Call!Return
  <2> QED BY <2>1 DEF Call!Next
<1>15. ASSUME RunAsyncCallback PROVE [Call!Next]_(Call!vars)
  <2>1. CallState' = CallState /\ CallRunning' = CallRunning
    BY <1>15 DEF RunAsyncCallback, IInv, TypeOK, ObjectInv, QueueInv, ServingInv, Serving
  <2> QED BY <2>1 DEF Call!vars
<1>16. ASSUME WatcherLock PROVE [Call!Next]_(Call!vars)
  <2>1. CallState' = CallState /\ CallRunning' = CallRunning
    BY <1>16 DEF WatcherLock, IInv, TypeOK, ObjectInv, QueueInv, ServingInv, Serving
  <2> QED BY <2>1 DEF Call!vars
<1>17. ASSUME WatcherPop PROVE [Call!Next]_(Call!vars)
  <2>1. Head(g_queue) \in Threads /\ g_queue[1] = Head(g_queue) /\ 1 \in 1 .. Len(g_queue)
    BY <1>17 DEF WatcherPop, IInv, TypeOK
  <2>2. CASE inv[Head(g_queue)]
    <3>1. Call!Start(Head(g_queue))
      BY <1>17, <2>1, <2>2 DEF WatcherPop, IInv, TypeOK, ObjectInv, QueueInv, ServingInv, Serving,
                            Call!Start
    <3> QED BY <2>1, <3>1 DEF Call!Next
  <2>3. CASE ~inv[Head(g_queue)]
    <3>1. CallState' = CallState /\ CallRunning' = CallRunning
      BY <1>17, <2>3 DEF WatcherPop
    <3> QED BY <3>1 DEF Call!vars
  <2> QED BY <2>2, <2>3
<1>18. ASSUME DispatchToV8 PROVE [Call!Next]_(Call!vars)
  <2>0. current \in Threads
    BY <1>18 DEF DispatchToV8, IInv, ServingInv, Serving
  <2>1. PICK c \in Threads : c = current
    BY <2>0
  <2>a. pc' = pc /\ inv' = inv /\ served' = [served EXCEPT ![c] = TRUE] /\ unasked' = unasked
    BY <1>18, <2>1 DEF DispatchToV8
  <2>b. inv[c] /\ pc[c] # "native"
    BY <1>18, <2>1 DEF DispatchToV8, IInv, ObjectInv, ServingInv, Serving
  <2>c. CallState' = [CallState EXCEPT ![c] = "done"]
    BY <2>1, <2>a, <2>b DEF IInv, TypeOK
  <2>d. CallRunning = {c} /\ CallRunning' = {}
    BY <1>18, <2>1 DEF DispatchToV8
  <2>2. Call!Finish(c)
    <3>1. c \in CallRunning /\ CallRunning' = CallRunning \ {c}
      BY <2>d, Zenon
    <3> QED BY <2>c, <3>1, Zenon DEF Call!Finish
  <2> QED BY <2>2 DEF Call!Next
<1>19. ASSUME SignalLock PROVE [Call!Next]_(Call!vars)
  <2>1. CallState' = CallState /\ CallRunning' = CallRunning
    BY <1>19 DEF SignalLock, IInv, TypeOK, ObjectInv, QueueInv, ServingInv, Serving
  <2> QED BY <2>1 DEF Call!vars
<1>20. ASSUME SignalCond PROVE [Call!Next]_(Call!vars)
  <2>1. CallState' = CallState /\ CallRunning' = CallRunning
    BY <1>20 DEF SignalCond, IInv, TypeOK, ObjectInv, QueueInv, ServingInv, Serving
  <2> QED BY <2>1 DEF Call!vars
<1>21. ASSUME SignalUnlock PROVE [Call!Next]_(Call!vars)
  <2>1. CallState' = CallState /\ CallRunning' = CallRunning
    BY <1>21 DEF SignalUnlock, IInv, TypeOK, ObjectInv, QueueInv, ServingInv, Serving
  <2> QED BY <2>1 DEF Call!vars
<1>22. ASSUME TouchDeleted PROVE [Call!Next]_(Call!vars)
  <2>1. CallState' = CallState /\ CallRunning' = CallRunning
    BY <1>22 DEF TouchDeleted, IInv, TypeOK, ObjectInv, QueueInv, ServingInv, Serving
  <2> QED BY <2>1 DEF Call!vars
<1>23. ASSUME WatcherUnlock PROVE [Call!Next]_(Call!vars)
  <2>1. CallState' = CallState /\ CallRunning' = CallRunning
    BY <1>23 DEF WatcherUnlock, IInv, TypeOK, ObjectInv, QueueInv, ServingInv, Serving
  <2> QED BY <2>1 DEF Call!vars
<1>24. CASE UNCHANGED vars
  BY <1>24 DEF vars, Call!vars
<1> QED
  BY <1>1, <1>2, <1>3, <1>4, <1>5, <1>6, <1>7, <1>8, <1>9, <1>10, <1>11,
     <1>12, <1>13, <1>14, <1>15, <1>16, <1>17, <1>18, <1>19, <1>20, <1>21,
     <1>22, <1>23, <1>24
  DEF Next, InvokeStep, WatcherCallback

\* Every call of a native thread gets exactly one run of the JavaScript
\* function, one at a time, before it returns, unless it is abandoned by a wait
\* that returned unasked: CallbackInfo and ThreadedCallbackInvokation implement
\* CallbackCall.
THEOREM Refinement == Spec => CallSpec
  BY Invariance, InitCall, StepCall, PTL DEF Spec, CallSpec, Call!Spec

-----------------------------------------------------------------------------
(***************************************************************************)
(* The hand-over between the watcher thread and the main thread, for any   *)
(* timeouts of the loop, with or without the poke of OS X.                 *)
(***************************************************************************)

\* Where the token of OneToken is.
Watching == watcher \in {"start", "poll", "dispatch", "exited"}
Turning == main \in {"pump", "emit", "post"}

TokenInv ==
  /\ Watching => blocks = 0 /\ embed_sem = 0 /\ ~Turning
  /\ Turning => blocks = 0 /\ embed_sem = 0
  /\ ~Watching /\ ~Turning => blocks + embed_sem = 1

\* A dead loop that has been polled without a wait is marked for a stretched
\* poll as soon as its turn is over.
SpinInv ==
  /\ idle_polls <= 1
  /\ idle_polls = 1 => \/ uv_trip_timer_safety
                       \/ watcher \in {"poll", "dispatch"}
                       \/ blocks = 1
                       \/ main \in {"pump", "emit"}

EmbedInv == EmbedTypeOK /\ TokenInv /\ SpinInv

-----------------------------------------------------------------------------

\* Whatever the loop asks for, uv_event polls for at most a quarter of a second.
LEMMA PollTimeoutBounded ==
  ASSUME NEW t \in Int, t >= -1, NEW trip \in BOOLEAN
  PROVE  PollTimeout(t, trip) \in 0 .. 250
  BY DEF PollTimeout

\* What uv_backend_timeout answers is a number of milliseconds or -1.
LEMMA TimeoutRange ==
  ASSUME NEW t, t \in Timeouts \/ t = 0
  PROVE  t \in Int /\ t >= -1
  BY TimeoutsAssumption

LEMMA InitEmbedInv == EmbedInit => EmbedInv
<1> SUFFICES ASSUME EmbedInit PROVE EmbedInv
  OBVIOUS
<1>1. EmbedTypeOK
  <2>1. alive \in BOOLEAN /\ uv_trip_timer_safety \in BOOLEAN /\ embed_closed \in BOOLEAN
        /\ readable \in BOOLEAN /\ poked \in BOOLEAN
    BY Zenon DEF EmbedInit
  <2>2. timeout \in 0 .. 250 /\ embed_sem \in 0 .. 1 /\ blocks \in 0 .. 1 /\ idle_polls \in Nat
    BY DEF EmbedInit
  <2> QED
    BY <2>1, <2>2 DEF EmbedInit, EmbedTypeOK
<1>2. TokenInv /\ SpinInv
  BY DEF EmbedInit, TokenInv, SpinInv, Watching, Turning
<1> QED
  BY <1>1, <1>2 DEF EmbedInv

LEMMA StepEmbedInv == EmbedInv /\ [EmbedNext]_embedVars => EmbedInv'
<1> SUFFICES ASSUME EmbedInv, [EmbedNext]_embedVars PROVE EmbedInv'
  OBVIOUS
<1> USE DEF Watching, Turning, LoopChanges, pollVars, handoffVars, loopVars
<1>1. CASE WatcherStart
  <2>0. PICK t \in IF main = "ui" THEN Timeouts \cup {0} ELSE {BackendTimeout} :
          /\ timeout' = PollTimeout(t, uv_trip_timer_safety)
          /\ uv_trip_timer_safety' = (uv_trip_timer_safety /\ t # 0)
    BY <1>1 DEF WatcherStart
  <2>1. t \in Int /\ t >= -1
    <3>1. due \in Timeouts
      BY DEF EmbedInv, EmbedTypeOK
    <3>2. t \in Timeouts \/ t = 0
      BY <2>0, <3>1 DEF BackendTimeout
    <3> QED
      BY <3>2, TimeoutRange
  <2>2. timeout' \in 0 .. 250
    BY <2>0, <2>1, PollTimeoutBounded DEF EmbedInv, EmbedTypeOK
  <2>3. uv_trip_timer_safety' \in BOOLEAN
    BY <2>0, Zenon
  <2>4. idle_polls' \in Nat
    BY <1>1 DEF WatcherStart, EmbedInv, EmbedTypeOK
  <2>5. EmbedTypeOK'
    BY <1>1, <2>2, <2>3, <2>4 DEF WatcherStart, EmbedInv, EmbedTypeOK
  <2>6. TokenInv'
    BY <1>1 DEF WatcherStart, EmbedInv, EmbedTypeOK, TokenInv
  <2>7. timeout' = 0 => ~uv_trip_timer_safety
    BY <2>0, <2>1 DEF PollTimeout
  <2>9. SpinInv'
    \* A second poll without a wait would need a turn that left no mark.
    <3>1. idle_polls = 1 /\ watcher = "start" => uv_trip_timer_safety
      BY DEF EmbedInv, EmbedTypeOK, TokenInv, SpinInv
    <3> QED
      BY <1>1, <2>4, <2>7, <3>1 DEF WatcherStart, EmbedInv, EmbedTypeOK, TokenInv, SpinInv
  <2> QED BY <2>5, <2>6, <2>9 DEF EmbedInv
<1>2. CASE WatcherPollReturns
  <2>1. EmbedTypeOK'
    BY <1>2 DEF WatcherPollReturns, EmbedInv, EmbedTypeOK, TokenInv, SpinInv
  <2>2. TokenInv'
    BY <1>2 DEF WatcherPollReturns, EmbedInv, EmbedTypeOK, TokenInv, SpinInv
  <2>3. SpinInv'
    BY <1>2 DEF WatcherPollReturns, EmbedInv, EmbedTypeOK, TokenInv, SpinInv
  <2> QED BY <2>1, <2>2, <2>3 DEF EmbedInv
<1>3. CASE WatcherDispatch
  <2>1. EmbedTypeOK'
    BY <1>3 DEF WatcherDispatch, EmbedInv, EmbedTypeOK, TokenInv, SpinInv
  <2>2. TokenInv'
    BY <1>3 DEF WatcherDispatch, EmbedInv, EmbedTypeOK, TokenInv, SpinInv
  <2>3. SpinInv'
    BY <1>3 DEF WatcherDispatch, EmbedInv, EmbedTypeOK, TokenInv, SpinInv
  <2> QED BY <2>1, <2>2, <2>3 DEF EmbedInv
<1>4. CASE WatcherWait
  <2>1. EmbedTypeOK'
    BY <1>4 DEF WatcherWait, EmbedInv, EmbedTypeOK, TokenInv, SpinInv
  <2>2. TokenInv'
    BY <1>4 DEF WatcherWait, EmbedInv, EmbedTypeOK, TokenInv, SpinInv
  <2>3. SpinInv'
    BY <1>4 DEF WatcherWait, EmbedInv, EmbedTypeOK, TokenInv, SpinInv
  <2> QED BY <2>1, <2>2, <2>3 DEF EmbedInv
<1>5. CASE WatcherExits
  <2>1. EmbedTypeOK'
    BY <1>5 DEF WatcherExits, EmbedInv, EmbedTypeOK, TokenInv, SpinInv
  <2>2. TokenInv'
    BY <1>5 DEF WatcherExits, EmbedInv, EmbedTypeOK, TokenInv, SpinInv
  <2>3. SpinInv'
    BY <1>5 DEF WatcherExits, EmbedInv, EmbedTypeOK, TokenInv, SpinInv
  <2> QED BY <2>1, <2>2, <2>3 DEF EmbedInv
<1>6. CASE PumpStarts
  <2>1. EmbedTypeOK'
    BY <1>6 DEF PumpStarts, EmbedInv, EmbedTypeOK, TokenInv, SpinInv
  <2>2. TokenInv'
    BY <1>6 DEF PumpStarts, EmbedInv, EmbedTypeOK, TokenInv, SpinInv
  <2>3. SpinInv'
    BY <1>6 DEF PumpStarts, EmbedInv, EmbedTypeOK, TokenInv, SpinInv
  <2> QED BY <2>1, <2>2, <2>3 DEF EmbedInv
<1>7. CASE PumpRuns
  <2>1. EmbedTypeOK'
    BY <1>7 DEF PumpRuns, EmbedInv, EmbedTypeOK, TokenInv, SpinInv
  <2>2. TokenInv'
    BY <1>7 DEF PumpRuns, EmbedInv, EmbedTypeOK, TokenInv, SpinInv
  <2>3. SpinInv'
    BY <1>7 DEF PumpRuns, EmbedInv, EmbedTypeOK, TokenInv, SpinInv
  <2> QED BY <2>1, <2>2, <2>3 DEF EmbedInv
<1>8. CASE PumpEmit
  <2>1. EmbedTypeOK'
    BY <1>8 DEF PumpEmit, EmbedInv, EmbedTypeOK, TokenInv, SpinInv
  <2>2. TokenInv'
    BY <1>8 DEF PumpEmit, EmbedInv, EmbedTypeOK, TokenInv, SpinInv
  <2>3. SpinInv'
    BY <1>8 DEF PumpEmit, EmbedInv, EmbedTypeOK, TokenInv, SpinInv
  <2> QED BY <2>1, <2>2, <2>3 DEF EmbedInv
<1>9. CASE PumpPost
  <2>1. EmbedTypeOK'
    BY <1>9 DEF PumpPost, EmbedInv, EmbedTypeOK, TokenInv, SpinInv
  <2>2. TokenInv'
    BY <1>9 DEF PumpPost, EmbedInv, EmbedTypeOK, TokenInv, SpinInv
  <2>3. SpinInv'
    BY <1>9 DEF PumpPost, EmbedInv, EmbedTypeOK, TokenInv, SpinInv
  <2> QED BY <2>1, <2>2, <2>3 DEF EmbedInv
<1>10. CASE UiEventBegins
  <2>1. EmbedTypeOK'
    BY <1>10 DEF UiEventBegins, EmbedInv, EmbedTypeOK, TokenInv, SpinInv
  <2>2. TokenInv'
    BY <1>10 DEF UiEventBegins, EmbedInv, EmbedTypeOK, TokenInv, SpinInv
  <2>3. SpinInv'
    BY <1>10 DEF UiEventBegins, EmbedInv, EmbedTypeOK, TokenInv, SpinInv
  <2> QED BY <2>1, <2>2, <2>3 DEF EmbedInv
<1>11. CASE UiEventEnds
  <2>1. EmbedTypeOK'
    BY <1>11 DEF UiEventEnds, EmbedInv, EmbedTypeOK, TokenInv, SpinInv
  <2>2. TokenInv'
    BY <1>11 DEF UiEventEnds, EmbedInv, EmbedTypeOK, TokenInv, SpinInv
  <2>3. SpinInv'
    BY <1>11 DEF UiEventEnds, EmbedInv, EmbedTypeOK, TokenInv, SpinInv
  <2> QED BY <2>1, <2>2, <2>3 DEF EmbedInv
<1>12. CASE Terminates
  <2>1. EmbedTypeOK'
    BY <1>12 DEF Terminates, EmbedInv, EmbedTypeOK, TokenInv, SpinInv
  <2>2. TokenInv'
    BY <1>12 DEF Terminates, EmbedInv, EmbedTypeOK, TokenInv, SpinInv
  <2>3. SpinInv'
    BY <1>12 DEF Terminates, EmbedInv, EmbedTypeOK, TokenInv, SpinInv
  <2> QED BY <2>1, <2>2, <2>3 DEF EmbedInv
<1>13. CASE LastTurnEnds
  <2>1. EmbedTypeOK'
    BY <1>13 DEF LastTurnEnds, EmbedInv, EmbedTypeOK, TokenInv, SpinInv
  <2>2. TokenInv'
    BY <1>13 DEF LastTurnEnds, EmbedInv, EmbedTypeOK, TokenInv, SpinInv
  <2>3. SpinInv'
    BY <1>13 DEF LastTurnEnds, EmbedInv, EmbedTypeOK, TokenInv, SpinInv
  <2> QED BY <2>1, <2>2, <2>3 DEF EmbedInv
<1>14. CASE EventReady
  <2>1. EmbedTypeOK'
    BY <1>14 DEF EventReady, EmbedInv, EmbedTypeOK, TokenInv, SpinInv
  <2>2. TokenInv'
    BY <1>14 DEF EventReady, EmbedInv, EmbedTypeOK, TokenInv, SpinInv
  <2>3. SpinInv'
    BY <1>14 DEF EventReady, EmbedInv, EmbedTypeOK, TokenInv, SpinInv
  <2> QED BY <2>1, <2>2, <2>3 DEF EmbedInv
<1>15. CASE UNCHANGED embedVars
  BY <1>15 DEF embedVars, EmbedInv, EmbedTypeOK, TokenInv, SpinInv
<1> QED
  BY <1>1, <1>2, <1>3, <1>4, <1>5, <1>6, <1>7, <1>8, <1>9, <1>10, <1>11, <1>12, <1>13, <1>14, <1>15 DEF EmbedNext, Watcher, Pump

LEMMA EmbedInvariance == EmbedSpec => []EmbedInv
  BY InitEmbedInv, StepEmbedInv, PTL DEF EmbedSpec

-----------------------------------------------------------------------------

\* uv_event never blocks on the backend for more than a quarter of a second,
\* whatever timeout the loop asks for and whenever it is read.
THEOREM EmbedTypeCorrect == EmbedSpec => []EmbedTypeOK
<1>1. EmbedInv => EmbedTypeOK
  BY DEF EmbedInv
<1> QED
  BY <1>1, EmbedInvariance, PTL

\* The watcher is waiting on embed_sem whenever the main thread is inside uv_run
\* or EmitBeforeExit of a block that the watcher has dispatched.
THEOREM Exclusion == EmbedSpec => []TurnsExclusive
<1>1. EmbedInv => TurnsExclusive
  BY DEF EmbedInv, EmbedTypeOK, TokenInv, Watching, Turning, TurnsExclusive
<1> QED
  BY <1>1, EmbedInvariance, PTL

\* dispatch_async and embed_sem pass exactly one turn around.
THEOREM SingleToken == EmbedSpec => []OneToken
<1>1. EmbedInv => OneToken
  BY DEF EmbedInv, EmbedTypeOK, TokenInv, Watching, Turning, OneToken
<1> QED
  BY <1>1, EmbedInvariance, PTL

\* uv_trip_timer_safety stops the watcher from spinning on a dead loop.
THEOREM SpinsOnce == EmbedSpec => []NoBusySpin
<1>1. EmbedInv => NoBusySpin
  BY DEF EmbedInv, SpinInv, NoBusySpin
<1> QED
  BY <1>1, EmbedInvariance, PTL

\* A poll either began with the work in sight, or a user interface event that
\* brought the work has poked it; a turn that ends finds no poll under way.
LEMMA StepDueWork ==
  ASSUME Pokes, EmbedInv, DueWorkWakesWatcher, [EmbedNext]_embedVars
  PROVE  DueWorkWakesWatcher'
<1> USE DEF pollVars, handoffVars, loopVars, DueWorkWakesWatcher
<1>1. CASE WatcherStart
  <2>1. main = "idle" /\ alive /\ due = 0 => timeout' \in {0, 150}
    BY <1>1 DEF WatcherStart, BackendTimeout, PollTimeout
  <2> QED BY <1>1, <2>1 DEF WatcherStart
<1>2. CASE UiEventEnds
  <2>1. poked' BY <1>2, Zenon DEF UiEventEnds
  <2> QED BY <2>1
<1>3. CASE Pump
  <2>1. CASE PumpPost
    <3>1. watcher' # "poll"
      BY <2>1 DEF PumpPost, EmbedInv, TokenInv, Watching, Turning
    <3> QED BY <3>1
  <2> QED BY <1>3, <2>1 DEF Pump, PumpStarts, PumpRuns, PumpEmit
<1>4. CASE WatcherPollReturns \/ WatcherDispatch \/ WatcherWait \/ WatcherExits
  BY <1>4 DEF WatcherPollReturns, WatcherDispatch, WatcherWait, WatcherExits
<1>5. CASE UiEventBegins \/ Terminates \/ LastTurnEnds
  BY <1>5 DEF UiEventBegins, Terminates, LastTurnEnds
<1>6. CASE EventReady \/ UNCHANGED embedVars
  BY <1>6 DEF EventReady, embedVars
<1> QED BY <1>1, <1>2, <1>3, <1>4, <1>5, <1>6 DEF EmbedNext, Watcher

\* On OS X, work that JavaScript of a user interface event makes due interrupts
\* the watcher's poll, whatever timeouts the loop has asked for.
THEOREM DueWorkIsSeen ==
  ASSUME Pokes
  PROVE  EmbedSpec => []DueWorkWakesWatcher
<1>1. EmbedInit => DueWorkWakesWatcher
  BY DEF EmbedInit, DueWorkWakesWatcher
<1>2. EmbedInv /\ DueWorkWakesWatcher /\ [EmbedNext]_embedVars => DueWorkWakesWatcher'
  BY StepDueWork
<1> QED
  BY EmbedInvariance, <1>1, <1>2, PTL DEF EmbedSpec
=============================================================================
