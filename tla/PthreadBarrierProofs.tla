------------------------ MODULE PthreadBarrierProofs ------------------------
(***************************************************************************)
(* pthread_once and barriers over the queue locks of ptw32_MCS_lock.c, for *)
(* any finite set of threads, any height of the barrier and any number of  *)
(* meetings.                                                               *)
(*                                                                         *)
(* Everything rests on the queue of each lock: a sequence of nodes from    *)
(* the one that has the lock to the one the lock points to, each behind    *)
(* the other, whatever has been set too late in nodes that have left it.   *)
(***************************************************************************)
EXTENDS PthreadBarrier, FiniteSetTheorems, TLAPS

-----------------------------------------------------------------------------
(***************************************************************************)
(* The invariant                                                           *)
(***************************************************************************)

At(pcs) == {t \in Threads : pc[t] \in pcs}

\* Where a thread has no node in a queue, and where its node has a lock.
OutAt == {"once", "once_return", "cancel_return", "cancelled", "ready", "post", "wait",
          "count", "release_proxy", "return"}
HasOnceAt == {"once_init", "once_done", "once_release", "cancel"}
HasBarrierAt == {"transfer", "release"}

PcTypeOK ==
  /\ pc \in [Threads -> OutAt \cup HasOnceAt \cup HasBarrierAt
                          \cup {"once_test", "arrive", "crashed"}]
  /\ inits \in Nat /\ serials \in Nat
  /\ generation \in [Threads -> Nat]
  /\ done \in BOOLEAN /\ destroyed \in BOOLEAN
  /\ strayed \in BOOLEAN /\ crashed \in BOOLEAN

Placed(t) ==
  /\ pc[t] \in OutAt => mcs[t] = "out"
  /\ pc[t] = "once_test" => mcs[t] # "out" /\ nodeLock[t] = OnceLock
  /\ pc[t] \in HasOnceAt => mcs[t] = "held" /\ nodeLock[t] = OnceLock
  /\ pc[t] = "arrive" => mcs[t] # "out" /\ nodeLock[t] = BarrierLock
  /\ pc[t] \in HasBarrierAt => mcs[t] = "held" /\ nodeLock[t] = BarrierLock
  /\ pc[t] = "crashed" => mcs[t] \in {"out", "held"}
  /\ mcs[t] \in {"link", "tell"} => pred[t] \in Nodes

PcInv == \A t \in Threads : Placed(t)

\* The proxy node is in the queue of the barrier from the transfer to its
\* release, for ever if the thread that releases it crashes.
ProxyQueued ==
  \/ At({"post", "count", "release_proxy"}) # {}
  \/ sem > 0
  \/ \E t \in Threads : pc[t] = "crashed" /\ mcs[t] = "out"

Queued(l) ==
  {t \in Threads : mcs[t] # "out" /\ nodeLock[t] = l}
    \cup (IF l = BarrierLock /\ ProxyQueued THEN {Proxy} ELSE {})

\* A node has the lock, or its readyFlag has been set and it will find out.
Owns(n) ==
  \/ n = Proxy
  \/ mcs[n] = "held"
  \/ mcs[n] \in {"tell", "ready", "sleep"} /\ FlagPassed(readyFlag[n])

Waits(n) ==
  /\ n \in Threads
  /\ mcs[n] \in {"link", "tell", "ready", "sleep"}
  /\ ~FlagPassed(readyFlag[n])

\* n comes right behind m, whether m knows it or not.
Behind(n, m) ==
  IF mcs[n] = "link" THEN pred[n] = m /\ next[m] = None ELSE next[m] = n

IsQueue(q, k, l) ==
  /\ \A i, j \in 1 .. k : q[i] = q[j] => i = j
  /\ Queued(l) = {q[i] : i \in 1 .. k}
  /\ tail[l] = IF k = 0 THEN None ELSE q[k]
  /\ k > 0 => Owns(q[1]) /\ next[q[k]] = None
  /\ \A i \in 2 .. k : Waits(q[i]) /\ Behind(q[i], q[i - 1])

HasQueue(l) == \E k \in Nat : \E q \in [1 .. k -> Nodes] : IsQueue(q, k, l)

QueueInv == \A l \in Locks : HasQueue(l)

\* Without a stray write a flag is set when the node that sets it can be seen.
FlagInv ==
  /\ crashed => strayed
  /\ ~strayed => \A n \in Nodes : FlagPassed(nextFlag[n]) => next[n] # None

OnceInv ==
  /\ inits = IF done \/ At({"once_done"}) # {} THEN 1 ELSE 0
  /\ At({"once_init", "once_done"}) # {} => ~done
  /\ \A t \in Threads :
       pc[t] \notin {"once", "once_test", "once_init", "once_done", "cancel", "cancel_return",
                     "cancelled", "crashed"} => done
  /\ ProxyQueued => done /\ nodeLock[Proxy] = BarrierLock

\* Who has arrived for the meeting under way and has not left it.
Met ==
  {t \in Threads :
     \/ pc[t] \in {"transfer", "release", "wait", "post", "count"}
     \/ pc[t] = "crashed" /\ mcs[t] = "held" /\ nodeLock[t] = BarrierLock}

Waiting == At({"wait"})

\* A meeting is complete and its threads have not all been counted out.
Passing == At({"post", "count"}) # {} \/ sem > 0

MeetInv ==
  /\ inits = 0 => height = 0 /\ Met = {} /\ arrivals = 0 /\ serials = 0
  /\ inits = 1 =>
       /\ height + Cardinality(Met) = Count
       /\ height = 0 => At({"transfer"}) # {} \/ Passing
       /\ arrivals = serials * Count + (IF Passing THEN Count ELSE Count - height)
  /\ At({"count", "release_proxy"}) # {} => sem = Cardinality(Waiting)
  /\ sem > 0 => sem = Cardinality(Waiting)
  /\ At({"post"}) # {} => sem = 0
  /\ At({"transfer", "post"}) # {} => height = 0
  /\ At({"release_proxy"}) # {} => height = Count
  /\ (\E t \in Threads : pc[t] = "crashed" /\ mcs[t] = "out") => height = Count
  /\ arrivals + Cardinality(At({"arrive"})) <= MaxArrivals
  /\ \A t \in Threads :
       /\ pc[t] \in {"transfer", "release", "wait", "post", "count"} => generation[t] = serials + 1
       /\ pc[t] \in {"release_proxy", "return"} => generation[t] * Count <= arrivals

\* One thread at most passes the post, or releases the proxy node.
OneInv ==
  \A t, u \in Threads :
    /\ pc[t] \in {"post", "release_proxy"} /\ pc[u] \in {"post", "count", "release_proxy"} => u = t
    /\ pc[t] = "crashed" /\ mcs[t] = "out" => pc[u] \notin {"post", "count", "release_proxy"}

DestroyInv ==
  destroyed => \A t \in Threads :
    pc[t] \notin {"arrive", "transfer", "release", "wait", "post", "count", "release_proxy"}

IInv ==
  /\ TypeOK /\ PcTypeOK /\ PcInv
  /\ QueueInv /\ FlagInv /\ OnceInv /\ MeetInv /\ OneInv /\ DestroyInv

-----------------------------------------------------------------------------
(***************************************************************************)
(* The queue of a lock                                                     *)
(***************************************************************************)

LEMMA NodeFacts ==
  /\ Nodes = Threads \cup {Proxy} /\ Proxy \notin Threads /\ None \notin Nodes
  /\ Locks = {OnceLock, BarrierLock} /\ OnceLock # BarrierLock
  /\ Count \in Nat /\ Count >= 2
BY NodesAssumption, BarrierAssumption DEF Nodes

\* A node is in one queue at most.
LEMMA QueuesApart ==
  ASSUME NEW l \in Locks, NEW m \in Locks, l # m
  PROVE  Queued(l) \cap Queued(m) = {}
BY NodeFacts DEF Queued

LEMMA QueuedAreNodes ==
  ASSUME NEW l \in Locks
  PROVE  Queued(l) \subseteq Nodes
BY NodeFacts DEF Queued

\* Who has the lock is first in its queue: a lock has one owner.
LEMMA OwnerIsFirst ==
  ASSUME NEW l, NEW k \in Nat, NEW q \in [1 .. k -> Nodes], IsQueue(q, k, l),
         NEW n \in Queued(l), Owns(n)
  PROVE  k > 0 /\ q[1] = n
<1>1. PICK i \in 1 .. k : q[i] = n
  BY DEF IsQueue
<1>2. ~Waits(n)
  BY NodeFacts DEF Owns, Waits
<1> QED
  BY <1>1, <1>2 DEF IsQueue

\* Who waits is not first.
LEMMA WaiterIsNotFirst ==
  ASSUME NEW l, NEW k \in Nat, NEW q \in [1 .. k -> Nodes], IsQueue(q, k, l),
         NEW n \in Queued(l), ~Owns(n)
  PROVE  \E i \in 2 .. k : q[i] = n
<1>1. PICK i \in 1 .. k : q[i] = n
  BY DEF IsQueue
<1> QED
  BY <1>1 DEF IsQueue

\* A step that moves nobody in or out keeps a queue, if whoever has the lock or
\* waits still does, each behind the same node.
LEMMA QueueStays ==
  ASSUME NEW l \in Locks, NEW k \in Nat, NEW q \in [1 .. k -> Nodes], IsQueue(q, k, l),
         Queued(l)' = Queued(l), tail'[l] = tail[l],
         \A i \in 1 .. k : (Owns(q[i]) => Owns(q[i])') /\ (Waits(q[i]) => Waits(q[i])'),
         \A i \in 2 .. k : Behind(q[i], q[i - 1]) => Behind(q[i], q[i - 1])',
         k > 0 => next'[q[k]] = next[q[k]]
  PROVE  HasQueue(l)'
<1>1. IsQueue(q, k, l)'
  BY DEF IsQueue
<1> QED
  BY <1>1 DEF HasQueue

\* What is read of a node in a queue.
SameNode(n) ==
  /\ UNCHANGED <<next[n], readyFlag[n]>>
  /\ n \in Threads => UNCHANGED <<mcs[n], pred[n]>>

LEMMA QueueUntouched ==
  ASSUME NEW l \in Locks, HasQueue(l), Queued(l)' = Queued(l), tail'[l] = tail[l],
         \A n \in Queued(l) : SameNode(n)
  PROVE  HasQueue(l)'
<1>1. PICK k \in Nat : \E q \in [1 .. k -> Nodes] : IsQueue(q, k, l)
  BY DEF HasQueue
<1>2. PICK q \in [1 .. k -> Nodes] : IsQueue(q, k, l)
  BY <1>1
<1>3. \A i \in 1 .. k : SameNode(q[i])
  BY <1>2 DEF IsQueue
<1>4. \A i \in 1 .. k : (Owns(q[i]) => Owns(q[i])') /\ (Waits(q[i]) => Waits(q[i])')
  BY <1>3, NodeFacts DEF SameNode, Owns, Waits, Nodes
<1>5. ASSUME NEW i \in 2 .. k, Behind(q[i], q[i - 1])
      PROVE  Behind(q[i], q[i - 1])'
  <2>1. i \in 1 .. k /\ i - 1 \in 1 .. k /\ q[i] \in Threads
    BY <1>2 DEF IsQueue, Waits
  <2> QED
    BY <1>3, <1>5, <2>1 DEF SameNode, Behind
<1>6. k > 0 => next'[q[k]] = next[q[k]]
  BY <1>3 DEF SameNode
<1> QED
  BY <1>2, <1>4, <1>5, <1>6, QueueStays

\* A lock has one owner, the proxy node while it is in the queue.
LEMMA OneOwner ==
  ASSUME NEW l, HasQueue(l), NEW m \in Queued(l), NEW n \in Queued(l), Owns(m), Owns(n)
  PROVE  m = n
<1>1. PICK k \in Nat : \E q \in [1 .. k -> Nodes] : IsQueue(q, k, l)
  BY DEF HasQueue
<1>2. PICK q \in [1 .. k -> Nodes] : IsQueue(q, k, l)
  BY <1>1
<1> QED
  BY <1>2, OwnerIsFirst

LEMMA HolderExcludesProxy ==
  ASSUME QueueInv, NEW t \in Threads, mcs[t] = "held", nodeLock[t] = BarrierLock
  PROVE  ~ProxyQueued
<1>1. t \in Queued(BarrierLock) /\ Owns(t)
  BY DEF Queued, Owns
<1>2. ProxyQueued => Proxy \in Queued(BarrierLock)
  BY DEF Queued
<1>3. Owns(Proxy)
  BY DEF Owns
<1> QED
  BY <1>1, <1>2, <1>3, OneOwner, NodeFacts DEF QueueInv

-----------------------------------------------------------------------------
(***************************************************************************)
(* What each operation of a lock does to the queues                        *)
(***************************************************************************)

\* A node that is not in a queue may be written to.
LEMMA NobodyMoves ==
  ASSUME QueueInv, tail' = tail,
         \A l \in Locks : Queued(l)' = Queued(l),
         \A l \in Locks : \A n \in Queued(l) : SameNode(n)
  PROVE  QueueInv'
BY QueueUntouched DEF QueueInv

LEMMA AcquireQueues ==
  ASSUME TypeOK, QueueInv, NEW t \in Threads, NEW m \in Locks, LockAcquire(t, m),
         ProxyQueued' <=> ProxyQueued
  PROVE  QueueInv'
<1> SUFFICES ASSUME NEW l \in Locks
             PROVE  HasQueue(l)'
  BY DEF QueueInv
<1>1. t \notin Queued(l) /\ t # Proxy
  BY NodeFacts DEF LockAcquire, Queued
<1>2. \A n \in Queued(l) : SameNode(n)
  BY <1>1, QueuedAreNodes DEF LockAcquire, SameNode, TypeOK
<1>3. CASE l # m
  <2>1. Queued(l)' = Queued(l)
    BY <1>3, NodeFacts DEF LockAcquire, Queued, TypeOK
  <2>2. tail'[l] = tail[l]
    BY <1>3 DEF LockAcquire, TypeOK
  <2> QED
    BY <2>1, <2>2, <1>2, QueueUntouched DEF QueueInv
<1>4. CASE l = m
  <2>1. PICK k \in Nat : \E q \in [1 .. k -> Nodes] : IsQueue(q, k, l)
    BY DEF QueueInv, HasQueue
  <2>2. PICK q \in [1 .. k -> Nodes] : IsQueue(q, k, l)
    BY <2>1
  <2> DEFINE r == [i \in 1 .. k + 1 |-> IF i <= k THEN q[i] ELSE t]
  <2>3. r \in [1 .. k + 1 -> Nodes] /\ \A i \in 1 .. k : r[i] = q[i]
    BY NodeFacts
  <2>4. r[k + 1] = t
    OBVIOUS
  <2>5. Queued(l)' = Queued(l) \cup {t}
    BY <1>4, NodeFacts DEF LockAcquire, Queued, TypeOK
  <2>6. \A i \in 1 .. k : q[i] \in Queued(l) /\ SameNode(q[i]) /\ q[i] # t
    BY <1>1, <1>2, <2>2 DEF IsQueue
  <2> HIDE DEF r
  <2>7. \A i, j \in 1 .. k + 1 : r[i] = r[j] => i = j
    <3> SUFFICES ASSUME NEW i \in 1 .. k + 1, NEW j \in 1 .. k + 1, r[i] = r[j]
                 PROVE  i = j
      OBVIOUS
    <3>1. i \in 1 .. k \/ i = k + 1
      OBVIOUS
    <3>2. j \in 1 .. k \/ j = k + 1
      OBVIOUS
    <3> QED
      BY <3>1, <3>2, <2>2, <2>3, <2>4, <2>6 DEF IsQueue
  <2>8. Queued(l)' = {r[i] : i \in 1 .. k + 1}
    <3>1. Queued(l) = {q[i] : i \in 1 .. k}
      BY <2>2 DEF IsQueue
    <3>2. \A i \in 1 .. k + 1 : i \in 1 .. k \/ i = k + 1
      OBVIOUS
    <3>3. \A i \in 1 .. k : i \in 1 .. k + 1
      OBVIOUS
    <3> QED
      BY <3>1, <3>2, <3>3, <2>3, <2>4, <2>5
  <2>9. tail'[l] = r[k + 1] /\ next'[t] = None
    BY <1>4, <2>4, NodeFacts DEF LockAcquire, TypeOK
  <2>10. Owns(r[1])'
    <3>1. CASE k = 0
      <4>1. mcs'[t] = "held"
        BY <1>4, <2>2, <3>1 DEF LockAcquire, IsQueue, TypeOK
      <4> QED
        BY <3>1, <4>1, <2>4 DEF Owns
    <3>2. CASE k > 0
      <4>1. r[1] = q[1] /\ Owns(q[1]) /\ SameNode(q[1])
        BY <2>2, <2>3, <2>6, <3>2 DEF IsQueue
      <4>2. q[1] \in Threads \/ q[1] = Proxy
        BY <3>2, NodeFacts
      <4> QED
        BY <4>1, <4>2 DEF Owns, SameNode
    <3> QED
      BY <3>1, <3>2
  <2>11. ASSUME NEW i \in 2 .. k + 1
         PROVE  Waits(r[i])' /\ Behind(r[i], r[i - 1])'
    <3>1. CASE i \in 2 .. k
      <4>1. i \in 1 .. k /\ i - 1 \in 1 .. k
        BY <3>1
      <4>2. r[i] = q[i] /\ r[i - 1] = q[i - 1] /\ SameNode(q[i]) /\ SameNode(q[i - 1])
        BY <4>1, <2>3, <2>6
      <4>3. Waits(q[i]) /\ Behind(q[i], q[i - 1])
        BY <3>1, <2>2 DEF IsQueue
      <4> QED
        BY <4>2, <4>3 DEF Waits, Behind, SameNode
    <3>2. CASE i = k + 1
      <4>1. k \in 1 .. k /\ i - 1 = k
        BY <3>2
      <4>2. tail[l] = q[k] /\ next[q[k]] = None /\ q[k] # t /\ SameNode(q[k]) /\ q[k] \in Nodes
        BY <4>1, <2>2, <2>6, QueuedAreNodes DEF IsQueue
      <4>3. mcs'[t] = "link" /\ pred'[t] = q[k] /\ readyFlag'[t] = "clear"
        BY <1>4, <4>2, NodeFacts DEF LockAcquire, TypeOK
      <4> QED
        BY <3>2, <4>1, <4>2, <4>3, <2>3, <2>4 DEF Waits, Behind, SameNode, FlagPassed
    <3> QED
      BY <3>1, <3>2
  <2>12. IsQueue(r, k + 1, l)'
    BY <2>4, <2>7, <2>8, <2>9, <2>10, <2>11 DEF IsQueue
  <2> QED
    BY <2>3, <2>12 DEF HasQueue
<1> QED
  BY <1>3, <1>4

LEMMA LinkQueues ==
  ASSUME TypeOK, QueueInv, NEW t \in Threads, Link(t), nodeLock[t] \in Locks,
         ProxyQueued' <=> ProxyQueued
  PROVE  QueueInv'
<1>1. t \in Queued(nodeLock[t]) /\ ~Owns(t)
  BY NodeFacts DEF Link, Queued, Owns
<1>2. PICK k \in Nat : \E q \in [1 .. k -> Nodes] : IsQueue(q, k, nodeLock[t])
  BY DEF QueueInv, HasQueue
<1>3. PICK q \in [1 .. k -> Nodes] : IsQueue(q, k, nodeLock[t])
  BY <1>2
<1>4. PICK i \in 2 .. k : q[i] = t
  BY <1>1, <1>3, WaiterIsNotFirst
<1>5. i - 1 \in 1 .. k /\ i \in 1 .. k
  OBVIOUS
<1>6. pred[t] = q[i - 1] /\ next[q[i - 1]] = None /\ q[i - 1] \in Queued(nodeLock[t])
  BY <1>3, <1>4, <1>5 DEF IsQueue, Behind, Link
<1>7. \A l \in Locks : Queued(l)' = Queued(l)
  BY NodeFacts DEF Link, Queued, TypeOK
<1>8. ASSUME NEW l \in Locks, l # nodeLock[t]
      PROVE  HasQueue(l)'
  <2>1. t \notin Queued(l) /\ pred[t] \notin Queued(l)
    BY <1>1, <1>6, <1>8, QueuesApart
  <2>2. \A n \in Queued(l) : SameNode(n)
    BY <2>1, QueuedAreNodes DEF Link, SameNode, TypeOK
  <2> QED
    BY <2>2, <1>7, QueueUntouched DEF QueueInv, Link
<1>9. HasQueue(nodeLock[t])'
  <2> DEFINE l == nodeLock[t]
  <2>1. ASSUME NEW j \in 1 .. k
        PROVE  (Owns(q[j]) => Owns(q[j])') /\ (Waits(q[j]) => Waits(q[j])')
    BY NodeFacts DEF Link, TypeOK, Owns, Waits
  <2>2. ASSUME NEW j \in 2 .. k, Behind(q[j], q[j - 1])
        PROVE  Behind(q[j], q[j - 1])'
    <3>1. j \in 1 .. k /\ j - 1 \in 1 .. k
      OBVIOUS
    <3>2. CASE j = i
      BY <1>4, <1>6, <3>1, <3>2 DEF Behind, Link, TypeOK
    <3>3. CASE j # i
      <4>1. q[j] # t /\ q[j - 1] # pred[t]
        BY <1>3, <1>4, <1>5, <1>6, <3>1, <3>3 DEF IsQueue
      <4> QED
        BY <2>2, <4>1 DEF Behind, Link, TypeOK
    <3> QED
      BY <3>2, <3>3
  <2>3. next'[q[k]] = next[q[k]]
    <3>1. k \in 1 .. k
      OBVIOUS
    <3>2. q[k] # pred[t]
      BY <1>3, <1>5, <1>6, <3>1 DEF IsQueue
    <3> QED
      BY <3>2 DEF Link, TypeOK
  <2>4. HasQueue(l)'
    BY <1>3, <1>7, <2>1, <2>2, <2>3, QueueStays DEF Link
  <2>5. nodeLock' = nodeLock
    BY DEF Link
  <2> QED
    BY <2>4, <2>5
<1>10. nodeLock' = nodeLock
  BY DEF Link
<1> QED
  BY <1>8, <1>9, <1>10 DEF QueueInv

LEMMA QueuesStay ==
  ASSUME QueueInv, tail' = tail, next' = next, \A l \in Locks : Queued(l)' = Queued(l),
         \A n \in Nodes : (Owns(n) => Owns(n)') /\ (Waits(n) => Waits(n)'),
         \A n \in Threads : \A m \in Nodes : Behind(n, m) => Behind(n, m)'
  PROVE  QueueInv'
<1> SUFFICES ASSUME NEW l \in Locks
             PROVE  HasQueue(l)'
  BY DEF QueueInv
<1>1. PICK k \in Nat : \E q \in [1 .. k -> Nodes] : IsQueue(q, k, l)
  BY DEF QueueInv, HasQueue
<1>2. PICK q \in [1 .. k -> Nodes] : IsQueue(q, k, l)
  BY <1>1
<1>3. \A i \in 1 .. k : (Owns(q[i]) => Owns(q[i])') /\ (Waits(q[i]) => Waits(q[i])')
  OBVIOUS
<1>4. ASSUME NEW i \in 2 .. k
      PROVE  Behind(q[i], q[i - 1]) => Behind(q[i], q[i - 1])'
  <2>1. i \in 1 .. k /\ i - 1 \in 1 .. k /\ q[i] \in Threads
    BY <1>2 DEF IsQueue, Waits
  <2> QED
    BY <2>1
<1> QED
  BY <1>2, <1>3, <1>4, QueueStays

\* The rest of an acquisition: the node finds out in the end that it has the lock.
LEMMA WaitQueues ==
  ASSUME TypeOK, QueueInv, NEW t \in Threads, Tell(t) \/ AwaitReady(t) \/ WakeReady(t),
         ProxyQueued' <=> ProxyQueued
  PROVE  QueueInv'
<1>1. tail' = tail /\ next' = next
  BY DEF Tell, AwaitReady, WakeReady, nodeVars
<1>2. \A l \in Locks : Queued(l)' = Queued(l)
  BY NodeFacts DEF Tell, AwaitReady, WakeReady, nodeVars, Queued, TypeOK
<1>3. ASSUME NEW n \in Nodes
      PROVE  (Owns(n) => Owns(n)') /\ (Waits(n) => Waits(n)')
  <2>1. CASE Tell(t)
    BY <2>1, NodeFacts DEF Tell, TypeOK, Owns, Waits
  <2>2. CASE AwaitReady(t)
    BY <2>2, NodeFacts DEF AwaitReady, TypeOK, Owns, Waits, FlagStore, FlagPassed
  <2>3. CASE WakeReady(t)
    <3>1. FlagPassed(readyFlag[t]) /\ t # Proxy /\ readyFlag' = readyFlag
      BY <2>3, NodeFacts DEF WakeReady, FlagPassed, nodeVars
    <3> QED
      BY <2>3, <3>1, NodeFacts DEF WakeReady, TypeOK, Owns, Waits
  <2> QED
    BY <2>1, <2>2, <2>3
<1>4. \A n \in Threads : \A m \in Nodes : Behind(n, m) => Behind(n, m)'
  BY NodeFacts DEF Tell, AwaitReady, WakeReady, nodeVars, TypeOK, Behind
<1> QED
  BY <1>1, <1>2, <1>3, <1>4, QueuesStay

\* A step beside the queues, a release that only waits or crashes among them.
LEMMA OtherQueues ==
  ASSUME QueueInv, UNCHANGED <<tail, next, readyFlag, nodeLock, mcs, pred>>,
         ProxyQueued' <=> ProxyQueued
  PROVE  QueueInv'
<1>1. \A l \in Locks : Queued(l)' = Queued(l)
  BY DEF Queued
<1>2. \A n \in Nodes : (Owns(n) => Owns(n)') /\ (Waits(n) => Waits(n)')
  BY DEF Owns, Waits
<1>3. \A n \in Threads : \A m \in Nodes : Behind(n, m) => Behind(n, m)'
  BY DEF Behind
<1> QED
  BY <1>1, <1>2, <1>3, QueuesStay

\* The node that has the lock of l leaves its queue, by a release that leaves the
\* lock free.
LEMMA FreeQueues ==
  ASSUME TypeOK, QueueInv, NEW t \in Threads, NEW n \in Nodes, NEW m \in Locks,
         ReleaseFree(t, n), nodeLock[n] = m, n \in Queued(m), Owns(n),
         Queued(m)' = Queued(m) \ {n},
         \A l \in Locks \ {m} : Queued(l)' = Queued(l),
         \A l \in Locks \ {m} : t \notin Queued(l)
  PROVE  QueueInv'
<1>1. ASSUME NEW l \in Locks, l # m
      PROVE  HasQueue(l)'
  <2>1. \A u \in Queued(l) : SameNode(u)
    BY <1>1, QueuedAreNodes DEF ReleaseFree, SameNode, nodeVars, TypeOK
  <2>2. tail'[l] = tail[l]
    BY <1>1 DEF ReleaseFree, TypeOK
  <2> QED
    BY <1>1, <2>1, <2>2, QueueUntouched DEF QueueInv
<1>2. HasQueue(m)'
  <2>1. PICK k \in Nat : \E q \in [1 .. k -> Nodes] : IsQueue(q, k, m)
    BY DEF QueueInv, HasQueue
  <2>2. PICK q \in [1 .. k -> Nodes] : IsQueue(q, k, m)
    BY <2>1
  <2>3. k > 0 /\ q[1] = n
    BY <2>2, OwnerIsFirst
  <2>4. 1 \in 1 .. k /\ k \in 1 .. k
    BY <2>3
  <2>5. q[k] = n
    BY <2>2, <2>3 DEF ReleaseFree, IsQueue
  <2>6. k = 1
    BY <2>2, <2>3, <2>4, <2>5 DEF IsQueue
  <2>7. Queued(m) = {n}
    BY <2>2, <2>3, <2>6 DEF IsQueue
  <2>8. Queued(m)' = {}
    BY <2>7
  <2>9. tail'[m] = None
    BY DEF ReleaseFree, TypeOK
  <2> DEFINE r == [i \in 1 .. 0 |-> n]
  <2>10. IsQueue(r, 0, m)'
    <3>1. 1 .. 0 = {} /\ 2 .. 0 = {}
      OBVIOUS
    <3>2. {r[i] : i \in 1 .. 0} = {}
      BY <3>1
    <3> HIDE DEF r
    <3> QED
      BY <2>8, <2>9, <3>1, <3>2 DEF IsQueue
  <2>11. r \in [1 .. 0 -> Nodes]
    OBVIOUS
  <2> QED
    BY <2>10, <2>11 DEF HasQueue
<1> QED
  BY <1>1, <1>2 DEF QueueInv

\* The same, by a release that passes the lock to the next node.
LEMMA PassQueues ==
  ASSUME TypeOK, QueueInv, NEW t \in Threads, NEW n \in Nodes, NEW m \in Locks,
         ReleasePasses(t, n), n \in Queued(m), Owns(n),
         Queued(m)' = Queued(m) \ {n},
         \A l \in Locks \ {m} : Queued(l)' = Queued(l),
         \A l \in Locks \ {m} : t \notin Queued(l),
         t \in Queued(m) => t = n
  PROVE  QueueInv'
<1>1. PICK k \in Nat : \E q \in [1 .. k -> Nodes] : IsQueue(q, k, m)
  BY DEF QueueInv, HasQueue
<1>2. PICK q \in [1 .. k -> Nodes] : IsQueue(q, k, m)
  BY <1>1
<1>3. k > 0 /\ q[1] = n
  BY <1>2, OwnerIsFirst
<1>4. k >= 2
  BY <1>2, <1>3 DEF IsQueue, ReleasePasses
<1>5. 2 \in 2 .. k /\ 2 \in 1 .. k /\ 1 \in 1 .. k
  BY <1>4
<1>6. Waits(q[2]) /\ Behind(q[2], q[1])
  <2>1. Waits(q[2]) /\ Behind(q[2], q[2 - 1])
    BY <1>2, <1>5 DEF IsQueue
  <2>2. 2 - 1 = 1
    OBVIOUS
  <2> QED
    BY <2>1, <2>2
<1>7. next[n] = q[2] /\ mcs[q[2]] # "link"
  BY <1>3, <1>6 DEF Behind, ReleasePasses
<1>8. q[2] \in Queued(m) /\ q[2] # n
  BY <1>2, <1>3, <1>5 DEF IsQueue
<1>9. ASSUME NEW l \in Locks, l # m
      PROVE  HasQueue(l)'
  <2>1. q[2] \notin Queued(l)
    BY <1>8, <1>9, QueuesApart
  <2>2. \A u \in Queued(l) : SameNode(u)
    BY <1>7, <1>9, <2>1, QueuedAreNodes DEF ReleasePasses, SameNode, TypeOK
  <2>3. tail' = tail
    BY DEF ReleasePasses
  <2> QED
    BY <1>9, <2>2, <2>3, QueueUntouched DEF QueueInv
<1>10. HasQueue(m)'
  <2> DEFINE r == [i \in 1 .. k - 1 |-> q[i + 1]]
  <2>1. k - 1 \in Nat /\ \A i \in 1 .. k - 1 : i + 1 \in 1 .. k /\ i + 1 \in 2 .. k
    BY <1>3
  <2>2. r \in [1 .. k - 1 -> Nodes] /\ \A i \in 1 .. k - 1 : r[i] = q[i + 1]
    BY <2>1
  <2> HIDE DEF r
  <2>3. \A i, j \in 1 .. k - 1 : r[i] = r[j] => i = j
    <3> SUFFICES ASSUME NEW i \in 1 .. k - 1, NEW j \in 1 .. k - 1, r[i] = r[j]
                 PROVE  i = j
      OBVIOUS
    <3>1. i + 1 \in 1 .. k /\ j + 1 \in 1 .. k /\ q[i + 1] = q[j + 1]
      BY <2>1, <2>2
    <3>2. i + 1 = j + 1
      BY <1>2, <3>1 DEF IsQueue
    <3> QED
      BY <3>2
  <2>4. Queued(m)' = {r[i] : i \in 1 .. k - 1}
    <3>1. Queued(m) = {q[i] : i \in 1 .. k}
      BY <1>2 DEF IsQueue
    <3>2. ASSUME NEW u, u \in Queued(m)'
          PROVE  \E i \in 1 .. k - 1 : u = r[i]
      <4>1. PICK j \in 1 .. k : u = q[j]
        BY <3>1, <3>2
      <4>2. j # 1
        BY <1>3, <3>2, <4>1
      <4>3. j - 1 \in 1 .. k - 1 /\ (j - 1) + 1 = j
        BY <4>2
      <4> QED
        BY <2>2, <4>1, <4>3
    <3>3. ASSUME NEW i \in 1 .. k - 1
          PROVE  r[i] \in Queued(m)'
      <4>1. r[i] = q[i + 1] /\ i + 1 \in 1 .. k /\ i + 1 # 1
        BY <2>1, <2>2
      <4>2. r[i] # n
        BY <1>2, <1>3, <1>5, <4>1 DEF IsQueue
      <4> QED
        BY <3>1, <4>1, <4>2
    <3> QED
      BY <3>2, <3>3
  <2>5. q[k] = r[k - 1] /\ k \in 1 .. k
    BY <1>4, <2>2
  <2>6. tail'[m] = q[k] /\ next' = next /\ next[q[k]] = None
    BY <1>2, <1>3 DEF IsQueue, ReleasePasses
  <2>7. ASSUME NEW i \in 2 .. k
        PROVE  q[i] # t /\ q[i] \in Threads /\ i \in 1 .. k /\ (i # 2 => q[i] # q[2])
    <3>1. i \in 1 .. k /\ i # 1
      OBVIOUS
    <3>2. q[i] \in Queued(m) /\ q[i] # n
      BY <1>2, <1>3, <1>5, <3>1 DEF IsQueue
    <3> QED
      BY <1>2, <1>5, <3>1, <3>2 DEF IsQueue, Waits
  <2>8. Owns(q[2])'
    <3>1. readyFlag[q[2]] \in FlagValues /\ readyFlag'[q[2]] = FlagSet(readyFlag[q[2]])
      BY <1>7, <1>5, NodeFacts DEF ReleasePasses, TypeOK
    <3>2. FlagPassed(readyFlag'[q[2]])
      BY <1>6, <3>1 DEF Waits, FlagSet, FlagPassed, FlagValues
    <3>3. mcs'[q[2]] \in {"tell", "ready", "sleep"}
      BY <1>5, <1>6, <1>7, <2>7 DEF Waits, ReleasePasses, TypeOK
    <3> QED
      BY <3>2, <3>3 DEF Owns
  <2>9. ASSUME NEW i \in 2 .. k - 1
        PROVE  Waits(r[i])' /\ Behind(r[i], r[i - 1])'
    <3>1. i + 1 \in 2 .. k /\ i + 1 # 2 /\ i - 1 \in 1 .. k - 1 /\ i \in 1 .. k - 1
          /\ (i - 1) + 1 = i /\ (i + 1) - 1 = i
      BY <2>1
    <3>2. r[i] = q[i + 1] /\ r[i - 1] = q[i]
      BY <2>2, <3>1
    <3>3. Waits(q[i + 1]) /\ Behind(q[i + 1], q[i])
      BY <1>2, <3>1 DEF IsQueue
    <3>4. q[i + 1] # t /\ q[i + 1] # q[2] /\ q[i + 1] \in Threads
      BY <2>7, <3>1
    <3>5. readyFlag'[q[i + 1]] = readyFlag[q[i + 1]] /\ mcs'[q[i + 1]] = mcs[q[i + 1]]
          /\ pred' = pred /\ next' = next
      BY <1>7, <3>4, NodeFacts DEF ReleasePasses, TypeOK
    <3> QED
      BY <3>2, <3>3, <3>5 DEF Waits, Behind
  <2>10. k - 1 > 0 /\ r[1] = q[2]
    BY <1>4, <2>2
  <2>11. IsQueue(r, k - 1, m)'
    <3>1. Owns(r[1])' /\ next'[r[k - 1]] = None /\ tail'[m] = r[k - 1] /\ k - 1 # 0
      BY <2>5, <2>6, <2>8, <2>10
    <3>2. tail'[m] = IF k - 1 = 0 THEN None ELSE r[k - 1]
      BY <3>1
    <3> QED
      BY <2>3, <2>4, <2>9, <3>1, <3>2 DEF IsQueue
  <2> QED
    BY <2>1, <2>2, <2>11 DEF HasQueue
<1> QED
  BY <1>9, <1>10 DEF QueueInv

\* The proxy node takes the place of the node that has the lock of the barrier.
LEMMA TransferQueues ==
  ASSUME TypeOK, QueueInv, NEW t \in Threads, mcs[t] = "held", nodeLock[t] = BarrierLock,
         NodeTransfer(t, Proxy), ProxyQueued'
  PROVE  QueueInv'
<1> DEFINE m == BarrierLock
<1>1. ~ProxyQueued
  BY HolderExcludesProxy
<1>2. t \in Queued(m) /\ Owns(t) /\ t # Proxy /\ m \in Locks
  BY NodeFacts DEF Queued, Owns
<1>3. /\ next' = [next EXCEPT ![Proxy] = next[t]]
      /\ mcs' = [mcs EXCEPT ![t] = "out"]
      /\ nodeLock' = [nodeLock EXCEPT ![Proxy] = m]
      /\ readyFlag' = [readyFlag EXCEPT ![Proxy] = "clear"]
      /\ tail' = IF tail[m] = t THEN [tail EXCEPT ![m] = Proxy] ELSE tail
      /\ pred' = pred
      /\ tail[m] = t \/ next[t] # None
  BY DEF NodeTransfer
<1>4. ASSUME NEW n \in Nodes, n # t, n # Proxy
      PROVE  SameNode(n)
  BY <1>3, <1>4 DEF SameNode, TypeOK
<1>5. ASSUME NEW l \in Locks, l # m
      PROVE  HasQueue(l)'
  <2>1. t \notin Queued(l) /\ Proxy \notin Queued(l)
    BY <1>5, NodeFacts DEF Queued
  <2>2. Queued(l)' = Queued(l)
    BY <1>3, <1>5, NodeFacts DEF Queued, TypeOK
  <2>3. \A n \in Queued(l) : SameNode(n)
    BY <1>4, <2>1, QueuedAreNodes
  <2>4. tail'[l] = tail[l]
    BY <1>3, <1>5 DEF TypeOK
  <2> QED
    BY <2>2, <2>3, <2>4, QueueUntouched DEF QueueInv
<1>6. HasQueue(m)'
  <2>1. PICK k \in Nat : \E q \in [1 .. k -> Nodes] : IsQueue(q, k, m)
    BY <1>2 DEF QueueInv, HasQueue
  <2>2. PICK q \in [1 .. k -> Nodes] : IsQueue(q, k, m)
    BY <2>1
  <2>3. k > 0 /\ q[1] = t /\ 1 \in 1 .. k /\ k \in 1 .. k
    BY <1>2, <2>2, OwnerIsFirst
  <2> DEFINE r == [i \in 1 .. k |-> IF i = 1 THEN Proxy ELSE q[i]]
  <2>4. r \in [1 .. k -> Nodes] /\ r[1] = Proxy /\ \A i \in 1 .. k : i # 1 => r[i] = q[i]
    BY <2>3, NodeFacts
  <2> HIDE DEF r
  <2>5. Queued(m)' = (Queued(m) \ {t}) \cup {Proxy}
    BY <1>1, <1>3, NodeFacts DEF Queued, TypeOK
  <2>6. \A i \in 1 .. k : q[i] \in Queued(m) /\ q[i] # Proxy /\ (i # 1 => q[i] # t)
    <3>1. Proxy \notin Queued(m)
      BY <1>1, NodeFacts DEF Queued
    <3> QED
      BY <2>2, <2>3, <3>1 DEF IsQueue
  <2>7. \A i \in 1 .. k : i # 1 => SameNode(q[i])
    BY <1>4, <2>6
  <2>8. \A i, j \in 1 .. k : r[i] = r[j] => i = j
    BY <2>2, <2>4, <2>6 DEF IsQueue
  <2>9. Queued(m)' = {r[i] : i \in 1 .. k}
    <3>1. Queued(m) = {q[i] : i \in 1 .. k}
      BY <2>2 DEF IsQueue
    <3> QED
      BY <2>3, <2>4, <2>5, <2>6, <3>1
  <2>10. tail'[m] = r[k] /\ next'[r[k]] = None
    <3>1. tail[m] = q[k] /\ next[q[k]] = None
      BY <2>2, <2>3 DEF IsQueue
    <3>2. CASE k = 1
      <4>1. tail'[m] = Proxy /\ next'[Proxy] = None
        BY <1>2, <1>3, <2>3, <3>1, <3>2, NodeFacts DEF TypeOK
      <4> QED
        BY <2>4, <3>2, <4>1
    <3>3. CASE k # 1
      <4>1. q[k] # t /\ r[k] = q[k] /\ next'[q[k]] = next[q[k]]
        BY <2>3, <2>4, <2>6, <2>7, <3>3 DEF SameNode
      <4> QED
        BY <1>3, <3>1, <4>1
    <3> QED
      BY <3>2, <3>3
  <2>11. Owns(r[1])'
    BY <2>4 DEF Owns
  <2>12. ASSUME NEW i \in 2 .. k
         PROVE  Waits(r[i])' /\ Behind(r[i], r[i - 1])'
    <3>1. i \in 1 .. k /\ i - 1 \in 1 .. k /\ i # 1 /\ k # 1
      OBVIOUS
    <3>2. Waits(q[i]) /\ Behind(q[i], q[i - 1]) /\ SameNode(q[i]) /\ r[i] = q[i]
          /\ q[i] \in Threads
      BY <2>2, <2>4, <2>7, <3>1 DEF IsQueue, Waits
    <3>3. Waits(r[i])'
      BY <3>2 DEF SameNode, Waits
    <3>4. CASE i = 2
      <4>1. q[i - 1] = t /\ r[i - 1] = Proxy
        BY <2>3, <2>4, <3>4
      <4>2. next[t] # None
        BY <1>3, <2>2, <2>3, <2>6, <3>1 DEF IsQueue
      <4>3. mcs[q[i]] # "link" /\ next[t] = q[i]
        BY <3>2, <4>1, <4>2 DEF Behind
      <4>4. next'[Proxy] = q[i] /\ mcs'[q[i]] # "link"
        BY <1>3, <3>2, <4>3, NodeFacts DEF SameNode, TypeOK
      <4> QED
        BY <3>2, <3>3, <4>1, <4>4 DEF Behind
    <3>5. CASE i # 2
      <4>1. i - 1 # 1
        BY <3>5
      <4>2. r[i - 1] = q[i - 1] /\ SameNode(q[i - 1])
        BY <2>4, <2>7, <3>1, <4>1
      <4> QED
        BY <3>2, <3>3, <4>2 DEF Behind, SameNode
    <3> QED
      BY <3>4, <3>5
  <2>13. IsQueue(r, k, m)'
    BY <2>3, <2>8, <2>9, <2>10, <2>11, <2>12 DEF IsQueue
  <2> QED
    BY <2>4, <2>13 DEF HasQueue
<1> QED
  BY <1>5, <1>6 DEF QueueInv

\* A node that leaves its scope is in no queue.
LEMMA LeaveQueues ==
  ASSUME TypeOK, QueueInv, NEW t \in Threads, mcs[t] = "out", Leave(t),
         ProxyQueued' <=> ProxyQueued
  PROVE  QueueInv'
<1>1. \A l \in Locks : t \notin Queued(l)
  BY NodeFacts DEF Queued
<1>2. \A l \in Locks : Queued(l)' = Queued(l)
  BY NodeFacts DEF Leave, Queued, TypeOK
<1>3. \A l \in Locks : \A n \in Queued(l) : SameNode(n)
  BY <1>1, QueuedAreNodes DEF Leave, SameNode, TypeOK
<1> QED
  BY <1>2, <1>3, NobodyMoves DEF Leave

-----------------------------------------------------------------------------
(***************************************************************************)
(* A release of a node, the thread's own or the proxy node                 *)
(***************************************************************************)

LEMMA OwnReleaseQueues ==
  ASSUME TypeOK, QueueInv, NEW t \in Threads, mcs[t] = "held", nodeLock[t] \in Locks,
         NEW from, NEW to, Releasing(t, t, from, to), ProxyQueued' <=> ProxyQueued
  PROVE  QueueInv'
<1>1. t \in Queued(nodeLock[t]) /\ Owns(t) /\ t \in Nodes
  BY NodeFacts DEF Queued, Owns
<1>2. \A l \in Locks \ {nodeLock[t]} : t \notin Queued(l)
  BY NodeFacts DEF Queued
<1>3. CASE ReleaseFree(t, t) \/ ReleasePasses(t, t)
  <2>1. mcs' = [mcs EXCEPT ![t] = "out"] /\ nodeLock' = nodeLock
    BY <1>3 DEF ReleaseFree, ReleasePasses, nodeVars
  <2>2. Queued(nodeLock[t])' = Queued(nodeLock[t]) \ {t}
    BY <2>1, NodeFacts DEF Queued, TypeOK
  <2>3. \A l \in Locks \ {nodeLock[t]} : Queued(l)' = Queued(l)
    BY <2>1, NodeFacts DEF Queued, TypeOK
  <2>4. nodeLock'[t] = nodeLock[t]
    BY <2>1
  <2>5. PICK n \in Locks : n = nodeLock[t]
    OBVIOUS
  <2>6. /\ nodeLock[t] = n /\ t \in Queued(n) /\ Queued(n)' = Queued(n) \ {t}
        /\ \A l \in Locks \ {n} : Queued(l)' = Queued(l)
        /\ \A l \in Locks \ {n} : t \notin Queued(l)
    BY <1>1, <1>2, <2>2, <2>3, <2>4, <2>5
  <2>7. CASE ReleaseFree(t, t)
    BY <1>1, <2>6, <2>7, FreeQueues
  <2>8. CASE ReleasePasses(t, t)
    BY <1>1, <2>6, <2>8, PassQueues
  <2> QED
    BY <1>3, <2>7, <2>8
<1>4. CASE ReleaseWaits(t) \/ ReleaseCrashes(t)
  BY <1>4, OtherQueues DEF ReleaseWaits, ReleaseCrashes, nodeVars
<1> QED
  BY <1>3, <1>4 DEF Releasing

LEMMA ProxyReleaseQueues ==
  ASSUME TypeOK, QueueInv, NEW t \in Threads, mcs[t] = "out", ProxyQueued,
         nodeLock[Proxy] = BarrierLock,
         NEW from, NEW to, Releasing(t, Proxy, from, to),
         ReleaseFree(t, Proxy) \/ ReleasePasses(t, Proxy) => ~ProxyQueued',
         ReleaseWaits(Proxy) \/ ReleaseCrashes(Proxy) => ProxyQueued'
  PROVE  QueueInv'
<1>1. Proxy \in Queued(BarrierLock) /\ Owns(Proxy) /\ Proxy \in Nodes /\ BarrierLock \in Locks
  BY NodeFacts DEF Queued, Owns
<1>2. \A l \in Locks : t \notin Queued(l)
  BY NodeFacts DEF Queued
<1>3. CASE ReleaseFree(t, Proxy) \/ ReleasePasses(t, Proxy)
  <2>1. mcs' = [mcs EXCEPT ![t] = "out"] /\ nodeLock' = nodeLock /\ ~ProxyQueued'
    BY <1>3 DEF ReleaseFree, ReleasePasses, nodeVars
  <2>2. mcs' = mcs
    BY <2>1 DEF TypeOK
  <2>3. Queued(BarrierLock)' = Queued(BarrierLock) \ {Proxy}
    BY <2>1, <2>2, NodeFacts DEF Queued
  <2>4. \A l \in Locks \ {BarrierLock} : Queued(l)' = Queued(l)
    BY <2>1, <2>2, NodeFacts DEF Queued
  <2>5. CASE ReleaseFree(t, Proxy)
    BY <1>1, <1>2, <2>3, <2>4, <2>5, FreeQueues
  <2>6. CASE ReleasePasses(t, Proxy)
    BY <1>1, <1>2, <2>3, <2>4, <2>6, PassQueues
  <2> QED
    BY <1>3, <2>5, <2>6
<1>4. CASE ReleaseWaits(Proxy) \/ ReleaseCrashes(Proxy)
  BY <1>4, OtherQueues DEF ReleaseWaits, ReleaseCrashes, nodeVars
<1> QED
  BY <1>3, <1>4 DEF Releasing

-----------------------------------------------------------------------------
(***************************************************************************)
(* Types, and where the threads are                                        *)
(***************************************************************************)

McsTypeOK ==
  /\ tail \in [Locks -> Nodes \cup {None}]
  /\ next \in [Nodes -> Threads \cup {None}]
  /\ nextFlag \in [Nodes -> FlagValues]
  /\ readyFlag \in [Nodes -> FlagValues]
  /\ nodeLock \in [Nodes -> Locks \cup {None}]
  /\ mcs \in [Threads -> {"out", "link", "tell", "ready", "sleep", "held"}]
  /\ pred \in [Threads -> Nodes \cup {None}]
  /\ strayed \in BOOLEAN /\ crashed \in BOOLEAN

NumbersOK == height \in 0 .. Count /\ sem \in 0 .. Count - 1 /\ arrivals \in 0 .. MaxArrivals

LEMMA FlagFacts ==
  ASSUME NEW f \in FlagValues
  PROVE  FlagSet(f) \in FlagValues /\ FlagStore(f) \in FlagValues
BY DEF FlagSet, FlagStore, FlagValues

LEMMA AcquireTypes ==
  ASSUME McsTypeOK, NEW t \in Threads, NEW l \in Locks, LockAcquire(t, l)
  PROVE  McsTypeOK'
BY NodeFacts DEF LockAcquire, McsTypeOK, FlagValues

LEMMA QueueTypes ==
  ASSUME McsTypeOK, NEW t \in Threads, Acquiring(t)
  PROVE  McsTypeOK'
<1>1. CASE Link(t)
  BY <1>1, NodeFacts DEF Link, McsTypeOK
<1>2. CASE Tell(t)
  BY <1>2, NodeFacts, FlagFacts DEF Tell, McsTypeOK
<1>3. CASE AwaitReady(t)
  BY <1>3, NodeFacts, FlagFacts DEF AwaitReady, McsTypeOK
<1>4. CASE WakeReady(t)
  BY <1>4, NodeFacts DEF WakeReady, nodeVars, McsTypeOK
<1> QED
  BY <1>1, <1>2, <1>3, <1>4 DEF Acquiring

\* A release leads on, or waits, or crashes.
LEMMA Outcome ==
  ASSUME McsTypeOK, NEW t \in Threads, NEW n \in Nodes, NEW from, NEW to,
         Releasing(t, n, from, to)
  PROVE  /\ McsTypeOK'
         /\ pc[t] = from /\ UNCHANGED <<next, nodeLock, pred, strayed>>
         /\ \/ /\ mcs' = [mcs EXCEPT ![t] = "out"] /\ pc' = [pc EXCEPT ![t] = to]
               /\ UNCHANGED <<nextFlag, crashed>>
               /\ ReleaseFree(t, n) \/ ReleasePasses(t, n)
            \/ /\ UNCHANGED <<mcs, pc, crashed>>
               /\ nextFlag' = [nextFlag EXCEPT ![n] = "event"]
               /\ ReleaseWaits(n)
            \/ /\ UNCHANGED <<mcs, nextFlag>> /\ pc' = [pc EXCEPT ![t] = "crashed"] /\ crashed'
               /\ next[n] = None /\ FlagPassed(nextFlag[n])
               /\ ReleaseCrashes(n)
<1>1. CASE (ReleaseFree(t, n) \/ ReleasePasses(t, n)) /\ pc' = [pc EXCEPT ![t] = to]
  <2>1. McsTypeOK'
    BY <1>1, NodeFacts, FlagFacts DEF ReleaseFree, ReleasePasses, nodeVars, McsTypeOK
  <2> QED
    BY <1>1, <2>1 DEF Releasing, ReleaseFree, ReleasePasses, nodeVars
<1>2. CASE ReleaseWaits(n) /\ UNCHANGED pc
  <2>1. McsTypeOK'
    BY <1>2, NodeFacts, FlagFacts DEF ReleaseWaits, McsTypeOK
  <2>2. nextFlag' = [nextFlag EXCEPT ![n] = "event"]
    BY <1>2 DEF ReleaseWaits, FlagStore
  <2> QED
    BY <1>2, <2>1, <2>2 DEF Releasing, ReleaseWaits
<1>3. CASE ReleaseCrashes(n) /\ pc' = [pc EXCEPT ![t] = "crashed"]
  <2>1. McsTypeOK'
    BY <1>3 DEF ReleaseCrashes, nodeVars, McsTypeOK
  <2> QED
    BY <1>3, <2>1 DEF Releasing, ReleaseCrashes, nodeVars
<1> QED
  BY <1>1, <1>2, <1>3 DEF Releasing

LEMMA LeaveTypes ==
  ASSUME McsTypeOK, NEW t \in Threads, Leave(t)
  PROVE  McsTypeOK'
BY NodeFacts DEF Leave, McsTypeOK, FlagValues

LEMMA TransferTypes ==
  ASSUME McsTypeOK, NEW t \in Threads, NodeTransfer(t, Proxy)
  PROVE  McsTypeOK'
BY NodeFacts DEF NodeTransfer, McsTypeOK, FlagValues

LEMMA TypeParts == TypeOK /\ PcTypeOK <=>
  /\ McsTypeOK /\ NumbersOK
  /\ PcTypeOK
BY DEF TypeOK, PcTypeOK, McsTypeOK, NumbersOK

-----------------------------------------------------------------------------
(***************************************************************************)
(* Where the others are                                                    *)
(***************************************************************************)

LEMMA OneHolder ==
  ASSUME QueueInv, NEW t \in Threads, NEW u \in Threads, mcs[t] = "held", mcs[u] = "held",
         nodeLock[t] \in Locks, nodeLock[u] = nodeLock[t]
  PROVE  u = t
<1>1. t \in Queued(nodeLock[t]) /\ u \in Queued(nodeLock[t]) /\ Owns(t) /\ Owns(u)
  BY DEF Queued, Owns
<1> QED
  BY <1>1, OneOwner DEF QueueInv

\* The one who initialises is the first, and alone.
LEMMA Initialising ==
  ASSUME IInv, NEW t \in Threads, pc[t] \in {"once_init", "once_done"}
  PROVE  /\ ~done /\ At({"once_init", "once_done"}) = {t} /\ ~ProxyQueued
         /\ \A u \in Threads : pc[u] \in {"once", "once_test", "once_init", "once_done", "cancel",
                                          "cancel_return", "cancelled", "crashed"}
<1>1. ~done
  BY DEF IInv, OnceInv, At
<1>2. ASSUME NEW u \in Threads, pc[u] \in {"once_init", "once_done"}
      PROVE  u = t
  <2>1. mcs[t] = "held" /\ mcs[u] = "held" /\ nodeLock[t] = OnceLock /\ nodeLock[u] = OnceLock
    BY <1>2 DEF IInv, PcInv, Placed, HasOnceAt
  <2> QED
    BY <2>1, OneHolder, NodeFacts DEF IInv
<1> QED
  BY <1>1, <1>2 DEF IInv, OnceInv, At

LEMMA AtIsFinite ==
  ASSUME NEW S
  PROVE  IsFiniteSet(At(S)) /\ Cardinality(At(S)) \in Nat
BY BarrierAssumption, FS_Subset, FS_CardinalityType DEF At

LEMMA MetIsFinite == IsFiniteSet(Met) /\ Cardinality(Met) \in Nat
BY BarrierAssumption, FS_Subset, FS_CardinalityType DEF Met

LEMMA Nonempty ==
  ASSUME NEW S, IsFiniteSet(S), NEW x \in S
  PROVE  Cardinality(S) > 0
BY FS_EmptySet, FS_CardinalityType

\* Somebody has got past pthread_once: the barrier has been initialised.
LEMMA Ready ==
  ASSUME IInv, NEW t \in Threads,
         pc[t] \notin {"once", "once_test", "once_init", "once_done", "cancel", "cancel_return",
                       "cancelled", "crashed"}
  PROVE  done /\ inits = 1 /\ height + Cardinality(Met) = Count
         /\ arrivals = serials * Count + (IF Passing THEN Count ELSE Count - height)
         /\ (height = 0 => At({"transfer"}) # {} \/ Passing)
<1>1. done /\ inits = 1
  BY DEF IInv, OnceInv
<1> QED
  BY <1>1 DEF IInv, MeetInv

\* Who has the lock of the barrier: nobody passes.
LEMMA Holding1 ==
  ASSUME IInv, NEW t \in Threads, mcs[t] = "held", nodeLock[t] = BarrierLock
  PROVE  /\ ~ProxyQueued /\ ~Passing /\ sem = 0
         /\ \A u \in Threads :
              /\ pc[u] \notin {"post", "count", "release_proxy"}
              /\ pc[u] \in {"transfer", "release"} => u = t
              /\ pc[u] = "crashed" => mcs[u] = "held" /\ (nodeLock[u] = BarrierLock => u = t)
<1>1. ~ProxyQueued
  BY HolderExcludesProxy DEF IInv
<1>2. sem = 0
  BY <1>1 DEF IInv, TypeOK, ProxyQueued
<1>3. ASSUME NEW u \in Threads
      PROVE  pc[u] \notin {"post", "count", "release_proxy"}
  BY <1>1, <1>3 DEF ProxyQueued, At
<1>4. ~Passing
  BY <1>2, <1>3 DEF Passing, At
<1>5. ASSUME NEW u \in Threads, mcs[u] = "held", nodeLock[u] = BarrierLock
      PROVE  u = t
  BY <1>5, OneHolder, NodeFacts DEF IInv
<1>6. ASSUME NEW u \in Threads, pc[u] = "crashed"
      PROVE  mcs[u] = "held"
  BY <1>1, <1>6 DEF IInv, PcInv, Placed, ProxyQueued
<1>7. ASSUME NEW u \in Threads, pc[u] \in {"transfer", "release"}
      PROVE  u = t
  BY <1>5, <1>7 DEF IInv, PcInv, Placed, HasBarrierAt
<1> QED
  BY <1>1, <1>2, <1>3, <1>4, <1>5, <1>6, <1>7

\* Whoever gets the lock finds the barrier open for its meeting.
LEMMA Arriving ==
  ASSUME IInv, NEW t \in Threads, pc[t] = "arrive", mcs[t] = "held"
  PROVE  /\ inits = 1 /\ height \in 1 .. Count /\ arrivals < MaxArrivals
         /\ arrivals = serials * Count + (Count - height)
         /\ height + Cardinality(Met) = Count
         /\ At({"transfer"}) = {}
<1>1. nodeLock[t] = BarrierLock
  BY DEF IInv, PcInv, Placed
<1>2. At({"transfer"}) = {}
  BY <1>1, Holding1 DEF At
<1>3. /\ inits = 1 /\ height + Cardinality(Met) = Count /\ ~Passing
      /\ arrivals = serials * Count + (Count - height)
      /\ (height = 0 => At({"transfer"}) # {} \/ Passing)
  BY <1>1, Ready, Holding1
<1>4. height \in 1 .. Count
  BY <1>2, <1>3, NodeFacts DEF IInv, TypeOK
<1>5. Cardinality(At({"arrive"})) > 0
  BY AtIsFinite, Nonempty DEF At
<1>6. arrivals < MaxArrivals
  BY <1>5, AtIsFinite, BarrierAssumption DEF IInv, MeetInv, TypeOK
<1> QED
  BY <1>2, <1>3, <1>4, <1>6

\* While a thread is to be counted out, the others of its meeting wait or are
\* to be counted out too.
LEMMA Counting ==
  ASSUME IInv, NEW t \in Threads, pc[t] \in {"post", "count"}
  PROVE  /\ inits = 1 /\ height \in 0 .. Count - 1 /\ Passing /\ t \in Met
         /\ height + Cardinality(Met) = Count
         /\ arrivals = serials * Count + Count
         /\ \A u \in Threads :
              /\ pc[u] \notin {"transfer", "release", "release_proxy"}
              /\ pc[u] = "crashed" => mcs[u] = "held" /\ nodeLock[u] # BarrierLock
              /\ pc[t] = "count" => pc[u] # "post"
         /\ Met = At({"wait", "post", "count"})
<1>1. ProxyQueued /\ Passing /\ t \in Met
  BY DEF ProxyQueued, Passing, At, Met
<1>2. /\ inits = 1 /\ height + Cardinality(Met) = Count
      /\ arrivals = serials * Count + Count
  BY <1>1, Ready
<1>3. height \in 0 .. Count - 1
  <2>1. Cardinality(Met) > 0
    BY <1>1, MetIsFinite, Nonempty
  <2> QED
    BY <1>2, <2>1, MetIsFinite, NodeFacts DEF IInv, TypeOK
<1>4. ASSUME NEW u \in Threads, mcs[u] = "held", nodeLock[u] = BarrierLock
      PROVE  FALSE
  BY <1>1, <1>4, HolderExcludesProxy DEF IInv
<1>5. ASSUME NEW u \in Threads
      PROVE  pc[u] \notin {"transfer", "release", "release_proxy"}
  <2>1. pc[u] \notin {"transfer", "release"}
    BY <1>4 DEF IInv, PcInv, Placed, HasBarrierAt
  <2>2. pc[u] # "release_proxy"
    BY <1>3, NodeFacts DEF IInv, MeetInv, At
  <2> QED
    BY <2>1, <2>2
<1>6. ASSUME NEW u \in Threads, pc[u] = "crashed"
      PROVE  mcs[u] = "held" /\ nodeLock[u] # BarrierLock
  <2>1. mcs[u] # "out"
    BY <1>6 DEF IInv, OneInv
  <2> QED
    BY <1>4, <1>6, <2>1 DEF IInv, PcInv, Placed
<1>7. ASSUME NEW u \in Threads, pc[t] = "count"
      PROVE  pc[u] # "post"
  BY <1>7 DEF IInv, OneInv
<1>8. Met = At({"wait", "post", "count"})
  BY <1>5, <1>6 DEF Met, At
<1> QED
  BY <1>1, <1>2, <1>3, <1>5, <1>6, <1>7, <1>8

-----------------------------------------------------------------------------
(***************************************************************************)
(* The step of a thread leaves the others where they are                   *)
(***************************************************************************)

McsOthersStay(t) ==
  \A u \in Threads \ {t} : UNCHANGED <<mcs[u], nodeLock[u], pred[u]>>

PcOthersStay(t) == \A u \in Threads \ {t} : UNCHANGED pc[u]

LEMMA GoToOthers ==
  ASSUME PcTypeOK, NEW t \in Threads, NEW from, NEW to, GoTo(t, from, to)
  PROVE  PcOthersStay(t) /\ pc[t] = from /\ pc'[t] = to
BY DEF GoTo, PcTypeOK, PcOthersStay

LEMMA OthersPlaced ==
  ASSUME PcInv, NEW t \in Threads, McsOthersStay(t), PcOthersStay(t), Placed(t)'
  PROVE  PcInv'
BY DEF PcInv, McsOthersStay, PcOthersStay, Placed

LEMMA AcquireOthers ==
  ASSUME McsTypeOK, NEW t \in Threads, NEW l \in Locks, LockAcquire(t, l)
  PROVE  /\ McsOthersStay(t) /\ mcs'[t] # "out" /\ nodeLock'[t] = l
         /\ nodeLock'[Proxy] = nodeLock[Proxy]
         /\ mcs'[t] \in {"link", "tell"} => pred'[t] \in Nodes
BY NodeFacts DEF LockAcquire, McsTypeOK, McsOthersStay

LEMMA QueueOthers ==
  ASSUME McsTypeOK, NEW t \in Threads, Acquiring(t), mcs[t] \in {"link", "tell"} => pred[t] \in Nodes
  PROVE  /\ McsOthersStay(t) /\ mcs[t] # "out" /\ mcs[t] # "held" /\ mcs'[t] # "out"
         /\ nodeLock' = nodeLock
         /\ mcs'[t] \in {"link", "tell"} => pred'[t] \in Nodes
BY NodeFacts DEF Acquiring, Link, Tell, AwaitReady, WakeReady, nodeVars, McsTypeOK, McsOthersStay

LEMMA LeaveOthers ==
  ASSUME McsTypeOK, NEW t \in Threads, Leave(t)
  PROVE  McsOthersStay(t) /\ mcs' = mcs /\ pred' = pred /\ nodeLock'[Proxy] = nodeLock[Proxy]
BY NodeFacts DEF Leave, McsTypeOK, McsOthersStay

LEMMA TransferOthers ==
  ASSUME McsTypeOK, NEW t \in Threads, NodeTransfer(t, Proxy)
  PROVE  /\ McsOthersStay(t) /\ mcs'[t] = "out" /\ pred' = pred
         /\ nodeLock'[t] = nodeLock[t] /\ nodeLock'[Proxy] = nodeLock[t]
BY NodeFacts DEF NodeTransfer, McsTypeOK, McsOthersStay

\* Steps outside the meeting, and in the queue for it.
OutsideAt == {"once", "once_test", "once_init", "once_done", "once_release", "once_return",
              "cancel", "cancel_return", "cancelled", "ready"}

LEMMA OutsideKeeps ==
  ASSUME IInv, NEW t \in Threads, McsOthersStay(t), PcOthersStay(t),
         UNCHANGED <<inits, barrierVars>>,
         \/ pc[t] \in OutsideAt /\ pc'[t] \in OutsideAt
         \/ /\ pc[t] \in OutsideAt /\ pc'[t] = "crashed"
            /\ mcs'[t] = "held" /\ nodeLock'[t] = OnceLock
         \/ pc[t] = "arrive" /\ pc'[t] = "arrive"
  PROVE  MeetInv' /\ OneInv' /\ DestroyInv' /\ (ProxyQueued' <=> ProxyQueued)
<1>1. \A u \in Threads :
        \/ pc'[u] = pc[u] /\ mcs'[u] = mcs[u] /\ nodeLock'[u] = nodeLock[u]
        \/ u = t
  BY DEF McsOthersStay, PcOthersStay
<1>2. ASSUME NEW S, S \subseteq {"arrive", "transfer", "release", "wait", "post", "count",
                                 "release_proxy", "return"}
      PROVE  At(S)' = At(S)
  <2>1. \A u \in Threads : pc'[u] \in S <=> pc[u] \in S
    BY <1>1, <1>2 DEF OutsideAt
  <2> QED
    BY <2>1 DEF At
<1>3. Met' = Met
  BY <1>1, NodeFacts DEF Met, OutsideAt
<1>4. /\ At({"transfer"})' = At({"transfer"}) /\ At({"post", "count"})' = At({"post", "count"})
      /\ At({"count", "release_proxy"})' = At({"count", "release_proxy"})
      /\ At({"post"})' = At({"post"}) /\ At({"transfer", "post"})' = At({"transfer", "post"})
      /\ At({"release_proxy"})' = At({"release_proxy"}) /\ At({"arrive"})' = At({"arrive"})
      /\ At({"post", "count", "release_proxy"})' = At({"post", "count", "release_proxy"})
      /\ At({"wait"})' = At({"wait"})
  BY <1>2
<1>5. Waiting' = Waiting /\ (Passing' <=> Passing) /\ sem' = sem /\ height' = height
      /\ serials' = serials /\ arrivals' = arrivals /\ inits' = inits
      /\ generation' = generation /\ destroyed' = destroyed
  BY <1>4 DEF Waiting, Passing, barrierVars
<1>6. (\E u \in Threads : pc'[u] = "crashed" /\ mcs'[u] = "out")
      <=> (\E u \in Threads : pc[u] = "crashed" /\ mcs[u] = "out")
  BY <1>1 DEF OutsideAt
<1>7. MeetInv'
  <2>1. MeetInv
    BY DEF IInv
  <2>2. \A u \in Threads :
          /\ pc'[u] \in {"transfer", "release", "wait", "post", "count"} => pc'[u] = pc[u]
          /\ pc'[u] \in {"release_proxy", "return"} => pc'[u] = pc[u]
    BY <1>1 DEF OutsideAt
  <2> QED
    BY <1>3, <1>4, <1>5, <1>6, <2>1, <2>2 DEF MeetInv
<1>8. OneInv'
  <2>1. \A u \in Threads : pc'[u] \in {"post", "count", "release_proxy"} => pc'[u] = pc[u]
    BY <1>1 DEF OutsideAt
  <2>2. \A u \in Threads : pc'[u] = "crashed" /\ mcs'[u] = "out" => pc[u] = "crashed" /\ mcs[u] = "out"
    BY <1>1 DEF OutsideAt
  <2>3. OneInv
    BY DEF IInv
  <2> QED
    BY <2>1, <2>2, <2>3 DEF OneInv
<1>9. DestroyInv'
  <2>1. \A u \in Threads :
          pc'[u] \in {"arrive", "transfer", "release", "wait", "post", "count", "release_proxy"}
          => pc'[u] = pc[u]
    BY <1>1 DEF OutsideAt
  <2> QED
    BY <1>5, <2>1 DEF IInv, DestroyInv
<1>10. ProxyQueued' <=> ProxyQueued
  BY <1>4, <1>5, <1>6 DEF ProxyQueued
<1> QED
  BY <1>7, <1>8, <1>9, <1>10

-----------------------------------------------------------------------------
(***************************************************************************)
(* Flags: only a node that cannot be seen is told too late                 *)
(***************************************************************************)

LEMMA AcquireFlags ==
  ASSUME McsTypeOK, FlagInv, NEW t \in Threads, NEW l \in Locks, LockAcquire(t, l)
  PROVE  FlagInv'
BY NodeFacts DEF LockAcquire, McsTypeOK, FlagInv, FlagPassed

LEMMA QueueFlags ==
  ASSUME McsTypeOK, FlagInv, NEW t \in Threads, Acquiring(t)
  PROVE  FlagInv'
<1>1. None \notin Threads
  BY NodesAssumption
<1>2. CASE Link(t)
  <2>1. \A n \in Nodes : next'[n] = next[n] \/ next'[n] = t
    BY <1>2 DEF Link, McsTypeOK
  <2> QED
    BY <1>1, <1>2, <2>1 DEF Link, FlagInv
<1>3. CASE Tell(t)
  <2>1. \A n \in Nodes : n # pred[t] => nextFlag'[n] = nextFlag[n]
    BY <1>3 DEF Tell, McsTypeOK
  <2>2. ~strayed' => next[pred[t]] = t /\ ~strayed
    BY <1>3 DEF Tell
  <2> QED
    BY <1>1, <1>3, <2>1, <2>2 DEF Tell, FlagInv
<1>4. CASE AwaitReady(t) \/ WakeReady(t)
  BY <1>4 DEF AwaitReady, WakeReady, nodeVars, FlagInv
<1> QED
  BY <1>2, <1>3, <1>4 DEF Acquiring

LEMMA ReleaseFlags ==
  ASSUME McsTypeOK, FlagInv, NEW t \in Threads, NEW n \in Nodes, NEW from, NEW to,
         Releasing(t, n, from, to)
  PROVE  FlagInv'
<1>1. next' = next /\ strayed' = strayed
  BY Outcome
<1>2. CASE nextFlag' = nextFlag /\ crashed' = crashed
  BY <1>1, <1>2 DEF FlagInv
<1>3. CASE nextFlag' = [nextFlag EXCEPT ![n] = "event"] /\ crashed' = crashed
  BY <1>1, <1>3 DEF FlagInv, FlagPassed, McsTypeOK
<1>4. CASE nextFlag' = nextFlag /\ next[n] = None /\ FlagPassed(nextFlag[n])
  BY <1>1, <1>4 DEF FlagInv
<1> QED
  BY <1>2, <1>3, <1>4, Outcome

LEMMA LeaveFlags ==
  ASSUME McsTypeOK, FlagInv, NEW t \in Threads, Leave(t)
  PROVE  FlagInv'
BY NodeFacts DEF Leave, McsTypeOK, FlagInv, FlagPassed

LEMMA TransferFlags ==
  ASSUME McsTypeOK, FlagInv, NEW t \in Threads, NodeTransfer(t, Proxy)
  PROVE  FlagInv'
BY NodeFacts DEF NodeTransfer, McsTypeOK, FlagInv, FlagPassed

LEMMA SameFlags ==
  ASSUME FlagInv, UNCHANGED mcsVars
  PROVE  FlagInv'
BY DEF FlagInv, mcsVars, nodeVars

LEMMA SameMcs ==
  ASSUME McsTypeOK, UNCHANGED mcsVars
  PROVE  McsTypeOK' /\ (\A t \in Threads : McsOthersStay(t)) /\ UNCHANGED <<mcs, nodeLock, pred>>
BY DEF McsTypeOK, mcsVars, nodeVars, McsOthersStay

LEMMA SameQueues ==
  ASSUME QueueInv, UNCHANGED mcsVars, ProxyQueued' <=> ProxyQueued
  PROVE  QueueInv'
BY OtherQueues DEF mcsVars, nodeVars

-----------------------------------------------------------------------------
(***************************************************************************)
(* pthread_once                                                            *)
(***************************************************************************)

\* A thread that moves within pthread_once neither initialises nor ends it.
LEMMA OnceStays ==
  ASSUME OnceInv, NEW t \in Threads, PcOthersStay(t), UNCHANGED <<done, inits>>,
         ProxyQueued' <=> ProxyQueued, nodeLock'[Proxy] = nodeLock[Proxy],
         pc[t] = "once_done" <=> pc'[t] = "once_done",
         pc'[t] = "once_init" => ~done,
         pc'[t] \in {"once", "once_test", "once_init", "once_done", "cancel", "cancel_return",
                     "cancelled", "crashed"} \/ done
  PROVE  OnceInv'
<1>1. At({"once_done"})' = At({"once_done"})
  BY DEF At, PcOthersStay
<1>2. At({"once_init", "once_done"})' # {} => ~done
  BY DEF At, PcOthersStay, OnceInv
<1> QED
  BY <1>1, <1>2 DEF OnceInv, PcOthersStay

LEMMA TypesNext ==
  ASSUME McsTypeOK', NumbersOK'
  PROVE  TypeOK'
BY DEF McsTypeOK, NumbersOK, TypeOK

LEMMA PcTypes ==
  ASSUME PcTypeOK, NumbersOK, NEW t \in Threads, NEW from, NEW to, GoTo(t, from, to),
         to \in OutAt \cup HasOnceAt \cup HasBarrierAt \cup {"once_test", "arrive", "crashed"},
         McsTypeOK', inits' \in Nat, done' \in BOOLEAN, destroyed' \in BOOLEAN, serials' \in Nat,
         generation' \in [Threads -> Nat]
  PROVE  PcTypeOK'
BY DEF GoTo, PcTypeOK, McsTypeOK

LEMMA OnceDoneKeeps ==
  ASSUME IInv, NEW t \in Threads, OnceDone(t)
  PROVE  IInv'
<1>1. McsTypeOK /\ NumbersOK /\ PcTypeOK
  BY TypeParts DEF IInv
<1>2. /\ GoTo(t, "once", "ready") /\ done /\ UNCHANGED <<mcsVars, onceVars, barrierVars>>
  BY DEF OnceDone
<1>3. PcOthersStay(t) /\ McsOthersStay(t) /\ pc[t] = "once" /\ pc'[t] = "ready"
      /\ UNCHANGED <<mcs, nodeLock, pred>> /\ McsTypeOK'
  BY <1>1, <1>2, GoToOthers, SameMcs
<1>4. NumbersOK' /\ PcTypeOK'
  BY <1>1, <1>2, <1>3, PcTypes DEF NumbersOK, PcTypeOK, OutAt, onceVars, barrierVars
<1>5. PcInv'
  BY <1>3, OthersPlaced DEF IInv, PcInv, Placed, OutAt, HasOnceAt, HasBarrierAt
<1>6. MeetInv' /\ OneInv' /\ DestroyInv' /\ (ProxyQueued' <=> ProxyQueued)
  BY <1>2, <1>3, OutsideKeeps DEF OutsideAt, onceVars
<1>7. QueueInv' /\ FlagInv'
  BY <1>2, <1>6, SameQueues, SameFlags DEF IInv
<1>8. OnceInv'
  BY <1>2, <1>3, <1>6, OnceStays DEF IInv, onceVars
<1> QED
  BY <1>3, <1>4, <1>5, <1>6, <1>7, <1>8, TypesNext DEF IInv

LEMMA OnceAcquireKeeps ==
  ASSUME IInv, NEW t \in Threads, OnceAcquire(t)
  PROVE  IInv'
<1>1. McsTypeOK /\ NumbersOK /\ PcTypeOK
  BY TypeParts DEF IInv
<1>2. /\ GoTo(t, "once", "once_test") /\ ~done /\ LockAcquire(t, OnceLock)
      /\ UNCHANGED <<onceVars, barrierVars>>
  BY DEF OnceAcquire
<1>3. /\ PcOthersStay(t) /\ McsOthersStay(t) /\ pc[t] = "once" /\ pc'[t] = "once_test"
      /\ mcs'[t] # "out" /\ nodeLock'[t] = OnceLock /\ nodeLock'[Proxy] = nodeLock[Proxy]
      /\ (mcs'[t] \in {"link", "tell"} => pred'[t] \in Nodes) /\ McsTypeOK'
  BY <1>1, <1>2, GoToOthers, AcquireOthers, AcquireTypes, NodeFacts
<1>4. NumbersOK' /\ PcTypeOK'
  BY <1>1, <1>2, <1>3, PcTypes DEF NumbersOK, PcTypeOK, onceVars, barrierVars
<1>5. PcInv'
  BY <1>3, OthersPlaced DEF IInv, Placed, OutAt, HasOnceAt, HasBarrierAt
<1>6. MeetInv' /\ OneInv' /\ DestroyInv' /\ (ProxyQueued' <=> ProxyQueued)
  BY <1>2, <1>3, OutsideKeeps DEF OutsideAt, onceVars
<1>7. QueueInv' /\ FlagInv'
  BY <1>1, <1>2, <1>6, AcquireQueues, AcquireFlags, NodeFacts DEF IInv
<1>8. OnceInv'
  BY <1>2, <1>3, <1>6, OnceStays DEF IInv, onceVars
<1> QED
  BY <1>3, <1>4, <1>5, <1>6, <1>7, <1>8, TypesNext DEF IInv

\* With the lock held: the test, and a cancellation.
LEMMA OnceTestKeeps ==
  ASSUME IInv, NEW t \in Threads, OnceTest(t) \/ OnceCancelled(t)
  PROVE  IInv'
<1>1. McsTypeOK /\ NumbersOK /\ PcTypeOK
  BY TypeParts DEF IInv
<1>2. PICK from \in {"once_test", "once_init"}, to \in {"once_release", "once_init", "cancel"} :
        /\ GoTo(t, from, to) /\ mcs[t] = "held" /\ UNCHANGED <<mcsVars, onceVars, barrierVars>>
        /\ to = "once_release" => done
        /\ to = "once_init" => ~done
  BY DEF OnceTest, OnceCancelled, Holding
<1>3. /\ PcOthersStay(t) /\ McsOthersStay(t) /\ pc[t] = from /\ pc'[t] = to
      /\ UNCHANGED <<mcs, nodeLock, pred>> /\ McsTypeOK'
  BY <1>1, <1>2, GoToOthers, SameMcs
<1>4. NumbersOK' /\ PcTypeOK'
  BY <1>1, <1>2, <1>3, PcTypes DEF NumbersOK, PcTypeOK, HasOnceAt, onceVars, barrierVars
<1>5. PcInv'
  BY <1>2, <1>3, OthersPlaced DEF IInv, PcInv, Placed, OutAt, HasOnceAt, HasBarrierAt
<1>6. MeetInv' /\ OneInv' /\ DestroyInv' /\ (ProxyQueued' <=> ProxyQueued)
  BY <1>2, <1>3, OutsideKeeps DEF OutsideAt, onceVars
<1>7. QueueInv' /\ FlagInv'
  BY <1>2, <1>6, SameQueues, SameFlags DEF IInv
<1>8. OnceInv'
  BY <1>2, <1>3, <1>6, OnceStays DEF IInv, onceVars
<1> QED
  BY <1>3, <1>4, <1>5, <1>6, <1>7, <1>8, TypesNext DEF IInv

LEMMA OnceReleaseKeeps ==
  ASSUME IInv, NEW t \in Threads, OnceRelease(t) \/ CancelRelease(t)
  PROVE  IInv'
<1>1. McsTypeOK /\ NumbersOK /\ PcTypeOK /\ t \in Nodes
  BY TypeParts, NodeFacts DEF IInv
<1>2. PICK from \in {"once_release", "cancel"}, to \in {"once_return", "cancel_return"} :
        /\ Releasing(t, t, from, to) /\ UNCHANGED <<onceVars, barrierVars>>
        /\ from = "once_release" <=> to = "once_return"
  BY DEF OnceRelease, CancelRelease
<1>3. /\ McsTypeOK' /\ pc[t] = from /\ UNCHANGED <<next, nodeLock, pred, strayed>>
      /\ \/ mcs' = [mcs EXCEPT ![t] = "out"] /\ pc' = [pc EXCEPT ![t] = to]
         \/ UNCHANGED <<mcs, pc>>
         \/ UNCHANGED mcs /\ pc' = [pc EXCEPT ![t] = "crashed"]
  BY <1>1, <1>2, Outcome
<1>4. /\ mcs[t] = "held" /\ nodeLock[t] = OnceLock /\ (from = "once_release" => done)
  BY <1>3 DEF IInv, PcInv, Placed, HasOnceAt, OnceInv
<1>5. /\ PcOthersStay(t) /\ McsOthersStay(t) /\ UNCHANGED <<nodeLock, pred>>
      /\ \/ mcs'[t] = "out" /\ pc'[t] = to
         \/ mcs'[t] = "held" /\ pc'[t] = from
         \/ mcs'[t] = "held" /\ pc'[t] = "crashed"
  BY <1>1, <1>3, <1>4 DEF PcTypeOK, McsTypeOK, PcOthersStay, McsOthersStay
<1>6. NumbersOK' /\ PcTypeOK'
  BY <1>1, <1>2, <1>3 DEF NumbersOK, PcTypeOK, McsTypeOK, OutAt, onceVars, barrierVars
<1>7. PcInv'
  BY <1>4, <1>5, OthersPlaced DEF IInv, PcInv, Placed, OutAt, HasOnceAt, HasBarrierAt
<1>8. MeetInv' /\ OneInv' /\ DestroyInv' /\ (ProxyQueued' <=> ProxyQueued)
  BY <1>2, <1>3, <1>4, <1>5, OutsideKeeps DEF OutsideAt, onceVars
<1>9. QueueInv'
  BY <1>2, <1>4, <1>8, OwnReleaseQueues, NodeFacts DEF IInv
<1>10. FlagInv'
  BY <1>1, <1>2, ReleaseFlags DEF IInv
<1>11. OnceInv'
  BY <1>2, <1>3, <1>4, <1>5, <1>8, OnceStays DEF IInv, onceVars
<1> QED
  BY <1>3, <1>6, <1>7, <1>8, <1>9, <1>10, <1>11, TypesNext DEF IInv

LEMMA OnceReturnKeeps ==
  ASSUME IInv, NEW t \in Threads, OnceReturn(t) \/ CancelReturn(t)
  PROVE  IInv'
<1>1. McsTypeOK /\ NumbersOK /\ PcTypeOK
  BY TypeParts DEF IInv
<1>2. PICK from \in {"once_return", "cancel_return"}, to \in {"ready", "cancelled"} :
        /\ GoTo(t, from, to) /\ Leave(t) /\ UNCHANGED <<onceVars, barrierVars>>
        /\ from = "once_return" <=> to = "ready"
  BY DEF OnceReturn, CancelReturn
<1>3. /\ PcOthersStay(t) /\ McsOthersStay(t) /\ pc[t] = from /\ pc'[t] = to
      /\ UNCHANGED <<mcs, pred>> /\ nodeLock'[Proxy] = nodeLock[Proxy] /\ McsTypeOK'
  BY <1>1, <1>2, GoToOthers, LeaveOthers, LeaveTypes
<1>4. mcs[t] = "out" /\ (from = "once_return" => done)
  BY <1>3 DEF IInv, PcInv, Placed, OutAt, OnceInv
<1>5. NumbersOK' /\ PcTypeOK'
  BY <1>1, <1>2, <1>3, PcTypes DEF NumbersOK, PcTypeOK, OutAt, onceVars, barrierVars
<1>6. PcInv'
  BY <1>3, <1>4, OthersPlaced DEF IInv, PcInv, Placed, OutAt, HasOnceAt, HasBarrierAt
<1>7. MeetInv' /\ OneInv' /\ DestroyInv' /\ (ProxyQueued' <=> ProxyQueued)
  BY <1>2, <1>3, OutsideKeeps DEF OutsideAt, onceVars
<1>8. QueueInv' /\ FlagInv'
  BY <1>1, <1>2, <1>4, <1>7, LeaveQueues, LeaveFlags DEF IInv
<1>9. OnceInv'
  BY <1>2, <1>3, <1>4, <1>7, OnceStays DEF IInv, onceVars
<1> QED
  BY <1>3, <1>5, <1>6, <1>7, <1>8, <1>9, TypesNext DEF IInv

\* A wait for a lock, of the once control or of the barrier.
LEMMA QueueKeeps ==
  ASSUME IInv, NEW t \in Threads, Queue(t)
  PROVE  IInv'
<1>1. McsTypeOK /\ NumbersOK /\ PcTypeOK
  BY TypeParts DEF IInv
<1>2. Acquiring(t) /\ UNCHANGED <<pc, onceVars, barrierVars>>
  BY DEF Queue
<1>3. mcs[t] \in {"link", "tell"} => pred[t] \in Nodes
  BY DEF IInv, PcInv, Placed
<1>4. /\ PcOthersStay(t) /\ McsOthersStay(t) /\ pc'[t] = pc[t] /\ nodeLock' = nodeLock
      /\ mcs[t] # "out" /\ mcs[t] # "held" /\ mcs'[t] # "out"
      /\ (mcs'[t] \in {"link", "tell"} => pred'[t] \in Nodes) /\ McsTypeOK'
  BY <1>1, <1>2, <1>3, QueueOthers, QueueTypes DEF PcOthersStay
<1>5. pc[t] \in {"once_test", "arrive"} /\ nodeLock[t] \in Locks
  <2>1. Placed(t)
    BY DEF IInv, PcInv
  <2>2. pc[t] \in {"once_test", "arrive"}
    BY <1>1, <1>4, <2>1 DEF PcTypeOK, Placed
  <2> QED
    BY <2>1, <2>2, NodeFacts DEF Placed
<1>6. NumbersOK' /\ PcTypeOK'
  BY <1>1, <1>2, <1>4 DEF NumbersOK, PcTypeOK, McsTypeOK, onceVars, barrierVars
<1>7. PcInv'
  BY <1>4, <1>5, OthersPlaced DEF IInv, PcInv, Placed, OutAt, HasOnceAt, HasBarrierAt
<1>8. MeetInv' /\ OneInv' /\ DestroyInv' /\ (ProxyQueued' <=> ProxyQueued)
  BY <1>2, <1>4, <1>5, OutsideKeeps DEF OutsideAt, onceVars
<1>9. QueueInv'
  BY <1>2, <1>5, <1>8, LinkQueues, WaitQueues DEF IInv, Acquiring
<1>10. FlagInv'
  BY <1>1, <1>2, QueueFlags DEF IInv
<1>11. OnceInv'
  <2>1. pc[t] = "once_test" \/ done
    BY <1>5 DEF IInv, OnceInv
  <2> QED
    BY <1>2, <1>4, <1>5, <1>8, <2>1, OnceStays DEF IInv, onceVars
<1> QED
  BY <1>4, <1>6, <1>7, <1>8, <1>9, <1>10, <1>11, TypesNext DEF IInv

LEMMA OnceSetDoneKeeps ==
  ASSUME IInv, NEW t \in Threads, OnceSetDone(t)
  PROVE  IInv'
<1>1. McsTypeOK /\ NumbersOK /\ PcTypeOK
  BY TypeParts DEF IInv
<1>2. /\ GoTo(t, "once_done", "once_release") /\ mcs[t] = "held" /\ done' = TRUE
      /\ UNCHANGED <<mcsVars, inits, barrierVars>>
  BY DEF OnceSetDone, Holding
<1>3. /\ PcOthersStay(t) /\ McsOthersStay(t) /\ pc[t] = "once_done" /\ pc'[t] = "once_release"
      /\ UNCHANGED <<mcs, nodeLock, pred>> /\ McsTypeOK'
  BY <1>1, <1>2, GoToOthers, SameMcs
<1>4. NumbersOK' /\ PcTypeOK'
  BY <1>1, <1>2, <1>3, PcTypes DEF NumbersOK, PcTypeOK, HasOnceAt, barrierVars
<1>5. PcInv'
  BY <1>2, <1>3, OthersPlaced DEF IInv, PcInv, Placed, OutAt, HasOnceAt, HasBarrierAt
<1>6. MeetInv' /\ OneInv' /\ DestroyInv' /\ (ProxyQueued' <=> ProxyQueued)
  BY <1>2, <1>3, OutsideKeeps DEF OutsideAt
<1>7. QueueInv' /\ FlagInv'
  BY <1>2, <1>6, SameQueues, SameFlags DEF IInv
<1>8. OnceInv'
  <2>1. At({"once_init", "once_done"}) = {t}
    BY <1>3, Initialising
  <2>2. At({"once_init", "once_done"})' = {}
    BY <1>3, <2>1 DEF At, PcOthersStay
  <2>3. inits = 1
    BY <1>3 DEF IInv, OnceInv, At
  <2> QED
    BY <1>2, <1>3, <1>6, <2>2, <2>3 DEF IInv, OnceInv
<1> QED
  BY <1>3, <1>4, <1>5, <1>6, <1>7, <1>8, TypesNext DEF IInv

LEMMA OnceInitKeeps ==
  ASSUME IInv, NEW t \in Threads, OnceInit(t)
  PROVE  IInv'
<1>1. McsTypeOK /\ NumbersOK /\ PcTypeOK
  BY TypeParts DEF IInv
<1>2. /\ GoTo(t, "once_init", "once_done") /\ mcs[t] = "held"
      /\ height' = Count /\ sem' = 0 /\ inits' = inits + 1
      /\ UNCHANGED <<mcsVars, done, destroyed, arrivals, generation, serials>>
  BY DEF OnceInit, Holding
<1>3. /\ PcOthersStay(t) /\ McsOthersStay(t) /\ pc[t] = "once_init" /\ pc'[t] = "once_done"
      /\ UNCHANGED <<mcs, nodeLock, pred>> /\ McsTypeOK'
  BY <1>1, <1>2, GoToOthers, SameMcs
<1>4. NumbersOK' /\ PcTypeOK'
  BY <1>1, <1>2, <1>3, PcTypes, NodeFacts DEF NumbersOK, PcTypeOK, HasOnceAt
<1>5. PcInv'
  BY <1>2, <1>3, OthersPlaced DEF IInv, PcInv, Placed, OutAt, HasOnceAt, HasBarrierAt
<1>6. /\ ~done /\ ~ProxyQueued
      /\ \A u \in Threads : /\ pc[u] \in {"once_init", "once_done"} => u = t
                            /\ pc[u] \in {"once", "once_test", "once_init", "once_done", "cancel",
                                          "cancel_return", "cancelled", "crashed"}
  BY <1>3, Initialising DEF At
<1>7. inits = 0
  BY <1>3, <1>6 DEF IInv, OnceInv, At
<1>8. \A u \in Threads :
        pc'[u] \in {"once", "once_test", "once_init", "once_done", "cancel",
                    "cancel_return", "cancelled", "crashed"}
  BY <1>3, <1>6 DEF PcOthersStay
<1>9. ~ProxyQueued'
  BY <1>2, <1>3, <1>6, <1>8 DEF ProxyQueued, At, PcOthersStay
<1>10. QueueInv' /\ FlagInv'
  BY <1>2, <1>6, <1>9, SameQueues, SameFlags DEF IInv
<1>11. OnceInv'
  <2>1. t \in At({"once_done"})'
    BY <1>3 DEF At
  <2> QED
    BY <1>2, <1>6, <1>7, <1>8, <1>9, <2>1 DEF OnceInv
<1>12. MeetInv'
  <2>1. Met = {} /\ arrivals = 0 /\ serials = 0
    BY <1>7 DEF IInv, MeetInv
  <2>2. Met' = {}
    BY <1>3, <1>8, <2>1 DEF Met, PcOthersStay
  <2>3. /\ At({"count", "release_proxy"})' = {} /\ At({"post", "count"})' = {}
        /\ At({"post"})' = {} /\ At({"transfer", "post"})' = {} /\ At({"release_proxy"})' = {}
        /\ At({"arrive"})' = {}
    BY <1>8 DEF At
  <2>4. ~Passing'
    BY <1>2, <2>3 DEF Passing
  <2>5. Cardinality(Met') = 0 /\ Cardinality(At({"arrive"})') = 0
    BY <2>2, <2>3, FS_EmptySet
  <2>6. inits' = 1 /\ arrivals' = 0 /\ serials' = 0 /\ serials' * Count = 0
    BY <1>2, <1>7, <2>1, NodeFacts
  <2>7. 0 <= MaxArrivals /\ Count # 0 /\ Count + 0 = Count /\ Count - Count = 0
    BY BarrierAssumption
  <2> QED
    BY <1>2, <1>8, <2>3, <2>4, <2>5, <2>6, <2>7 DEF MeetInv
<1>13. OneInv'
  BY <1>3, <1>6, <1>8, <1>9 DEF OneInv, ProxyQueued
<1>14. DestroyInv'
  BY <1>8 DEF DestroyInv
<1> QED
  BY <1>3, <1>4, <1>5, <1>10, <1>11, <1>12, <1>13, <1>14, TypesNext DEF IInv

-----------------------------------------------------------------------------
(***************************************************************************)
(* pthread_barrier_wait                                                    *)
(***************************************************************************)

LEMMA Monotone ==
  ASSUME NEW m \in Nat, NEW n \in Nat, NEW c \in Nat, m <= n
  PROVE  m * c <= n * c
<1>1. PICK d \in Nat : n = m + d
  <2>1. n - m \in Nat /\ n = m + (n - m)
    OBVIOUS
  <2> QED
    BY <2>1
<1>2. n * c = m * c + d * c
  BY <1>1
<1>3. d * c \in Nat /\ m * c \in Nat
  OBVIOUS
<1> QED
  BY <1>2, <1>3

\* Division with remainder: how many meetings are complete.
LEMMA OneQuotient ==
  ASSUME NEW q \in Nat, NEW n \in Nat, NEW c \in Nat, NEW r \in 0 .. c - 1, NEW s \in 0 .. c - 1,
         q * c + s = n * c + r
  PROVE  q <= n
<1> SUFFICES ASSUME n + 1 <= q
             PROVE  FALSE
  OBVIOUS
<1>1. (n + 1) * c <= q * c
  BY Monotone
<1>2. (n + 1) * c = n * c + c
  OBVIOUS
<1>3. n * c \in Nat /\ q * c \in Nat
  OBVIOUS
<1> DEFINE x == n * c
           y == q * c
<1>4. x + c <= y /\ x \in Nat /\ y \in Nat /\ y + s = x + r
  BY <1>1, <1>2, <1>3
<1> HIDE DEF x, y
<1> QED
  BY <1>4

LEMMA Divide ==
  ASSUME NEW a \in Nat, NEW n \in Nat, NEW c \in Nat \ {0}, NEW r \in 0 .. c - 1, a = n * c + r
  PROVE  a \div c = n /\ a % c = r
<1> DEFINE q == a \div c
           s == a % c
<1>1. q \in Nat
  <2>1. a \div c \in Int /\ a \div c >= 0
    OBVIOUS
  <2> QED
    BY <2>1
<1>2. s \in 0 .. c - 1
  OBVIOUS
<1>3. a = q * c + s
  BY Z3
<1> HIDE DEF q, s
<1>4. q <= n /\ n <= q
  BY <1>1, <1>2, <1>3, OneQuotient
<1>5. q = n
  BY <1>1, <1>4
<1>6. n * c \in Nat
  OBVIOUS
<1>7. s = r
  <2> DEFINE x == n * c
  <2>1. x \in Nat /\ a = x + s /\ a = x + r
    BY <1>3, <1>5, <1>6
  <2> HIDE DEF x
  <2> QED
    BY <1>2, <2>1
<1> QED
  BY <1>5, <1>7 DEF q, s

LEMMA AtMoves ==
  ASSUME NEW t \in Threads, PcOthersStay(t), NEW S
  PROVE  At(S)' = IF pc'[t] \in S THEN At(S) \cup {t} ELSE At(S) \ {t}
BY DEF At, PcOthersStay

LEMMA CountUp ==
  ASSUME NEW S, IsFiniteSet(S), NEW x, x \notin S
  PROVE  Cardinality(S \cup {x}) = Cardinality(S) + 1
BY FS_AddElement

LEMMA CountDown ==
  ASSUME NEW S, IsFiniteSet(S), NEW x \in S
  PROVE  Cardinality(S \ {x}) = Cardinality(S) - 1
BY FS_RemoveElement

LEMMA BarrierAcquireKeeps ==
  ASSUME IInv, NEW t \in Threads, BarrierAcquire(t)
  PROVE  IInv'
<1>1. McsTypeOK /\ NumbersOK /\ PcTypeOK
  BY TypeParts DEF IInv
<1>2. /\ GoTo(t, "ready", "arrive") /\ ~destroyed /\ LockAcquire(t, BarrierLock)
      /\ UNCHANGED <<onceVars, barrierVars>>
      /\ arrivals + Cardinality(At({"arrive"})) < MaxArrivals
  <2>1. At({"arrive"}) = {u \in Threads : pc[u] = "arrive"}
    BY DEF At
  <2> QED
    BY <2>1 DEF BarrierAcquire
<1>3. /\ PcOthersStay(t) /\ McsOthersStay(t) /\ pc[t] = "ready" /\ pc'[t] = "arrive"
      /\ mcs'[t] # "out" /\ nodeLock'[t] = BarrierLock /\ nodeLock'[Proxy] = nodeLock[Proxy]
      /\ (mcs'[t] \in {"link", "tell"} => pred'[t] \in Nodes) /\ McsTypeOK'
  BY <1>1, <1>2, GoToOthers, AcquireOthers, AcquireTypes, NodeFacts
<1>4. NumbersOK' /\ PcTypeOK'
  BY <1>1, <1>2, <1>3, PcTypes DEF NumbersOK, PcTypeOK, onceVars, barrierVars
<1>5. PcInv'
  BY <1>3, OthersPlaced DEF IInv, Placed, OutAt, HasOnceAt, HasBarrierAt
<1>6. done /\ inits = 1
  BY <1>3, Ready
<1>7. \A u \in Threads :
        \/ pc'[u] = pc[u] /\ mcs'[u] = mcs[u] /\ nodeLock'[u] = nodeLock[u]
        \/ u = t
  BY <1>3 DEF McsOthersStay, PcOthersStay
<1>8. Met' = Met
  BY <1>3, <1>7 DEF Met
<1>9. /\ At({"transfer"})' = At({"transfer"}) /\ At({"post", "count"})' = At({"post", "count"})
      /\ At({"count", "release_proxy"})' = At({"count", "release_proxy"})
      /\ At({"post"})' = At({"post"}) /\ At({"transfer", "post"})' = At({"transfer", "post"})
      /\ At({"release_proxy"})' = At({"release_proxy"})
      /\ At({"post", "count", "release_proxy"})' = At({"post", "count", "release_proxy"})
      /\ At({"wait"})' = At({"wait"})
  BY <1>3, <1>7 DEF At
<1>10. /\ Waiting' = Waiting /\ (Passing' <=> Passing)
       /\ UNCHANGED <<sem, height, serials, arrivals, generation, destroyed, inits, done>>
  BY <1>2, <1>9 DEF Waiting, Passing, barrierVars, onceVars
<1>11. (\E u \in Threads : pc'[u] = "crashed" /\ mcs'[u] = "out")
        <=> (\E u \in Threads : pc[u] = "crashed" /\ mcs[u] = "out")
  BY <1>3, <1>7
<1>12. ProxyQueued' <=> ProxyQueued
  BY <1>9, <1>10, <1>11 DEF ProxyQueued
<1>13. QueueInv' /\ FlagInv'
  BY <1>1, <1>2, <1>12, AcquireQueues, AcquireFlags, NodeFacts DEF IInv
<1>14. OnceInv'
  BY <1>2, <1>3, <1>6, <1>12, OnceStays DEF IInv, onceVars
<1>15. MeetInv'
  <2>1. arrivals' + Cardinality(At({"arrive"})') <= MaxArrivals
    <3>1. At({"arrive"})' = At({"arrive"}) \cup {t} /\ t \notin At({"arrive"})
      BY <1>3, AtMoves DEF At
    <3>2. Cardinality(At({"arrive"})') = Cardinality(At({"arrive"})) + 1
      BY <3>1, AtIsFinite, CountUp
    <3> QED
      BY <1>1, <1>2, <1>10, <3>2, AtIsFinite, BarrierAssumption DEF NumbersOK
  <2>2. \A u \in Threads :
          /\ pc'[u] \in {"transfer", "release", "wait", "post", "count"} => pc'[u] = pc[u]
          /\ pc'[u] \in {"release_proxy", "return"} => pc'[u] = pc[u]
    BY <1>3, <1>7
  <2>3. MeetInv
    BY DEF IInv
  <2> QED
    BY <1>8, <1>9, <1>10, <1>11, <2>1, <2>2, <2>3 DEF MeetInv
<1>16. OneInv'
  <2>1. \A u \in Threads : pc'[u] \in {"post", "count", "release_proxy"} => pc'[u] = pc[u]
    BY <1>3, <1>7
  <2>2. \A u \in Threads : pc'[u] = "crashed" /\ mcs'[u] = "out" => pc[u] = "crashed" /\ mcs[u] = "out"
    BY <1>3, <1>7
  <2> QED
    BY <2>1, <2>2 DEF IInv, OneInv
<1>17. DestroyInv'
  BY <1>2, <1>10 DEF DestroyInv
<1> QED
  BY <1>3, <1>4, <1>5, <1>13, <1>14, <1>15, <1>16, <1>17, TypesNext DEF IInv

LEMMA ArriveKeeps ==
  ASSUME IInv, NEW t \in Threads, Arrive(t)
  PROVE  IInv'
<1>1. McsTypeOK /\ NumbersOK /\ PcTypeOK
  BY TypeParts DEF IInv
<1>2. PICK to \in {"transfer", "release"} :
        /\ GoTo(t, "arrive", to) /\ mcs[t] = "held" /\ (to = "transfer" <=> height = 1)
        /\ height' = height - 1 /\ arrivals' = arrivals + 1
        /\ generation' = [generation EXCEPT ![t] = arrivals \div Count + 1]
        /\ UNCHANGED <<mcsVars, onceVars, sem, destroyed, serials>>
  BY DEF Arrive, Holding
<1>3. /\ PcOthersStay(t) /\ McsOthersStay(t) /\ pc[t] = "arrive" /\ pc'[t] = to
      /\ UNCHANGED <<mcs, nodeLock, pred>> /\ McsTypeOK' /\ nodeLock[t] = BarrierLock
  BY <1>1, <1>2, GoToOthers, SameMcs DEF IInv, PcInv, Placed
<1>4. /\ inits = 1 /\ height \in 1 .. Count /\ arrivals < MaxArrivals
      /\ arrivals = serials * Count + (Count - height)
      /\ height + Cardinality(Met) = Count
      /\ At({"transfer"}) = {}
  BY <1>2, <1>3, Arriving
<1>5. /\ ~ProxyQueued /\ sem = 0
      /\ \A u \in Threads :
           /\ pc[u] \notin {"post", "count", "release_proxy"}
           /\ pc[u] \in {"transfer", "release"} => u = t
           /\ pc[u] = "crashed" => mcs[u] = "held" /\ (nodeLock[u] = BarrierLock => u = t)
  BY <1>2, <1>3, Holding1
<1>6. arrivals \div Count = serials
  <2>1. Count - height \in 0 .. Count - 1 /\ Count \in Nat \ {0} /\ arrivals \in Nat
    BY <1>1, <1>4, NodeFacts, BarrierAssumption DEF NumbersOK
  <2>2. serials \in Nat
    BY <1>1 DEF PcTypeOK
  <2> QED
    BY <1>4, <2>1, <2>2, Divide
<1>7. generation' = [generation EXCEPT ![t] = serials + 1]
  BY <1>2, <1>6
<1>8. NumbersOK' /\ PcTypeOK'
  <2>1. NumbersOK'
    BY <1>1, <1>2, <1>4, NodeFacts, BarrierAssumption DEF NumbersOK
  <2>2. generation' \in [Threads -> Nat]
    BY <1>1, <1>7 DEF PcTypeOK
  <2> QED
    BY <1>1, <1>2, <1>3, <2>1, <2>2, PcTypes DEF PcTypeOK, HasBarrierAt, onceVars
<1>9. PcInv'
  BY <1>2, <1>3, OthersPlaced DEF IInv, PcInv, Placed, OutAt, HasOnceAt, HasBarrierAt
<1>10. \A u \in Threads : (pc'[u] = pc[u] /\ mcs'[u] = mcs[u] /\ nodeLock'[u] = nodeLock[u]) \/ u = t
  BY <1>3 DEF McsOthersStay, PcOthersStay
<1>11. /\ \A u \in Threads :
            /\ pc'[u] \notin {"post", "count", "release_proxy"}
            /\ pc'[u] \in {"transfer", "release"} => u = t
            /\ pc'[u] = "crashed" => mcs'[u] = "held" /\ pc[u] = "crashed"
            /\ pc'[u] = "arrive" => pc[u] = "arrive"
            /\ pc'[u] \in {"wait", "return"} => pc'[u] = pc[u] /\ generation'[u] = generation[u]
       /\ generation'[t] = serials + 1
  BY <1>1, <1>2, <1>3, <1>5, <1>7, <1>10 DEF PcTypeOK
<1>12. ~ProxyQueued' /\ ~Passing' /\ sem' = 0
  BY <1>2, <1>5, <1>11 DEF ProxyQueued, Passing, At
<1>13. QueueInv' /\ FlagInv'
  BY <1>2, <1>5, <1>12, SameQueues, SameFlags DEF IInv
<1>14. OnceInv'
  <2>1. done
    BY <1>3, Ready
  <2> QED
    BY <1>2, <1>3, <1>5, <1>12, <2>1, OnceStays DEF IInv, onceVars
<1>15. MeetInv'
  <2>1. Met' = Met \cup {t} /\ t \notin Met
    BY <1>2, <1>3, <1>10 DEF Met
  <2>2. Cardinality(Met') = Cardinality(Met) + 1
    BY <2>1, MetIsFinite, CountUp
  <2>3. height' + Cardinality(Met') = Count
    BY <1>2, <1>4, <2>2, MetIsFinite, NodeFacts
  <2>4. height' = 0 => At({"transfer"})' # {}
    <3>1. height' = 0 => pc'[t] = "transfer"
      BY <1>2, <1>3, <1>4
    <3> QED
      BY <3>1 DEF At
  <2>5. arrivals' = serials * Count + (Count - height')
    <3>1. serials * Count \in Nat
      BY <1>1, NodeFacts DEF PcTypeOK
    <3> QED
      BY <1>2, <1>4, <3>1, NodeFacts
  <2>6. At({"transfer", "post"})' # {} => height' = 0
    <3>1. pc'[t] = "transfer" => height' = 0
      BY <1>2, <1>3, <1>4
    <3> QED
      BY <1>11, <3>1 DEF At
  <2>7. /\ At({"count", "release_proxy"})' = {} /\ At({"post"})' = {}
        /\ At({"release_proxy"})' = {}
        /\ ~ \E u \in Threads : pc'[u] = "crashed" /\ mcs'[u] = "out"
    BY <1>11 DEF At
  <2>8. arrivals' + Cardinality(At({"arrive"})') <= MaxArrivals
    <3>1. At({"arrive"})' = At({"arrive"}) \ {t} /\ t \in At({"arrive"})
      BY <1>2, <1>3, AtMoves DEF At
    <3>2. Cardinality(At({"arrive"})') = Cardinality(At({"arrive"})) - 1
      BY <3>1, AtIsFinite, CountDown
    <3>3. arrivals + Cardinality(At({"arrive"})) <= MaxArrivals
      BY DEF IInv, MeetInv
    <3> QED
      BY <1>1, <1>2, <3>2, <3>3, AtIsFinite, BarrierAssumption DEF NumbersOK
  <2>9. ASSUME NEW u \in Threads
        PROVE  /\ pc'[u] \in {"transfer", "release", "wait", "post", "count"}
                  => generation'[u] = serials' + 1
               /\ pc'[u] \in {"release_proxy", "return"} => generation'[u] * Count <= arrivals'
    <3>1. pc'[u] \in {"transfer", "release"} => generation'[u] = serials' + 1
      BY <1>2, <1>11
    <3>2. pc'[u] = "wait" => generation'[u] = serials' + 1
      BY <1>2, <1>11 DEF IInv, MeetInv
    <3>3. pc'[u] = "return" => generation'[u] * Count <= arrivals'
      <4>1. pc'[u] = "return" => generation'[u] = generation[u] /\ generation[u] * Count <= arrivals
        BY <1>11 DEF IInv, MeetInv
      <4>2. generation[u] * Count \in Nat
        BY <1>1, NodeFacts DEF PcTypeOK
      <4> QED
        BY <1>1, <1>2, <4>1, <4>2, BarrierAssumption DEF NumbersOK
    <3> QED
      BY <1>11, <3>1, <3>2, <3>3
  <2>10. inits' = 1 /\ serials' = serials
    BY <1>2, <1>4 DEF onceVars
  <2> QED
    BY <1>12, <2>3, <2>4, <2>5, <2>6, <2>7, <2>8, <2>9, <2>10 DEF MeetInv
<1>16. OneInv'
  BY <1>11 DEF OneInv
<1>17. DestroyInv'
  BY <1>2, <1>3 DEF IInv, DestroyInv
<1> QED
  BY <1>3, <1>8, <1>9, <1>13, <1>14, <1>15, <1>16, <1>17, TypesNext DEF IInv

\* Past pthread_once nothing of it changes.
LEMMA OnceOver ==
  ASSUME OnceInv, done, NEW t \in Threads, PcOthersStay(t),
         pc'[t] \notin {"once_init", "once_done"}, UNCHANGED onceVars,
         ProxyQueued' => nodeLock'[Proxy] = BarrierLock
  PROVE  OnceInv'
<1>1. At({"once_init", "once_done"})' = {}
  BY DEF OnceInv, At, PcOthersStay
<1>2. At({"once_done"})' = {} /\ inits' = 1
  BY <1>1 DEF OnceInv, At, onceVars
<1> QED
  BY <1>1, <1>2 DEF OnceInv, onceVars

LEMMA TransferKeeps ==
  ASSUME IInv, NEW t \in Threads, Transfer(t)
  PROVE  IInv'
<1>1. McsTypeOK /\ NumbersOK /\ PcTypeOK
  BY TypeParts DEF IInv
<1>2. GoTo(t, "transfer", "post") /\ NodeTransfer(t, Proxy) /\ UNCHANGED <<onceVars, barrierVars>>
  BY DEF Transfer
<1>3. /\ PcOthersStay(t) /\ McsOthersStay(t) /\ pc[t] = "transfer" /\ pc'[t] = "post"
      /\ mcs'[t] = "out" /\ pred' = pred /\ nodeLock'[t] = nodeLock[t]
      /\ nodeLock'[Proxy] = nodeLock[t] /\ McsTypeOK'
  BY <1>1, <1>2, GoToOthers, TransferOthers, TransferTypes
<1>4. mcs[t] = "held" /\ nodeLock[t] = BarrierLock
  BY <1>3 DEF IInv, PcInv, Placed, HasBarrierAt
<1>5. /\ sem = 0
      /\ \A u \in Threads :
           /\ pc[u] \notin {"post", "count", "release_proxy"}
           /\ pc[u] \in {"transfer", "release"} => u = t
           /\ pc[u] = "crashed" => mcs[u] = "held" /\ (nodeLock[u] = BarrierLock => u = t)
      /\ ~Passing
  BY <1>4, Holding1
<1>6. /\ done /\ inits = 1 /\ height = 0
      /\ height + Cardinality(Met) = Count
      /\ arrivals = serials * Count + (Count - height)
  <2>1. At({"transfer", "post"}) # {}
    BY <1>3 DEF At
  <2>2. height = 0
    BY <2>1 DEF IInv, MeetInv
  <2> QED
    BY <1>3, <1>5, <2>2, Ready
<1>7. NumbersOK' /\ PcTypeOK'
  BY <1>1, <1>2, <1>3, PcTypes DEF NumbersOK, PcTypeOK, OutAt, onceVars, barrierVars
<1>8. PcInv'
  BY <1>3, OthersPlaced DEF IInv, PcInv, Placed, OutAt, HasOnceAt, HasBarrierAt
<1>9. \A u \in Threads : (pc'[u] = pc[u] /\ mcs'[u] = mcs[u] /\ nodeLock'[u] = nodeLock[u]) \/ u = t
  BY <1>3 DEF McsOthersStay, PcOthersStay
<1>10. \A u \in Threads :
         /\ pc'[u] \notin {"transfer", "release", "count", "release_proxy"}
         /\ pc'[u] = "post" => u = t
         /\ pc'[u] = "crashed" => mcs'[u] = "held"
         /\ pc'[u] \in {"wait", "arrive", "return"} <=> pc[u] \in {"wait", "arrive", "return"}
         /\ pc'[u] = "arrive" <=> pc[u] = "arrive"
         /\ pc'[u] \in {"wait", "return"} => pc[u] = pc'[u]
  BY <1>3, <1>5, <1>9
<1>11. ProxyQueued' /\ Passing'
  BY <1>3 DEF ProxyQueued, Passing, At
<1>12. QueueInv' /\ FlagInv'
  BY <1>1, <1>2, <1>4, <1>11, TransferQueues, TransferFlags DEF IInv
<1>13. OnceInv'
  BY <1>2, <1>3, <1>4, <1>6, OnceOver DEF IInv
<1>14. MeetInv'
  <2>1. Met' = Met
    BY <1>3, <1>9 DEF Met
  <2>2. At({"arrive"})' = At({"arrive"})
    BY <1>10 DEF At
  <2>3. /\ At({"count", "release_proxy"})' = {} /\ At({"release_proxy"})' = {}
        /\ ~ \E u \in Threads : pc'[u] = "crashed" /\ mcs'[u] = "out"
    BY <1>10 DEF At
  <2>4. UNCHANGED <<sem, height, serials, arrivals, generation, inits>>
    BY <1>2 DEF barrierVars, onceVars
  <2>5. arrivals' = serials' * Count + Count
    BY <1>6, <2>4, NodeFacts
  <2>6. ASSUME NEW u \in Threads
        PROVE  /\ pc'[u] \in {"transfer", "release", "wait", "post", "count"}
                  => generation'[u] = serials' + 1
               /\ pc'[u] \in {"release_proxy", "return"} => generation'[u] * Count <= arrivals'
    BY <1>3, <1>10, <2>4 DEF IInv, MeetInv
  <2>7. arrivals' + Cardinality(At({"arrive"})') <= MaxArrivals
    BY <2>2, <2>4 DEF IInv, MeetInv
  <2>8. height' = 0 /\ sem' = 0 /\ inits' = 1 /\ height' + Cardinality(Met') = Count
    BY <1>5, <1>6, <2>1, <2>4
  <2> QED
    BY <1>11, <2>3, <2>5, <2>6, <2>7, <2>8 DEF MeetInv
<1>15. OneInv'
  BY <1>10 DEF OneInv
<1>16. DestroyInv'
  BY <1>2, <1>3 DEF IInv, DestroyInv, barrierVars
<1> QED
  BY <1>3, <1>7, <1>8, <1>12, <1>13, <1>14, <1>15, <1>16, TypesNext DEF IInv

LEMMA PostKeeps ==
  ASSUME IInv, NEW t \in Threads, Post(t)
  PROVE  IInv'
<1>1. McsTypeOK /\ NumbersOK /\ PcTypeOK
  BY TypeParts DEF IInv
<1>2. /\ GoTo(t, "post", "count") /\ sem' = sem + Count - 1
      /\ UNCHANGED <<mcsVars, onceVars, height, destroyed, arrivals, generation, serials>>
  BY DEF Post
<1>3. /\ PcOthersStay(t) /\ McsOthersStay(t) /\ pc[t] = "post" /\ pc'[t] = "count"
      /\ UNCHANGED <<mcs, nodeLock, pred>> /\ McsTypeOK'
  BY <1>1, <1>2, GoToOthers, SameMcs
<1>4. sem = 0 /\ height = 0 /\ sem' = Count - 1
  <2>1. At({"post"}) # {} /\ At({"transfer", "post"}) # {}
    BY <1>3 DEF At
  <2>2. sem = 0 /\ height = 0
    BY <2>1 DEF IInv, MeetInv
  <2> QED
    BY <1>2, <2>2, NodeFacts
<1>5. /\ inits = 1 /\ t \in Met /\ height + Cardinality(Met) = Count
      /\ arrivals = serials * Count + Count
      /\ \A u \in Threads :
           /\ pc[u] \notin {"transfer", "release", "release_proxy"}
           /\ pc[u] = "crashed" => mcs[u] = "held" /\ nodeLock[u] # BarrierLock
      /\ Met = At({"wait", "post", "count"})
  BY <1>3, Counting
<1>6. \A u \in Threads : pc[u] \in {"post", "count"} => u = t
  BY <1>3 DEF IInv, OneInv
<1>7. done /\ nodeLock[Proxy] = BarrierLock /\ ProxyQueued
  <2>1. ProxyQueued
    BY <1>3 DEF ProxyQueued, At
  <2> QED
    BY <2>1 DEF IInv, OnceInv
<1>8. NumbersOK' /\ PcTypeOK'
  BY <1>1, <1>2, <1>3, <1>4, PcTypes, NodeFacts DEF NumbersOK, PcTypeOK, OutAt, onceVars
<1>9. PcInv'
  BY <1>3, OthersPlaced DEF IInv, PcInv, Placed, OutAt, HasOnceAt, HasBarrierAt
<1>10. \A u \in Threads : (pc'[u] = pc[u] /\ mcs'[u] = mcs[u] /\ nodeLock'[u] = nodeLock[u]) \/ u = t
  BY <1>3 DEF McsOthersStay, PcOthersStay
<1>11. \A u \in Threads :
         /\ pc'[u] \notin {"transfer", "release", "post", "release_proxy"}
         /\ pc'[u] = "count" => u = t
         /\ pc'[u] = "crashed" => mcs'[u] = "held"
         /\ pc'[u] = "arrive" <=> pc[u] = "arrive"
         /\ pc'[u] = "wait" <=> pc[u] = "wait"
         /\ pc'[u] = "return" => pc[u] = pc'[u]
  BY <1>3, <1>5, <1>6, <1>10
<1>12. ProxyQueued' /\ Passing'
  BY <1>3 DEF ProxyQueued, Passing, At
<1>13. QueueInv' /\ FlagInv'
  BY <1>2, <1>7, <1>12, SameQueues, SameFlags DEF IInv
<1>14. OnceInv'
  BY <1>2, <1>3, <1>7, OnceOver DEF IInv
<1>15. MeetInv'
  <2>1. Met' = Met
    BY <1>3, <1>10 DEF Met
  <2>2. At({"arrive"})' = At({"arrive"}) /\ Waiting' = Waiting
    BY <1>11 DEF At, Waiting
  <2>3. /\ At({"release_proxy"})' = {} /\ At({"post"})' = {}
        /\ ~ \E u \in Threads : pc'[u] = "crashed" /\ mcs'[u] = "out"
    BY <1>11 DEF At
  <2>4. sem' = Cardinality(Waiting')
    <3>1. Waiting = Met \ {t}
      BY <1>3, <1>5, <1>6 DEF At, Waiting
    <3>2. Cardinality(Waiting) = Cardinality(Met) - 1
      BY <1>5, <3>1, MetIsFinite, CountDown
    <3> QED
      BY <1>4, <1>5, <2>2, <3>2, MetIsFinite, NodeFacts
  <2>5. UNCHANGED <<height, serials, arrivals, generation, inits>>
    BY <1>2 DEF onceVars
  <2>6. ASSUME NEW u \in Threads
        PROVE  /\ pc'[u] \in {"transfer", "release", "wait", "post", "count"}
                  => generation'[u] = serials' + 1
               /\ pc'[u] \in {"release_proxy", "return"} => generation'[u] * Count <= arrivals'
    BY <1>3, <1>11, <2>5 DEF IInv, MeetInv
  <2>7. arrivals' + Cardinality(At({"arrive"})') <= MaxArrivals
    BY <2>2, <2>5 DEF IInv, MeetInv
  <2>8. height' = 0 /\ inits' = 1 /\ height' + Cardinality(Met') = Count
        /\ arrivals' = serials' * Count + Count
    BY <1>4, <1>5, <2>1, <2>5
  <2> QED
    BY <1>12, <2>3, <2>4, <2>6, <2>7, <2>8 DEF MeetInv
<1>16. OneInv'
  BY <1>11 DEF OneInv
<1>17. DestroyInv'
  BY <1>2, <1>3 DEF IInv, DestroyInv
<1> QED
  BY <1>3, <1>8, <1>9, <1>13, <1>14, <1>15, <1>16, <1>17, TypesNext DEF IInv

LEMMA BarrierReleaseKeeps ==
  ASSUME IInv, NEW t \in Threads, BarrierRelease(t)
  PROVE  IInv'
<1>1. McsTypeOK /\ NumbersOK /\ PcTypeOK /\ t \in Nodes
  BY TypeParts, NodeFacts DEF IInv
<1>2. Releasing(t, t, "release", "wait") /\ UNCHANGED <<onceVars, barrierVars>>
  BY DEF BarrierRelease
<1>3. /\ McsTypeOK' /\ pc[t] = "release" /\ UNCHANGED <<next, nodeLock, pred, strayed>>
      /\ \/ mcs' = [mcs EXCEPT ![t] = "out"] /\ pc' = [pc EXCEPT ![t] = "wait"]
         \/ UNCHANGED <<mcs, pc>>
         \/ UNCHANGED mcs /\ pc' = [pc EXCEPT ![t] = "crashed"]
  BY <1>1, <1>2, Outcome
<1>4. mcs[t] = "held" /\ nodeLock[t] = BarrierLock
  BY <1>3 DEF IInv, PcInv, Placed, HasBarrierAt
<1>5. /\ PcOthersStay(t) /\ McsOthersStay(t) /\ UNCHANGED <<nodeLock, pred>>
      /\ \/ mcs'[t] = "out" /\ pc'[t] = "wait"
         \/ mcs'[t] = "held" /\ pc'[t] = "release"
         \/ mcs'[t] = "held" /\ pc'[t] = "crashed"
  BY <1>1, <1>3, <1>4 DEF PcTypeOK, McsTypeOK, PcOthersStay, McsOthersStay
<1>6. /\ sem = 0 /\ ~ProxyQueued /\ ~Passing
      /\ \A u \in Threads :
           /\ pc[u] \notin {"post", "count", "release_proxy"}
           /\ pc[u] = "crashed" => mcs[u] = "held"
  BY <1>4, Holding1
<1>7. /\ done /\ inits = 1 /\ height + Cardinality(Met) = Count
      /\ arrivals = serials * Count + (Count - height)
      /\ (height = 0 => At({"transfer"}) # {})
  BY <1>3, <1>6, Ready
<1>8. NumbersOK' /\ PcTypeOK'
  BY <1>1, <1>2, <1>3 DEF NumbersOK, PcTypeOK, McsTypeOK, OutAt, onceVars, barrierVars
<1>9. PcInv'
  BY <1>4, <1>5, OthersPlaced DEF IInv, PcInv, Placed, OutAt, HasOnceAt, HasBarrierAt
<1>10. \A u \in Threads : (pc'[u] = pc[u] /\ mcs'[u] = mcs[u] /\ nodeLock'[u] = nodeLock[u]) \/ u = t
  BY <1>5 DEF McsOthersStay, PcOthersStay
<1>11. \A u \in Threads :
         /\ pc'[u] \notin {"post", "count", "release_proxy"}
         /\ pc'[u] = "crashed" => mcs'[u] = "held"
         /\ pc'[u] = "arrive" <=> pc[u] = "arrive"
         /\ pc'[u] = "transfer" <=> pc[u] = "transfer"
         /\ pc'[u] = "return" => pc[u] = pc'[u]
         /\ pc'[u] \in {"transfer", "release", "wait"} => pc[u] \in {"transfer", "release", "wait"}
  BY <1>3, <1>5, <1>6, <1>10
<1>12. UNCHANGED <<sem, height, serials, arrivals, generation, destroyed, inits, done>>
  BY <1>2 DEF barrierVars, onceVars
<1>13. ~ProxyQueued' /\ ~Passing'
  BY <1>6, <1>11, <1>12 DEF ProxyQueued, Passing, At
<1>14. QueueInv'
  BY <1>2, <1>4, <1>6, <1>13, OwnReleaseQueues, NodeFacts DEF IInv
<1>15. FlagInv'
  BY <1>1, <1>2, ReleaseFlags DEF IInv
<1>16. OnceInv'
  BY <1>2, <1>5, <1>7, <1>13, OnceOver DEF IInv
<1>17. MeetInv'
  <2>1. Met' = Met
    BY <1>3, <1>4, <1>5, <1>10 DEF Met
  <2>2. At({"arrive"})' = At({"arrive"}) /\ At({"transfer"})' = At({"transfer"})
    BY <1>11 DEF At
  <2>3. /\ At({"release_proxy"})' = {} /\ At({"post"})' = {} /\ At({"count", "release_proxy"})' = {}
        /\ ~ \E u \in Threads : pc'[u] = "crashed" /\ mcs'[u] = "out"
    BY <1>11 DEF At
  <2>4. At({"transfer", "post"})' # {} => height' = 0
    <3>1. At({"transfer", "post"})' # {} => At({"transfer", "post"}) # {}
      BY <1>11 DEF At
    <3> QED
      BY <1>12, <3>1 DEF IInv, MeetInv
  <2>5. ASSUME NEW u \in Threads
        PROVE  /\ pc'[u] \in {"transfer", "release", "wait", "post", "count"}
                  => generation'[u] = serials' + 1
               /\ pc'[u] \in {"release_proxy", "return"} => generation'[u] * Count <= arrivals'
    BY <1>11, <1>12 DEF IInv, MeetInv
  <2>6. arrivals' + Cardinality(At({"arrive"})') <= MaxArrivals
    BY <1>12, <2>2 DEF IInv, MeetInv
  <2>7. /\ sem' = 0 /\ inits' = 1 /\ height' + Cardinality(Met') = Count
        /\ arrivals' = serials' * Count + (Count - height')
        /\ (height' = 0 => At({"transfer"})' # {})
    BY <1>6, <1>7, <1>12, <2>1, <2>2
  <2> QED
    BY <1>13, <2>3, <2>4, <2>5, <2>6, <2>7 DEF MeetInv
<1>18. OneInv'
  BY <1>11 DEF OneInv
<1>19. DestroyInv'
  BY <1>3, <1>12 DEF IInv, DestroyInv
<1> QED
  BY <1>3, <1>8, <1>9, <1>14, <1>15, <1>16, <1>17, <1>18, <1>19, TypesNext DEF IInv

LEMMA SemWaitKeeps ==
  ASSUME IInv, NEW t \in Threads, SemWait(t)
  PROVE  IInv'
<1>1. McsTypeOK /\ NumbersOK /\ PcTypeOK
  BY TypeParts DEF IInv
<1>2. /\ GoTo(t, "wait", "count") /\ sem > 0 /\ sem' = sem - 1
      /\ UNCHANGED <<mcsVars, onceVars, height, destroyed, arrivals, generation, serials>>
  BY DEF SemWait
<1>3. /\ PcOthersStay(t) /\ McsOthersStay(t) /\ pc[t] = "wait" /\ pc'[t] = "count"
      /\ UNCHANGED <<mcs, nodeLock, pred>> /\ McsTypeOK'
  BY <1>1, <1>2, GoToOthers, SameMcs
<1>4. ProxyQueued /\ Passing
  BY <1>2 DEF ProxyQueued, Passing
<1>5. /\ done /\ inits = 1 /\ height + Cardinality(Met) = Count
      /\ arrivals = serials * Count + Count
  BY <1>3, <1>4, Ready
<1>6. height # Count
  <2>1. t \in Met
    BY <1>3 DEF Met
  <2>2. Cardinality(Met) > 0
    BY <2>1, MetIsFinite, Nonempty
  <2> QED
    BY <1>1, <1>5, <2>2, MetIsFinite, NodeFacts DEF NumbersOK
<1>7. \A u \in Threads :
        /\ pc[u] \notin {"post", "release_proxy"}
        /\ pc[u] = "crashed" => mcs[u] # "out"
  <2>1. At({"release_proxy"}) = {} /\ At({"post"}) = {}
    BY <1>2, <1>6 DEF IInv, MeetInv
  <2>2. ~ \E u \in Threads : pc[u] = "crashed" /\ mcs[u] = "out"
    BY <1>6 DEF IInv, MeetInv
  <2> QED
    BY <2>1, <2>2 DEF At
<1>8. NumbersOK' /\ PcTypeOK'
  BY <1>1, <1>2, <1>3, PcTypes, NodeFacts DEF NumbersOK, PcTypeOK, OutAt, onceVars
<1>9. PcInv'
  BY <1>3, OthersPlaced DEF IInv, PcInv, Placed, OutAt, HasOnceAt, HasBarrierAt
<1>10. \A u \in Threads : (pc'[u] = pc[u] /\ mcs'[u] = mcs[u] /\ nodeLock'[u] = nodeLock[u]) \/ u = t
  BY <1>3 DEF McsOthersStay, PcOthersStay
<1>11. \A u \in Threads :
         /\ pc'[u] \notin {"post", "release_proxy"}
         /\ pc'[u] = "crashed" => mcs'[u] # "out"
         /\ pc'[u] = "arrive" <=> pc[u] = "arrive"
         /\ pc'[u] = "transfer" <=> pc[u] = "transfer"
         /\ pc'[u] = "return" => pc[u] = pc'[u]
         /\ pc'[u] \in {"transfer", "release", "wait", "count"}
            => pc[u] \in {"transfer", "release", "wait", "count"}
  BY <1>3, <1>7, <1>10
<1>12. ProxyQueued' /\ Passing'
  BY <1>3 DEF ProxyQueued, Passing, At
<1>13. QueueInv' /\ FlagInv'
  BY <1>2, <1>4, <1>12, SameQueues, SameFlags DEF IInv
<1>14. OnceInv'
  <2>1. nodeLock[Proxy] = BarrierLock
    BY <1>4 DEF IInv, OnceInv
  <2> QED
    BY <1>2, <1>3, <1>5, <2>1, OnceOver DEF IInv
<1>15. MeetInv'
  <2>1. Met' = Met
    BY <1>3, <1>10 DEF Met
  <2>2. At({"arrive"})' = At({"arrive"})
    BY <1>11 DEF At
  <2>3. /\ At({"release_proxy"})' = {} /\ At({"post"})' = {}
        /\ ~ \E u \in Threads : pc'[u] = "crashed" /\ mcs'[u] = "out"
    BY <1>11 DEF At
  <2>4. At({"transfer", "post"})' # {} => height' = 0
    <3>1. At({"transfer", "post"})' # {} => At({"transfer", "post"}) # {}
      BY <1>11 DEF At
    <3> QED
      BY <1>2, <3>1 DEF IInv, MeetInv
  <2>5. sem' = Cardinality(Waiting')
    <3>1. Waiting' = Waiting \ {t} /\ t \in Waiting
      BY <1>3, AtMoves DEF Waiting, At
    <3>2. sem = Cardinality(Waiting) /\ IsFiniteSet(Waiting)
      BY <1>2, AtIsFinite DEF IInv, MeetInv, Waiting
    <3> QED
      BY <1>2, <3>1, <3>2, CountDown
  <2>6. ASSUME NEW u \in Threads
        PROVE  /\ pc'[u] \in {"transfer", "release", "wait", "post", "count"}
                  => generation'[u] = serials' + 1
               /\ pc'[u] \in {"release_proxy", "return"} => generation'[u] * Count <= arrivals'
    BY <1>2, <1>11 DEF IInv, MeetInv
  <2>7. arrivals' + Cardinality(At({"arrive"})') <= MaxArrivals
    BY <1>2, <2>2 DEF IInv, MeetInv
  <2>8. inits' = 1 /\ height' + Cardinality(Met') = Count /\ arrivals' = serials' * Count + Count
    BY <1>2, <1>5, <2>1 DEF onceVars
  <2> QED
    BY <1>12, <2>3, <2>4, <2>5, <2>6, <2>7, <2>8 DEF MeetInv
<1>16. OneInv'
  BY <1>11 DEF OneInv
<1>17. DestroyInv'
  BY <1>2, <1>3 DEF IInv, DestroyInv
<1> QED
  BY <1>3, <1>8, <1>9, <1>13, <1>14, <1>15, <1>16, <1>17, TypesNext DEF IInv

LEMMA CountOutKeeps ==
  ASSUME IInv, NEW t \in Threads, CountOut(t)
  PROVE  IInv'
<1>1. McsTypeOK /\ NumbersOK /\ PcTypeOK
  BY TypeParts DEF IInv
<1>2. PICK to \in {"release_proxy", "return"} :
        /\ GoTo(t, "count", to) /\ (to = "release_proxy" <=> height + 1 = Count)
        /\ height' = height + 1
        /\ serials' = IF height + 1 = Count THEN serials + 1 ELSE serials
        /\ UNCHANGED <<mcsVars, onceVars, sem, destroyed, arrivals, generation>>
  BY DEF CountOut
<1>3. /\ PcOthersStay(t) /\ McsOthersStay(t) /\ pc[t] = "count" /\ pc'[t] = to
      /\ UNCHANGED <<mcs, nodeLock, pred>> /\ McsTypeOK'
  BY <1>1, <1>2, GoToOthers, SameMcs
<1>4. /\ inits = 1 /\ height \in 0 .. Count - 1 /\ t \in Met
      /\ height + Cardinality(Met) = Count
      /\ arrivals = serials * Count + Count
      /\ \A u \in Threads :
           /\ pc[u] \notin {"transfer", "release", "release_proxy", "post"}
           /\ pc[u] = "crashed" => mcs[u] = "held" /\ nodeLock[u] # BarrierLock
      /\ Met = At({"wait", "post", "count"})
  BY <1>3, Counting
<1>5. done /\ nodeLock[Proxy] = BarrierLock /\ ProxyQueued
  <2>1. ProxyQueued
    BY <1>3 DEF ProxyQueued, At
  <2> QED
    BY <2>1 DEF IInv, OnceInv
<1>6. sem = Cardinality(Waiting)
  <2>1. At({"count", "release_proxy"}) # {}
    BY <1>3 DEF At
  <2> QED
    BY <2>1 DEF IInv, MeetInv
<1>7. NumbersOK' /\ PcTypeOK'
  <2>1. NumbersOK'
    BY <1>1, <1>2, <1>4, NodeFacts DEF NumbersOK
  <2>2. serials' \in Nat
    BY <1>1, <1>2 DEF PcTypeOK
  <2> QED
    BY <1>1, <1>2, <1>3, <2>1, <2>2, PcTypes DEF PcTypeOK, OutAt, onceVars
<1>8. PcInv'
  BY <1>2, <1>3, OthersPlaced DEF IInv, PcInv, Placed, OutAt, HasOnceAt, HasBarrierAt
<1>9. \A u \in Threads : (pc'[u] = pc[u] /\ mcs'[u] = mcs[u] /\ nodeLock'[u] = nodeLock[u]) \/ u = t
  BY <1>3 DEF McsOthersStay, PcOthersStay
<1>10. Met' = Met \ {t} /\ Cardinality(Met') = Cardinality(Met) - 1 /\ IsFiniteSet(Met')
  <2>1. Met' = Met \ {t}
    BY <1>2, <1>3, <1>9 DEF Met
  <2> QED
    BY <1>4, <2>1, MetIsFinite, CountDown, FS_Subset
<1>11. height' + Cardinality(Met') = Count
  BY <1>2, <1>4, <1>10, MetIsFinite, NodeFacts
<1>12. Waiting' = Waiting /\ At({"arrive"})' = At({"arrive"})
  BY <1>2, <1>3, <1>9 DEF Waiting, At
<1>13. \A u \in Threads :
         /\ pc'[u] \notin {"transfer", "release", "post"}
         /\ pc'[u] = "release_proxy" => u = t /\ to = "release_proxy"
         /\ pc'[u] = "crashed" => mcs'[u] = "held"
         /\ pc'[u] \in {"wait", "count"} => pc[u] = pc'[u] /\ u # t
         /\ u # t /\ pc'[u] = "return" => pc[u] = "return"
  BY <1>2, <1>3, <1>4, <1>9
<1>14. /\ At({"post"})' = {} /\ At({"transfer", "post"})' = {}
       /\ ~ \E u \in Threads : pc'[u] = "crashed" /\ mcs'[u] = "out"
       /\ At({"release_proxy"})' # {} => height' = Count
  BY <1>2, <1>13 DEF At
<1>15. generation[t] = serials + 1
  BY <1>3 DEF IInv, MeetInv
<1>16. arrivals' + Cardinality(At({"arrive"})') <= MaxArrivals
  BY <1>2, <1>12 DEF IInv, MeetInv
<1>17. sem' = Cardinality(Waiting') /\ inits' = 1 /\ generation' = generation /\ arrivals' = arrivals
  BY <1>2, <1>4, <1>6, <1>12 DEF onceVars
<1>18. ASSUME to = "release_proxy"
       PROVE  ProxyQueued' /\ MeetInv' /\ OneInv'
  <2>1. ProxyQueued'
    BY <1>3, <1>18 DEF ProxyQueued, At
  <2>2. Met' = {}
    BY <1>2, <1>4, <1>10, <1>11, <1>18, FS_EmptySet, MetIsFinite, NodeFacts
  <2>3. \A u \in Threads : pc'[u] \notin {"wait", "count"}
    BY <2>2 DEF Met
  <2>4. sem' = 0
    <3>1. Waiting' = {}
      BY <2>3 DEF Waiting, At
    <3> QED
      BY <1>17, <3>1, FS_EmptySet
  <2>5. ~Passing'
    BY <1>13, <2>3, <2>4 DEF Passing, At
  <2>6. serials' = serials + 1 /\ height' = Count
    BY <1>2, <1>18
  <2>7. serials' * Count = serials * Count + Count /\ serials * Count \in Nat
    BY <1>1, <2>6, NodeFacts DEF PcTypeOK
  <2>8. arrivals' = serials' * Count + (Count - height')
    BY <1>4, <1>17, <2>6, <2>7, NodeFacts
  <2>9. ASSUME NEW u \in Threads
        PROVE  /\ pc'[u] \in {"transfer", "release", "wait", "post", "count"}
                  => generation'[u] = serials' + 1
               /\ pc'[u] \in {"release_proxy", "return"} => generation'[u] * Count <= arrivals'
    <3>1. generation'[t] * Count <= arrivals'
      BY <1>4, <1>15, <1>17, <2>6, <2>7, NodeFacts
    <3>2. pc'[u] = "return" /\ u # t => generation'[u] * Count <= arrivals'
      BY <1>13, <1>17 DEF IInv, MeetInv
    <3> QED
      BY <1>13, <2>3, <3>1, <3>2
  <2>10. MeetInv'
    <3>1. height' # 0
      BY <2>6, NodeFacts
    <3> QED
      BY <1>11, <1>14, <1>16, <1>17, <2>5, <2>6, <2>8, <2>9, <3>1 DEF MeetInv
  <2>11. OneInv'
    BY <1>13, <2>3 DEF OneInv
  <2> QED
    BY <2>1, <2>10, <2>11
<1>19. ASSUME to = "return"
       PROVE  ProxyQueued' /\ MeetInv' /\ OneInv'
  <2>1. Passing'
    <3>1. height' # Count
      BY <1>2, <1>19
    <3>2. Cardinality(Met') # 0
      BY <1>2, <1>4, <1>10, <1>11, <3>1, MetIsFinite, NodeFacts
    <3>3. PICK u \in Threads : u \in Met'
      BY <1>10, <3>2, FS_EmptySet DEF Met
    <3>4. pc[u] \in {"wait", "count"} /\ u # t
      BY <1>4, <1>10, <3>3 DEF At
    <3>5. CASE pc[u] = "wait"
      <4>1. u \in Waiting
        BY <3>5 DEF Waiting, At
      <4>2. Cardinality(Waiting) > 0
        BY <4>1, AtIsFinite, Nonempty DEF Waiting
      <4> QED
        BY <1>12, <1>17, <4>2 DEF Passing
    <3>6. CASE pc[u] = "count"
      <4>1. pc'[u] = "count"
        BY <1>9, <3>4, <3>6
      <4> QED
        BY <4>1 DEF Passing, At
    <3> QED
      BY <3>4, <3>5, <3>6
  <2>2. ProxyQueued'
    BY <2>1 DEF Passing, ProxyQueued, At
  <2>3. serials' = serials
    BY <1>2, <1>19
  <2>4. arrivals' = serials' * Count + Count
    BY <1>4, <1>17, <2>3
  <2>5. ASSUME NEW u \in Threads
        PROVE  /\ pc'[u] \in {"transfer", "release", "wait", "post", "count"}
                  => generation'[u] = serials' + 1
               /\ pc'[u] \in {"release_proxy", "return"} => generation'[u] * Count <= arrivals'
    <3>1. generation'[t] * Count <= arrivals'
      <4>1. generation[t] * Count = serials * Count + Count
        BY <1>1, <1>15, NodeFacts DEF PcTypeOK
      <4>2. serials * Count \in Nat
        BY <1>1, NodeFacts DEF PcTypeOK
      <4> QED
        BY <1>4, <1>17, <4>1, <4>2, NodeFacts
    <3>2. pc'[u] = "return" /\ u # t => generation'[u] * Count <= arrivals'
      BY <1>13, <1>17 DEF IInv, MeetInv
    <3>3. pc'[u] \in {"wait", "count"} => generation'[u] = serials' + 1
      BY <1>13, <1>17, <2>3 DEF IInv, MeetInv
    <3> QED
      BY <1>13, <3>1, <3>2, <3>3
  <2>6. MeetInv'
    BY <1>11, <1>14, <1>16, <1>17, <2>1, <2>4, <2>5 DEF MeetInv
  <2>7. OneInv'
    BY <1>13, <1>19 DEF OneInv
  <2> QED
    BY <2>2, <2>6, <2>7
<1>20. ProxyQueued' /\ MeetInv' /\ OneInv'
  BY <1>2, <1>18, <1>19
<1>21. QueueInv' /\ FlagInv'
  BY <1>2, <1>5, <1>20, SameQueues, SameFlags DEF IInv
<1>22. OnceInv'
  BY <1>2, <1>3, <1>5, OnceOver DEF IInv
<1>23. DestroyInv'
  BY <1>2, <1>3 DEF IInv, DestroyInv
<1> QED
  BY <1>3, <1>7, <1>8, <1>20, <1>21, <1>22, <1>23, TypesNext DEF IInv

LEMMA ReleaseProxyKeeps ==
  ASSUME IInv, NEW t \in Threads, ReleaseProxy(t)
  PROVE  IInv'
<1>1. McsTypeOK /\ NumbersOK /\ PcTypeOK /\ Proxy \in Nodes
  BY TypeParts, NodeFacts DEF IInv
<1>2. Releasing(t, Proxy, "release_proxy", "return") /\ UNCHANGED <<onceVars, barrierVars>>
  BY DEF ReleaseProxy
<1>3. /\ McsTypeOK' /\ pc[t] = "release_proxy" /\ UNCHANGED <<next, nodeLock, pred, strayed>>
      /\ \/ mcs' = [mcs EXCEPT ![t] = "out"] /\ pc' = [pc EXCEPT ![t] = "return"]
            /\ (ReleaseFree(t, Proxy) \/ ReleasePasses(t, Proxy))
         \/ UNCHANGED <<mcs, pc>> /\ ReleaseWaits(Proxy)
         \/ UNCHANGED mcs /\ pc' = [pc EXCEPT ![t] = "crashed"] /\ ReleaseCrashes(Proxy)
  BY <1>1, <1>2, Outcome
<1>4. mcs[t] = "out"
  BY <1>3 DEF IInv, PcInv, Placed, OutAt
<1>5. /\ PcOthersStay(t) /\ McsOthersStay(t) /\ UNCHANGED <<mcs, nodeLock, pred>>
      /\ \/ pc'[t] = "return" /\ (ReleaseFree(t, Proxy) \/ ReleasePasses(t, Proxy))
         \/ pc'[t] = "release_proxy" /\ ReleaseWaits(Proxy)
         \/ pc'[t] = "crashed" /\ ReleaseCrashes(Proxy)
  BY <1>1, <1>3, <1>4 DEF PcTypeOK, McsTypeOK, PcOthersStay, McsOthersStay
<1>6. ProxyQueued /\ done /\ nodeLock[Proxy] = BarrierLock
  <2>1. ProxyQueued
    BY <1>3 DEF ProxyQueued, At
  <2> QED
    BY <2>1 DEF IInv, OnceInv
<1>7. height = Count
  <2>1. At({"release_proxy"}) # {}
    BY <1>3 DEF At
  <2> QED
    BY <2>1 DEF IInv, MeetInv
<1>8. inits = 1 /\ Met = {} /\ height + Cardinality(Met) = Count
  <2>1. inits = 1 /\ height + Cardinality(Met) = Count
    BY <1>3, Ready
  <2> QED
    BY <1>7, <2>1, MetIsFinite, FS_EmptySet, NodeFacts
<1>9. \A u \in Threads : pc[u] \notin {"transfer", "release", "wait", "post", "count"}
  BY <1>8 DEF Met
<1>10. sem = 0 /\ Waiting = {}
  <2>1. Waiting = {}
    BY <1>9 DEF Waiting, At
  <2>2. Cardinality(Waiting) = 0
    BY <2>1, FS_EmptySet
  <2>3. At({"count", "release_proxy"}) # {}
    BY <1>3 DEF At
  <2> QED
    BY <2>1, <2>2, <2>3 DEF IInv, MeetInv
<1>11. \A u \in Threads :
         /\ pc[u] = "release_proxy" => u = t
         /\ pc[u] = "crashed" => mcs[u] = "held"
  BY <1>3 DEF IInv, OneInv, PcInv, Placed
<1>12. ~Passing /\ arrivals = serials * Count + (Count - height)
  <2>1. ~Passing
    BY <1>9, <1>10 DEF Passing, At
  <2> QED
    BY <1>3, <2>1, Ready
<1>13. NumbersOK' /\ PcTypeOK'
  BY <1>1, <1>2, <1>3 DEF NumbersOK, PcTypeOK, McsTypeOK, OutAt, onceVars, barrierVars
<1>14. PcInv'
  BY <1>4, <1>5, OthersPlaced DEF IInv, PcInv, Placed, OutAt, HasOnceAt, HasBarrierAt
<1>15. \A u \in Threads : pc'[u] = pc[u] \/ u = t
  BY <1>5 DEF PcOthersStay
<1>16. UNCHANGED <<sem, height, serials, arrivals, generation, destroyed, inits, done>>
  BY <1>2 DEF barrierVars, onceVars
<1>17. \A u \in Threads :
         /\ pc'[u] \notin {"transfer", "release", "wait", "post", "count"}
         /\ pc'[u] = "release_proxy" => u = t
         /\ pc'[u] = "crashed" => mcs'[u] = "held" \/ u = t
         /\ pc'[u] = "arrive" <=> pc[u] = "arrive"
         /\ u # t => pc'[u] = pc[u]
  BY <1>3, <1>5, <1>9, <1>11, <1>15
<1>18. ReleaseFree(t, Proxy) \/ ReleasePasses(t, Proxy) => ~ProxyQueued'
  <2>1. SUFFICES ASSUME ReleaseFree(t, Proxy) \/ ReleasePasses(t, Proxy)
                 PROVE  ~ProxyQueued'
    OBVIOUS
  <2>2. pc'[t] = "return"
    BY <1>5, <2>1 DEF ReleaseFree, ReleasePasses, ReleaseWaits, ReleaseCrashes
  <2> QED
    BY <1>10, <1>16, <1>17, <2>2 DEF ProxyQueued, At
<1>19. ReleaseWaits(Proxy) \/ ReleaseCrashes(Proxy) => ProxyQueued'
  <2>1. SUFFICES ASSUME ReleaseWaits(Proxy) \/ ReleaseCrashes(Proxy)
                 PROVE  ProxyQueued'
    OBVIOUS
  <2>2. pc'[t] \in {"release_proxy", "crashed"} /\ mcs'[t] = "out"
    BY <1>4, <1>5, <2>1 DEF ReleaseFree, ReleasePasses, ReleaseWaits, ReleaseCrashes
  <2> QED
    BY <2>2 DEF ProxyQueued, At
<1>20. QueueInv'
  BY <1>2, <1>4, <1>6, <1>18, <1>19, ProxyReleaseQueues DEF IInv
<1>21. FlagInv'
  BY <1>1, <1>2, ReleaseFlags DEF IInv
<1>22. OnceInv'
  BY <1>2, <1>5, <1>6, OnceOver DEF IInv
<1>23. MeetInv'
  <2>1. Met' = {} /\ Waiting' = {} /\ ~Passing'
    <3>1. \A u \in Threads : pc'[u] = "crashed" /\ mcs'[u] = "held" => u \in Met \/ nodeLock'[u] # BarrierLock
      BY <1>4, <1>5, <1>17 DEF Met
    <3> QED
      BY <1>8, <1>10, <1>16, <1>17, <3>1 DEF Met, Waiting, Passing, At
  <2>2. Cardinality(Met') = 0 /\ Cardinality(Waiting') = 0
    BY <2>1, FS_EmptySet
  <2>3. At({"arrive"})' = At({"arrive"}) /\ At({"transfer", "post"})' = {} /\ At({"post"})' = {}
    BY <1>17 DEF At
  <2>4. ASSUME NEW u \in Threads
        PROVE  /\ pc'[u] \in {"transfer", "release", "wait", "post", "count"}
                  => generation'[u] = serials' + 1
               /\ pc'[u] \in {"release_proxy", "return"} => generation'[u] * Count <= arrivals'
    <3>1. pc'[u] \in {"release_proxy", "return"} => pc[u] \in {"release_proxy", "return"}
      BY <1>3, <1>17
    <3> QED
      BY <1>16, <1>17, <3>1 DEF IInv, MeetInv
  <2>5. arrivals' + Cardinality(At({"arrive"})') <= MaxArrivals
    BY <1>16, <2>3 DEF IInv, MeetInv
  <2>6. /\ sem' = 0 /\ inits' = 1 /\ height' = Count /\ height' # 0
        /\ height' + Cardinality(Met') = Count /\ arrivals' = serials' * Count + (Count - height')
    BY <1>7, <1>8, <1>10, <1>12, <1>16, <2>1, NodeFacts
  <2> QED
    BY <2>1, <2>2, <2>3, <2>4, <2>5, <2>6 DEF MeetInv
<1>24. OneInv'
  BY <1>11, <1>5, <1>17 DEF OneInv
<1>25. DestroyInv'
  BY <1>3, <1>16 DEF IInv, DestroyInv
<1> QED
  BY <1>3, <1>13, <1>14, <1>20, <1>21, <1>22, <1>23, <1>24, <1>25, TypesNext DEF IInv

LEMMA BarrierReturnKeeps ==
  ASSUME IInv, NEW t \in Threads, BarrierReturn(t)
  PROVE  IInv'
<1>1. McsTypeOK /\ NumbersOK /\ PcTypeOK
  BY TypeParts DEF IInv
<1>2. /\ GoTo(t, "return", "ready") /\ Leave(t) /\ generation' = [generation EXCEPT ![t] = 0]
      /\ UNCHANGED <<onceVars, height, sem, destroyed, arrivals, serials>>
  BY DEF BarrierReturn
<1>3. /\ PcOthersStay(t) /\ McsOthersStay(t) /\ pc[t] = "return" /\ pc'[t] = "ready"
      /\ UNCHANGED <<mcs, pred>> /\ nodeLock'[Proxy] = nodeLock[Proxy] /\ McsTypeOK'
  BY <1>1, <1>2, GoToOthers, LeaveOthers, LeaveTypes
<1>4. mcs[t] = "out" /\ done /\ inits = 1
  BY <1>3, Ready DEF IInv, PcInv, Placed, OutAt
<1>5. NumbersOK' /\ PcTypeOK'
  <2>1. generation' \in [Threads -> Nat]
    BY <1>1, <1>2 DEF PcTypeOK
  <2> QED
    BY <1>1, <1>2, <1>3, <2>1, PcTypes DEF NumbersOK, PcTypeOK, OutAt, onceVars
<1>6. PcInv'
  BY <1>3, <1>4, OthersPlaced DEF IInv, PcInv, Placed, OutAt, HasOnceAt, HasBarrierAt
<1>7. \A u \in Threads :
        \/ /\ pc'[u] = pc[u] /\ mcs'[u] = mcs[u] /\ nodeLock'[u] = nodeLock[u]
           /\ generation'[u] = generation[u]
        \/ u = t
  BY <1>1, <1>2, <1>3 DEF McsOthersStay, PcOthersStay, PcTypeOK
<1>8. Met' = Met
  BY <1>3, <1>7 DEF Met
<1>9. /\ At({"transfer"})' = At({"transfer"}) /\ At({"post", "count"})' = At({"post", "count"})
      /\ At({"count", "release_proxy"})' = At({"count", "release_proxy"})
      /\ At({"post"})' = At({"post"}) /\ At({"transfer", "post"})' = At({"transfer", "post"})
      /\ At({"release_proxy"})' = At({"release_proxy"}) /\ At({"arrive"})' = At({"arrive"})
      /\ At({"post", "count", "release_proxy"})' = At({"post", "count", "release_proxy"})
      /\ At({"wait"})' = At({"wait"})
  BY <1>3, <1>7 DEF At
<1>10. /\ Waiting' = Waiting /\ (Passing' <=> Passing)
       /\ UNCHANGED <<sem, height, serials, arrivals, destroyed, inits, done>>
  BY <1>2, <1>9 DEF Waiting, Passing, onceVars
<1>11. (\E u \in Threads : pc'[u] = "crashed" /\ mcs'[u] = "out")
        <=> (\E u \in Threads : pc[u] = "crashed" /\ mcs[u] = "out")
  BY <1>3, <1>7
<1>12. ProxyQueued' <=> ProxyQueued
  BY <1>9, <1>10, <1>11 DEF ProxyQueued
<1>13. QueueInv' /\ FlagInv'
  BY <1>1, <1>2, <1>4, <1>12, LeaveQueues, LeaveFlags DEF IInv
<1>14. OnceInv'
  BY <1>2, <1>3, <1>4, <1>12, OnceStays DEF IInv, onceVars
<1>15. \A u \in Threads :
         /\ pc'[u] \in {"arrive", "transfer", "release", "wait", "post", "count", "release_proxy",
                        "return"} => pc'[u] = pc[u] /\ generation'[u] = generation[u]
         /\ pc'[u] = "crashed" /\ mcs'[u] = "out" => pc[u] = "crashed" /\ mcs[u] = "out"
  BY <1>3, <1>7
<1>16. MeetInv'
  <2>1. ASSUME NEW u \in Threads
        PROVE  /\ pc'[u] \in {"transfer", "release", "wait", "post", "count"}
                  => generation'[u] = serials' + 1
               /\ pc'[u] \in {"release_proxy", "return"} => generation'[u] * Count <= arrivals'
    BY <1>10, <1>15 DEF IInv, MeetInv
  <2>2. MeetInv
    BY DEF IInv
  <2> QED
    BY <1>8, <1>9, <1>10, <1>11, <2>1, <2>2 DEF MeetInv
<1>17. OneInv'
  BY <1>15 DEF IInv, OneInv
<1>18. DestroyInv'
  BY <1>10, <1>15 DEF IInv, DestroyInv
<1> QED
  BY <1>3, <1>5, <1>6, <1>13, <1>14, <1>16, <1>17, <1>18, TypesNext DEF IInv

LEMMA NothingMoves ==
  ASSUME IInv, UNCHANGED <<mcsVars, pc, onceVars, height, sem, arrivals, generation, serials>>,
         destroyed' \in BOOLEAN
  PROVE  TypeOK' /\ PcTypeOK' /\ PcInv' /\ QueueInv' /\ FlagInv' /\ OnceInv' /\ MeetInv' /\ OneInv'
<1>1. TypeOK' /\ PcTypeOK'
  BY DEF IInv, TypeOK, PcTypeOK, mcsVars, nodeVars, onceVars
<1>2. PcInv'
  BY DEF IInv, PcInv, Placed, mcsVars, nodeVars
<1>3. \A S : At(S)' = At(S)
  BY DEF At
<1>4. ProxyQueued' <=> ProxyQueued
  BY <1>3 DEF ProxyQueued, mcsVars
<1>5. QueueInv' /\ FlagInv'
  BY <1>4, SameQueues, SameFlags DEF IInv
<1>6. OnceInv'
  BY <1>3, <1>4 DEF IInv, OnceInv, onceVars, mcsVars, nodeVars
<1>7. Met' = Met /\ Waiting' = Waiting /\ (Passing' <=> Passing)
  BY <1>3 DEF Met, Waiting, Passing, mcsVars, nodeVars
<1>8. MeetInv'
  BY <1>3, <1>7 DEF IInv, MeetInv, onceVars, mcsVars
<1>9. OneInv'
  BY DEF IInv, OneInv, mcsVars
<1> QED
  BY <1>1, <1>2, <1>5, <1>6, <1>8, <1>9

LEMMA BarrierDestroyKeeps ==
  ASSUME IInv, NEW t \in Threads, BarrierDestroy(t)
  PROVE  IInv'
<1>1. /\ arrivals = MaxArrivals /\ pc[t] = "ready" /\ tail[BarrierLock] = None /\ height = Count
      /\ destroyed' = TRUE
      /\ UNCHANGED <<mcsVars, pc, onceVars, height, sem, arrivals, generation, serials>>
  BY DEF BarrierDestroy, CanTryAcquire
<1>2. McsTypeOK /\ NumbersOK /\ PcTypeOK
  BY TypeParts DEF IInv
<1>3. \A u \in Threads : pc[u] # "arrive"
  <2>1. Cardinality(At({"arrive"})) = 0
    BY <1>1, <1>2, AtIsFinite, BarrierAssumption DEF IInv, MeetInv, NumbersOK
  <2>2. At({"arrive"}) = {}
    BY <2>1, AtIsFinite, FS_EmptySet
  <2> QED
    BY <2>2 DEF At
<1>4. \A u \in Threads : pc[u] \notin {"transfer", "release", "wait", "post", "count"}
  <2>1. height + Cardinality(Met) = Count
    BY <1>1, Ready
  <2>2. Met = {}
    BY <1>1, <2>1, MetIsFinite, FS_EmptySet, NodeFacts
  <2> QED
    BY <2>2 DEF Met
<1>5. \A u \in Threads : pc[u] # "release_proxy"
  <2>1. PICK k \in Nat : \E q \in [1 .. k -> Nodes] : IsQueue(q, k, BarrierLock)
    BY NodeFacts DEF IInv, QueueInv, HasQueue
  <2>2. PICK q \in [1 .. k -> Nodes] : IsQueue(q, k, BarrierLock)
    BY <2>1
  <2>3. k = 0
    <3>1. k # 0 => q[k] \in Nodes
      OBVIOUS
    <3> QED
      BY <1>1, <2>2, <3>1, NodeFacts DEF IsQueue
  <2>4. Queued(BarrierLock) = {}
    BY <2>2, <2>3 DEF IsQueue
  <2>5. ~ProxyQueued
    BY <2>4 DEF Queued
  <2> QED
    BY <2>5 DEF ProxyQueued, At
<1>6. DestroyInv'
  BY <1>1, <1>3, <1>4, <1>5 DEF DestroyInv
<1>7. destroyed' \in BOOLEAN
  BY <1>1
<1> QED
  BY <1>1, <1>6, <1>7, NothingMoves DEF IInv

-----------------------------------------------------------------------------
(***************************************************************************)
(* The theorems                                                            *)
(***************************************************************************)

LEMMA InitIInv == Init => IInv
<1> SUFFICES ASSUME Init
             PROVE  IInv
  OBVIOUS
<1> USE DEF Init, MCSInit
<1>1. TypeOK
  BY NodeFacts, BarrierAssumption DEF TypeOK, FlagValues
<1>2. PcTypeOK
  BY DEF PcTypeOK, OutAt
<1>3. PcInv
  BY DEF PcInv, Placed, OutAt, HasOnceAt, HasBarrierAt
<1>4. \A t \in Threads : pc[t] = "once" /\ mcs[t] = "out"
  OBVIOUS
<1>5. ~ProxyQueued /\ ~Passing /\ Met = {} /\ At({"once_done"}) = {}
      /\ At({"once_init", "once_done"}) = {} /\ Waiting = {}
  BY <1>4 DEF ProxyQueued, Passing, Met, Waiting, At
<1>6. QueueInv
  <2> SUFFICES ASSUME NEW l \in Locks
               PROVE  HasQueue(l)
    BY DEF QueueInv
  <2>1. Queued(l) = {} /\ tail[l] = None
    BY <1>4, <1>5 DEF Queued
  <2> DEFINE q == [i \in 1 .. 0 |-> Proxy]
  <2>2. 1 .. 0 = {} /\ 2 .. 0 = {} /\ q \in [1 .. 0 -> Nodes]
    BY NodeFacts
  <2>3. {q[i] : i \in 1 .. 0} = {}
    BY <2>2
  <2> HIDE DEF q
  <2>4. IsQueue(q, 0, l)
    BY <2>1, <2>2, <2>3 DEF IsQueue
  <2> QED
    BY <2>2, <2>4 DEF HasQueue
<1>7. FlagInv
  BY DEF FlagInv, FlagPassed
<1>8. OnceInv
  BY <1>4, <1>5 DEF OnceInv
<1>9. MeetInv
  <2>1. /\ At({"count", "release_proxy"}) = {} /\ At({"post"}) = {}
        /\ At({"transfer", "post"}) = {} /\ At({"release_proxy"}) = {} /\ At({"arrive"}) = {}
    BY <1>4 DEF At
  <2>2. Cardinality(At({"arrive"})) = 0
    BY <2>1, FS_EmptySet
  <2>3. inits = 0 /\ height = 0 /\ arrivals = 0 /\ serials = 0 /\ sem = 0
    OBVIOUS
  <2>4. arrivals + Cardinality(At({"arrive"})) <= MaxArrivals
    BY <2>2, <2>3, BarrierAssumption
  <2> QED
    BY <1>4, <1>5, <2>1, <2>3, <2>4 DEF MeetInv
<1>10. OneInv
  BY <1>4 DEF OneInv
<1>11. DestroyInv
  BY DEF DestroyInv
<1> QED
  BY <1>1, <1>2, <1>3, <1>6, <1>7, <1>8, <1>9, <1>10, <1>11 DEF IInv

LEMMA NextKeepsIInv == IInv /\ [Next]_vars => IInv'
<1> SUFFICES ASSUME IInv, [Next]_vars
             PROVE  IInv'
  OBVIOUS
<1>1. CASE UNCHANGED vars
  <2>1. /\ UNCHANGED <<mcsVars, pc, onceVars, height, sem, arrivals, generation, serials>>
        /\ destroyed' = destroyed
    BY <1>1 DEF vars, barrierVars
  <2>2. destroyed' \in BOOLEAN
    BY <2>1 DEF IInv, PcTypeOK
  <2>3. DestroyInv'
    BY <2>1 DEF IInv, DestroyInv
  <2> QED
    BY <2>1, <2>2, <2>3, NothingMoves DEF IInv
<1>2. ASSUME NEW t \in Threads, Once(t)
      PROVE  IInv'
  BY <1>2, OnceDoneKeeps, OnceAcquireKeeps, OnceTestKeeps, OnceInitKeeps, OnceSetDoneKeeps,
     OnceReleaseKeeps, OnceReturnKeeps DEF Once
<1>3. ASSUME NEW t \in Threads, BarrierWait(t)
      PROVE  IInv'
  BY <1>3, ArriveKeeps, TransferKeeps, PostKeeps, BarrierReleaseKeeps, SemWaitKeeps,
     CountOutKeeps, ReleaseProxyKeeps, BarrierReturnKeeps DEF BarrierWait
<1>4. ASSUME NEW t \in Threads, Queue(t) \/ OnceCancelled(t) \/ BarrierAcquire(t) \/ BarrierDestroy(t)
      PROVE  IInv'
  BY <1>4, QueueKeeps, OnceTestKeeps, BarrierAcquireKeeps, BarrierDestroyKeeps
<1> QED
  BY <1>1, <1>2, <1>3, <1>4 DEF Next, Step

LEMMA Invariance == Spec => []IInv
BY InitIInv, NextKeepsIInv, PTL DEF Spec

\* A lock has one holder, for any number of threads that queue for it, whatever
\* stray writes there have been: ptw32_MCS_lock.c.  While the threads of a
\* meeting leave, the proxy node has the lock of the barrier and no thread has,
\* and no release follows a null pointer unless a flag was set in a node that
\* had left its scope: pthread_barrier_wait.c, ptw32_mcs_node_transfer.
THEOREM OneHolderOfALock == Spec => []MutualExclusion
<1>1. IInv => MutualExclusion
  <2> SUFFICES ASSUME IInv
               PROVE  MutualExclusion
    OBVIOUS
  <2>1. crashed => strayed
    BY DEF IInv, FlagInv
  <2>2. ASSUME NEW l \in Locks
        PROVE  LET holders == {t \in Threads : mcs[t] = "held" /\ nodeLock[t] = l}
               IN  /\ Cardinality(holders) <= 1
                   /\ l = BarrierLock /\ Leaving # {} => holders = {}
    <3> DEFINE holders == {t \in Threads : mcs[t] = "held" /\ nodeLock[t] = l}
    <3>1. \A t, u \in holders : t = u
      BY OneHolder DEF IInv
    <3>2. Cardinality(holders) <= 1
      <4>1. CASE holders = {}
        BY <4>1, FS_EmptySet
      <4>2. ASSUME NEW t \in holders
            PROVE  Cardinality(holders) <= 1
        <5>1. holders = {t}
          BY <3>1, <4>2
        <5> HIDE DEF holders
        <5>2. Cardinality(holders) = 1
          BY <5>1, FS_Singleton
        <5> QED
          BY <5>2
      <4> QED
        BY <4>1, <4>2
    <3>3. l = BarrierLock /\ Leaving # {} => holders = {}
      <4>1. Leaving # {} => ProxyQueued
        BY DEF Leaving, ProxyQueued, At
      <4> QED
        BY <4>1, HolderExcludesProxy DEF IInv
    <3> QED
      BY <3>2, <3>3
  <2> QED
    BY <2>1, <2>2 DEF MutualExclusion
<1> QED
  BY <1>1, Invariance, PTL

\* The init routine of pthread_once runs to its end at most once, whoever is
\* cancelled in it, and nobody returns before it has: pthread_once.c.
THEOREM OnceIsOnce == Spec => []InitialisedOnce
<1>1. IInv => InitialisedOnce
  BY DEF IInv, OnceInv, InitialisedOnce
<1> QED
  BY <1>1, Invariance, PTL

\* Nobody leaves pthread_barrier_wait before all of its meeting have arrived,
\* each meeting has one serial thread, and whoever is still inside when the
\* barrier is destroyed only returns.  Types included.
THEOREM WholeMeetings == Spec => []MeetingsAreWhole
<1>1. IInv => MeetingsAreWhole
  <2> SUFFICES ASSUME IInv
               PROVE  MeetingsAreWhole
    OBVIOUS
  <2>1. TypeOK /\ NumbersOK /\ PcTypeOK
    BY TypeParts DEF IInv
  <2>2. ASSUME NEW t \in Threads, pc[t] \in {"count", "release_proxy", "return"}
        PROVE  arrivals >= generation[t] * Count
    <3>1. arrivals \in Nat /\ generation[t] * Count \in Nat /\ serials * Count \in Nat
      BY <2>1, NodeFacts, BarrierAssumption DEF NumbersOK, PcTypeOK
    <3>2. CASE pc[t] = "count"
      <4>1. arrivals = serials * Count + Count
        BY <3>2, Counting
      <4>2. generation[t] = serials + 1
        BY <3>2 DEF IInv, MeetInv
      <4>3. generation[t] * Count = serials * Count + Count
        BY <2>1, <4>2, NodeFacts DEF PcTypeOK
      <4> QED
        BY <3>1, <4>1, <4>3
    <3>3. CASE pc[t] # "count"
      <4>1. generation[t] * Count <= arrivals
        BY <2>2, <3>3 DEF IInv, MeetInv
      <4> QED
        BY <3>1, <4>1
    <3> QED
      BY <3>2, <3>3
  <2>3. ASSUME Inside = {}
        PROVE  serials * Count = arrivals - (arrivals % Count)
    <3>1. ~Passing /\ At({"transfer"}) = {}
      <4>1. Waiting = {} /\ At({"post", "count"}) = {} /\ At({"transfer"}) = {}
        BY <2>3 DEF Inside, Waiting, At
      <4>2. Cardinality(Waiting) = 0
        BY <4>1, FS_EmptySet
      <4> QED
        BY <4>1, <4>2 DEF Passing, IInv, MeetInv
    <3>2. PICK r \in 0 .. Count - 1 : arrivals = serials * Count + r
      <4>1. CASE inits = 0
        <5>1. arrivals = 0 /\ serials = 0
          BY <4>1 DEF IInv, MeetInv
        <5>2. 0 \in 0 .. Count - 1 /\ arrivals = serials * Count + 0
          BY <5>1, NodeFacts
        <5> QED
          BY <5>2
      <4>2. CASE inits = 1
        <5>1. height # 0 /\ arrivals = serials * Count + (Count - height)
          BY <3>1, <4>2 DEF IInv, MeetInv
        <5>2. Count - height \in 0 .. Count - 1
          BY <2>1, <5>1, NodeFacts DEF NumbersOK
        <5> QED
          BY <5>1, <5>2
      <4> QED
        BY <4>1, <4>2 DEF IInv, OnceInv
    <3>3. arrivals % Count = r
      <4>1. arrivals \in Nat /\ serials \in Nat /\ Count \in Nat \ {0}
        BY <2>1, BarrierAssumption DEF NumbersOK, PcTypeOK
      <4> QED
        BY <3>2, <4>1, Divide
    <3>4. serials * Count \in Nat
      BY <2>1, NodeFacts DEF PcTypeOK
    <3> QED
      BY <3>2, <3>3, <3>4
  <2>4. destroyed => \A t \in Inside : pc[t] = "return"
    BY DEF IInv, DestroyInv, Inside
  <2> QED
    BY <2>1, <2>2, <2>3, <2>4 DEF MeetingsAreWhole
<1> QED
  BY <1>1, Invariance, PTL
=============================================================================
