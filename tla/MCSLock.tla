------------------------------- MODULE MCSLock -------------------------------
(***************************************************************************)
(* The queue locks of libraries/pthreads-win32/ptw32_MCS_lock.c.           *)
(*                                                                         *)
(* A lock points to the last node of a queue; a node is a local variable   *)
(* of the thread that acquires, so each thread has one, used again for its *)
(* next acquisition.  Extra nodes (the proxy node of a barrier) take over  *)
(* a lock from the node of a thread.  This module has the operations and   *)
(* the state of the nodes; PthreadBarrier makes the calls.                 *)
(*                                                                         *)
(* The interlocked instructions are fences; each is a step.  What a thread *)
(* does before it publishes its node, or on data nobody else can change,   *)
(* is part of the neighbouring step.                                       *)
(***************************************************************************)
EXTENDS Naturals

CONSTANTS
  Threads,
  Proxies,     \* nodes that are not local to a thread
  Locks,
  None         \* the null pointer

ASSUME NodesAssumption == None \notin Threads \cup Proxies

Nodes == Threads \cup Proxies

VARIABLES
  tail,        \* tail[l]: the lock itself, its last node
  next,        \* next[n]
  nextFlag,    \* nextFlag[n]
  readyFlag,   \* readyFlag[n]
  nodeLock,    \* nodeLock[n]: node->lock
  mcs,         \* mcs[t]: where t is in acquire or release
  pred,        \* pred[t]: the local variable of acquire
  strayed,     \* history: a flag of a node was set after its owner had left
  crashed      \* a null pointer was dereferenced

nodeVars == <<next, nextFlag, readyFlag, nodeLock>>
mcsVars == <<tail, nodeVars, mcs, pred, strayed, crashed>>

\* A flag is clear, set (-1), or holds an event that is waited for or set.
FlagValues == {"clear", "set", "event", "signalled"}

MCSInit ==
  /\ tail = [l \in Locks |-> None]
  /\ next = [n \in Nodes |-> None]
  /\ nextFlag = [n \in Nodes |-> "clear"]
  /\ readyFlag = [n \in Nodes |-> "clear"]
  /\ nodeLock = [n \in Nodes |-> None]
  /\ mcs = [t \in Threads |-> "out"]
  /\ pred = [t \in Threads |-> None]
  /\ strayed = FALSE
  /\ crashed = FALSE

\* Sets a flag that is clear, but not the event that is stored in one.
FlagSetWithoutEvent(f) == IF f = "clear" THEN "set" ELSE f

\* ptw32_mcs_flag_set: compare-and-exchange, or SetEvent on the stored event.
FlagSet(f) == CASE f = "clear" -> "set" [] f = "event" -> "signalled" [] OTHER -> f

\* ptw32_mcs_flag_wait, its first half: nothing to wait for, or store an event.
FlagStore(f) == IF f = "clear" THEN "event" ELSE f
FlagPassed(f) == f \in {"set", "signalled"}

-----------------------------------------------------------------------------
(***************************************************************************)
(* ptw32_mcs_lock_acquire                                                  *)
(***************************************************************************)

\* Initialises the node and exchanges it with the tail.
LockAcquire(t, l) ==
  /\ mcs[t] = "out"
  /\ nodeLock' = [nodeLock EXCEPT ![t] = l]
  /\ next' = [next EXCEPT ![t] = None]
  /\ nextFlag' = [nextFlag EXCEPT ![t] = "clear"]
  /\ readyFlag' = [readyFlag EXCEPT ![t] = "clear"]
  /\ tail' = [tail EXCEPT ![l] = t]
  /\ pred' = [pred EXCEPT ![t] = tail[l]]
  /\ mcs' = [mcs EXCEPT ![t] = IF tail[l] = None THEN "held" ELSE "link"]
  /\ UNCHANGED <<strayed, crashed>>

\* Tells the predecessor before it can find the node.
TellFirst(t) ==
  /\ mcs[t] = "link"
  /\ nextFlag' = [nextFlag EXCEPT ![pred[t]] = FlagSet(@)]
  /\ mcs' = [mcs EXCEPT ![t] = "tell"]
  /\ UNCHANGED <<tail, next, readyFlag, nodeLock, pred, strayed, crashed>>

\* pred->next = node
Link(t) ==
  /\ mcs[t] = "link"
  /\ next' = [next EXCEPT ![pred[t]] = t]
  /\ mcs' = [mcs EXCEPT ![t] = "tell"]
  /\ UNCHANGED <<tail, nextFlag, readyFlag, nodeLock, pred, strayed, crashed>>

\* Sets pred->nextFlag, in the scope of its owner or not.
Tell(t) ==
  /\ mcs[t] = "tell"
  /\ nextFlag' = [nextFlag EXCEPT ![pred[t]] = FlagSet(@)]
  /\ strayed' = (strayed \/ next[pred[t]] # t)
  /\ mcs' = [mcs EXCEPT ![t] = "ready"]
  /\ pred' = [pred EXCEPT ![t] = None]
  /\ UNCHANGED <<tail, next, readyFlag, nodeLock, crashed>>

\* Waits for node->readyFlag.
AwaitReady(t) ==
  /\ mcs[t] = "ready"
  /\ readyFlag' = [readyFlag EXCEPT ![t] = FlagStore(@)]
  /\ mcs' = [mcs EXCEPT ![t] = IF FlagPassed(readyFlag[t]) THEN "held" ELSE "sleep"]
  /\ UNCHANGED <<tail, next, nextFlag, nodeLock, pred, strayed, crashed>>

WakeReady(t) ==
  /\ mcs[t] = "sleep"
  /\ readyFlag[t] = "signalled"
  /\ mcs' = [mcs EXCEPT ![t] = "held"]
  /\ UNCHANGED <<tail, nodeVars, pred, strayed, crashed>>

Acquiring(t) == Link(t) \/ Tell(t) \/ AwaitReady(t) \/ WakeReady(t)

\* ptw32_mcs_lock_try_acquire succeeds on a free lock.
CanTryAcquire(l) == tail[l] = None

-----------------------------------------------------------------------------
(***************************************************************************)
(* ptw32_mcs_lock_release of node n by thread t.                           *)
(***************************************************************************)

\* No successor: the lock is free.
ReleaseFree(t, n) ==
  /\ next[n] = None
  /\ tail[nodeLock[n]] = n
  /\ tail' = [tail EXCEPT ![nodeLock[n]] = None]
  /\ mcs' = [mcs EXCEPT ![t] = "out"]
  /\ UNCHANGED <<nodeVars, pred, strayed, crashed>>

\* A successor that has not linked itself yet: wait for nextFlag.
ReleaseWaits(n) ==
  /\ next[n] = None
  /\ tail[nodeLock[n]] # n
  /\ nextFlag[n] = "clear"
  /\ nextFlag' = [nextFlag EXCEPT ![n] = FlagStore(@)]
  /\ UNCHANGED <<tail, next, readyFlag, nodeLock, mcs, pred, strayed, crashed>>

\* Passes the lock to a successor that is seen at once, or after the wait.
ReleasePasses(t, n) ==
  /\ next[n] # None
  /\ nextFlag[n] # "event"
  /\ readyFlag' = [readyFlag EXCEPT ![next[n]] = FlagSet(@)]
  /\ mcs' = [mcs EXCEPT ![t] = "out"]
  /\ UNCHANGED <<tail, next, nextFlag, nodeLock, pred, strayed, crashed>>

\* The flag was set, but next is null.
ReleaseCrashes(n) ==
  /\ next[n] = None
  /\ tail[nodeLock[n]] # n
  /\ FlagPassed(nextFlag[n])
  /\ crashed' = TRUE
  /\ UNCHANGED <<tail, nodeVars, mcs, pred, strayed>>

\* The node of a thread leaves its scope when the function that declared it
\* returns.  Cleared fields stand for memory that holds something else by now.
Leave(t) ==
  /\ next' = [next EXCEPT ![t] = None]
  /\ nextFlag' = [nextFlag EXCEPT ![t] = "clear"]
  /\ readyFlag' = [readyFlag EXCEPT ![t] = "clear"]
  /\ nodeLock' = [nodeLock EXCEPT ![t] = None]
  /\ UNCHANGED <<tail, mcs, pred, strayed, crashed>>

-----------------------------------------------------------------------------
(***************************************************************************)
(* ptw32_mcs_node_transfer of the lock that t holds to node n.             *)
(***************************************************************************)

NodeTransfer(t, n) ==
  LET l == nodeLock[t]
  IN  /\ tail[l] = t \/ next[t] # None
      /\ tail' = IF tail[l] = t THEN [tail EXCEPT ![l] = n] ELSE tail
      /\ next' = [next EXCEPT ![n] = next[t]]
      /\ nextFlag' = [nextFlag EXCEPT ![n] = "clear"]
      /\ readyFlag' = [readyFlag EXCEPT ![n] = "clear"]
      /\ nodeLock' = [nodeLock EXCEPT ![n] = l]
      /\ mcs' = [mcs EXCEPT ![t] = "out"]
      /\ UNCHANGED <<pred, strayed, crashed>>
=============================================================================
