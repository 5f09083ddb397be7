------------------------------ MODULE CLREvents ------------------------------
(***************************************************************************)
(* A .NET event raised on any thread and handled in JavaScript on the main *)
(* thread: CLREventHandler of modules/Bridge/CLR_win.cpp.                  *)
(*                                                                         *)
(* One handler object serves every raise of its event.  A raise on another *)
(* thread leaves sender and arguments in the object's two fields, sends    *)
(* its async handle and waits on its semaphore; the callback of the handle *)
(* reads the fields, calls JavaScript, and releases the semaphore if the   *)
(* sender field is set.  A raise on the main thread clears the fields and  *)
(* calls JavaScript directly.  Nothing keeps two raises apart.             *)
(*                                                                         *)
(* The properties say what holds as long as they do not overlap; the       *)
(* history variable disturbed records that two of them did.  JavaScript    *)
(* that throws ends the process and is left out.                           *)
(***************************************************************************)
EXTENDS Integers

CONSTANTS
  Threads,      \* threads that raise the event, the main thread not among them
  NoArgs,       \* the arguments field is nullptr
  NullSenders,  \* those of them whose events have no sender (static events)
  MaxDepth      \* bound on handlers active on the main thread, one in another

ASSUME NoArgsAssumption == NoArgs \notin Threads
ASSUME NullSendersAssumption == NullSenders \subseteq Threads
ASSUME DepthAssumption == MaxDepth \in Nat \ {0}

VARIABLES
  pc,          \* the next statement of EventHandlerOnMain on each thread
  sender,      \* _sender is not nullptr
  eventargs,   \* _eventargs, named by the thread that raised the event
  sent,        \* the async handle is pending
  sem,         \* the count of the semaphore
  depth,       \* handlers active on the main thread
  overflow,    \* Release found the semaphore full and threw
  delivered,   \* history: times JavaScript has been given a thread's current event
  disturbed    \* history: two raises of the event have overlapped

slots == <<sender, eventargs>>
vars == <<pc, sender, eventargs, sent, sem, depth, overflow, delivered, disturbed>>

Init ==
  /\ pc = [t \in Threads |-> "idle"]
  /\ sender = FALSE
  /\ eventargs = NoArgs
  /\ sent = FALSE
  /\ sem = 0
  /\ depth = 0
  /\ overflow = FALSE
  /\ delivered = [t \in Threads |-> 0]
  /\ disturbed = FALSE

Raising == {t \in Threads : pc[t] # "idle"}

-----------------------------------------------------------------------------
(***************************************************************************)
(* Faulty variants of the steps below, none of them part of Next.          *)
(***************************************************************************)

\* The arguments are not stored: the callback sees those of an earlier raise.
RaiseStoresSenderOnly(t) ==
  /\ pc[t] = "idle"
  /\ pc' = [pc EXCEPT ![t] = "send"]
  /\ sender' = (t \notin NullSenders)
  /\ delivered' = [delivered EXCEPT ![t] = 0]
  /\ disturbed' = (disturbed \/ depth > 0 \/ Raising # {})
  /\ UNCHANGED <<eventargs, sent, sem, depth, overflow>>

\* A raise on the main thread leaves the fields of the last one in place.
MainRaisesKeepsFields ==
  /\ ~overflow
  /\ depth < MaxDepth
  /\ depth' = depth + 1
  /\ disturbed' = (disturbed \/ Raising # {})
  /\ UNCHANGED <<pc, slots, sent, sem, overflow, delivered>>

\* The semaphore is not released.
HandlerReturnsHolding ==
  /\ ~overflow
  /\ depth > 0
  /\ depth' = depth - 1
  /\ UNCHANGED <<pc, slots, sent, sem, overflow, delivered, disturbed>>

-----------------------------------------------------------------------------
(***************************************************************************)
(* EventHandlerOnMain on a thread that is not the main thread.             *)
(***************************************************************************)

RaiseStoresSender(t) ==
  /\ pc[t] = "idle"
  /\ pc' = [pc EXCEPT ![t] = "args"]
  /\ sender' = (t \notin NullSenders)
  /\ delivered' = [delivered EXCEPT ![t] = 0]
  /\ disturbed' = (disturbed \/ depth > 0 \/ Raising # {})
  /\ UNCHANGED <<eventargs, sent, sem, depth, overflow>>

RaiseStoresArgs(t) ==
  /\ pc[t] = "args"
  /\ pc' = [pc EXCEPT ![t] = "send"]
  /\ eventargs' = t
  /\ UNCHANGED <<sender, sent, sem, depth, overflow, delivered, disturbed>>

\* The handle's data is the same handler each time; sends coalesce.
RaiseSends(t) ==
  /\ pc[t] = "send"
  /\ pc' = [pc EXCEPT ![t] = "wait"]
  /\ sent' = TRUE
  /\ UNCHANGED <<slots, sem, depth, overflow, delivered, disturbed>>

RaiseReturns(t) ==
  /\ pc[t] = "wait"
  /\ sem > 0
  /\ pc' = [pc EXCEPT ![t] = "idle"]
  /\ sem' = sem - 1
  /\ UNCHANGED <<slots, sent, depth, overflow, delivered, disturbed>>

-----------------------------------------------------------------------------
(***************************************************************************)
(* The main thread.                                                        *)
(***************************************************************************)

\* clr_callback: the loop delivers the async, and JavaScript begins with
\* whatever the fields hold.
ClrCallback ==
  /\ ~overflow
  /\ depth = 0
  /\ sent
  /\ sent' = FALSE
  /\ depth' = 1
  /\ delivered' = [t \in Threads |->
       IF t = eventargs /\ delivered[t] < 2 THEN delivered[t] + 1 ELSE delivered[t]]
  /\ UNCHANGED <<pc, slots, sem, overflow, disturbed>>

\* EventHandlerOnMain on the main thread, perhaps from a handler that is active.
MainRaises ==
  /\ ~overflow
  /\ depth < MaxDepth
  /\ depth' = depth + 1
  /\ sender' = FALSE
  /\ eventargs' = NoArgs
  /\ disturbed' = (disturbed \/ Raising # {})
  /\ UNCHANGED <<pc, sent, sem, overflow, delivered>>

\* JavaScript returns to EventHandler.
HandlerReturns ==
  /\ ~overflow
  /\ depth > 0
  /\ depth' = depth - 1
  /\ sem' = IF sender THEN 1 ELSE sem
  /\ overflow' = (sender /\ sem = 1)
  /\ UNCHANGED <<pc, slots, sent, delivered, disturbed>>

-----------------------------------------------------------------------------

Raise(t) == RaiseStoresArgs(t) \/ RaiseSends(t) \/ RaiseReturns(t)

Next ==
  \/ \E t \in Threads : RaiseStoresSender(t) \/ Raise(t)
  \/ ClrCallback
  \/ MainRaises
  \/ HandlerReturns

Spec == Init /\ [][Next]_vars

\* Threads are scheduled, the loop delivers a pending async however many
\* events the main thread raises itself, and handlers return.
Fairness ==
  /\ \A t \in Threads : WF_vars(Raise(t))
  /\ SF_vars(ClrCallback)
  /\ SF_vars(HandlerReturns)

FairSpec == Spec /\ Fairness

-----------------------------------------------------------------------------
(***************************************************************************)
(* Properties                                                              *)
(***************************************************************************)

TypeOK ==
  /\ pc \in [Threads -> {"idle", "args", "send", "wait"}]
  /\ sender \in BOOLEAN
  /\ eventargs \in Threads \cup {NoArgs}
  /\ sent \in BOOLEAN
  /\ sem \in 0 .. 1
  /\ depth \in 0 .. MaxDepth
  /\ overflow \in BOOLEAN
  /\ delivered \in [Threads -> 0 .. 2]
  /\ disturbed \in BOOLEAN

\* A raise that overlaps no other returns to its thread only when JavaScript
\* has been given its own event, once.
ReturnsDelivered ==
  \A t \in Threads :
    pc[t] = "wait" /\ sem > 0 /\ ~disturbed => delivered[t] = 1

\* Raises that do not overlap leave nothing behind for the next one, no count
\* in the semaphore and no send, and the semaphore never overflows: Release
\* would throw in the middle of a callback of the event loop.
NothingLeftOver ==
  ~disturbed =>
    /\ ~overflow
    /\ Raising = {} => sem = 0 /\ ~sent

\* A thread that waits is released, if its event has a sender and no raise overlaps.
RaisersReturn ==
  \A t \in Threads \ NullSenders : pc[t] = "wait" ~> (pc[t] = "idle" \/ disturbed)
=============================================================================
