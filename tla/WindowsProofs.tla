--------------------------- MODULE WindowsProofs ----------------------------
(***************************************************************************)
(* The main thread of Windows: events of the CLR and turns of the loop.    *)
(*                                                                         *)
(* For any number of threads, with or without senders, raises of an event  *)
(* that do not overlap are delivered and leave nothing behind.             *)
(*                                                                         *)
(* The invariant of CLREvents follows one raise through its phases: nothing *)
(* else may be under way in any of them, or the raises overlap.            *)
(***************************************************************************)
EXTENDS CLREvents, LoopEmbedWin, TLAPS

\* The raise of thread t, the only one that is under way.
Phase(t) ==
  /\ sender <=> t \notin NullSenders
  /\ \/ /\ pc[t] \in {"args", "send"}
        /\ depth = 0 /\ sem = 0 /\ ~sent /\ delivered[t] = 0
        /\ pc[t] = "send" => eventargs = t
     \/ /\ pc[t] = "wait" /\ eventargs = t
        /\ \/ sent /\ depth = 0 /\ sem = 0 /\ delivered[t] = 0
           \/ ~sent /\ depth = 1 /\ sem = 0 /\ delivered[t] = 1
           \/ ~sent /\ depth = 0 /\ delivered[t] = 1 /\ (sem = 1 <=> sender)

\* No raise is under way but those of the main thread, which have no sender.
Idle == sem = 0 /\ ~sent /\ (depth > 0 => ~sender)

Undisturbed ==
  /\ ~overflow
  /\ \A t \in Threads : pc[t] # "idle" =>
       /\ Phase(t)
       /\ \A u \in Threads : pc[u] # "idle" => u = t
  /\ (\A t \in Threads : pc[t] = "idle") => Idle

IInv == TypeOK /\ (disturbed \/ Undisturbed)

-----------------------------------------------------------------------------

LEMMA InitIInv == Init => IInv
<1> SUFFICES ASSUME Init PROVE IInv
  OBVIOUS
<1>1. TypeOK
  <2>1. sender \in BOOLEAN /\ sent \in BOOLEAN /\ overflow \in BOOLEAN /\ disturbed \in BOOLEAN
    BY Zenon DEF Init
  <2> QED BY <2>1, DepthAssumption DEF Init, TypeOK
<1>2. Undisturbed
  BY DEF Init, Undisturbed, Idle
<1> QED BY <1>1, <1>2 DEF IInv

LEMMA TypeStep == TypeOK /\ [Next]_vars => TypeOK'
<1> SUFFICES ASSUME TypeOK, [Next]_vars PROVE TypeOK'
  OBVIOUS
<1> USE DepthAssumption
<1>1. ASSUME NEW t \in Threads, RaiseStoresSender(t) PROVE TypeOK'
  <2>1. sender' \in BOOLEAN /\ disturbed' \in BOOLEAN
    BY <1>1, Zenon DEF RaiseStoresSender
  <2> QED BY <1>1, <2>1 DEF RaiseStoresSender, TypeOK
<1>2. ASSUME NEW t \in Threads, RaiseStoresArgs(t) PROVE TypeOK'
  BY <1>2 DEF RaiseStoresArgs, TypeOK
<1>3. ASSUME NEW t \in Threads, RaiseSends(t) PROVE TypeOK'
  BY <1>3 DEF RaiseSends, TypeOK, slots
<1>4. ASSUME NEW t \in Threads, RaiseReturns(t) PROVE TypeOK'
  BY <1>4 DEF RaiseReturns, TypeOK, slots
<1>5. CASE ClrCallback
  <2>1. delivered' \in [Threads -> 0 .. 2]
    <3>1. delivered' = [t \in Threads |->
            IF t = eventargs /\ delivered[t] < 2 THEN delivered[t] + 1 ELSE delivered[t]]
      BY <1>5 DEF ClrCallback
    <3> QED BY <3>1 DEF TypeOK
  <2>2. /\ pc' = pc /\ sem' = sem /\ depth' = 1
        /\ eventargs' = eventargs
    BY <1>5 DEF ClrCallback, slots
  <2>3. sender' \in BOOLEAN /\ sent' \in BOOLEAN /\ overflow' \in BOOLEAN /\ disturbed' \in BOOLEAN
    BY <1>5, Zenon DEF ClrCallback, slots, TypeOK
  <2> QED BY <2>1, <2>2, <2>3 DEF TypeOK
<1>6. CASE MainRaises
  <2>1. sender' \in BOOLEAN /\ sent' \in BOOLEAN /\ overflow' \in BOOLEAN /\ disturbed' \in BOOLEAN
    BY <1>6, Zenon DEF MainRaises, TypeOK
  <2>2. /\ pc' = pc /\ sem' = sem /\ delivered' = delivered
        /\ eventargs' = NoArgs
        /\ depth < MaxDepth /\ depth' = depth + 1
    BY <1>6, Zenon DEF MainRaises
  <2>3. depth' \in 0 .. MaxDepth
    BY <2>2 DEF TypeOK
  <2> QED BY <2>1, <2>2, <2>3 DEF TypeOK
<1>7. CASE HandlerReturns
  <2>1. overflow' \in BOOLEAN
    BY <1>7, Zenon DEF HandlerReturns
  <2> QED BY <1>7, <2>1 DEF HandlerReturns, TypeOK, slots
<1>8. CASE UNCHANGED vars
  BY <1>8 DEF vars, TypeOK
<1> QED BY <1>1, <1>2, <1>3, <1>4, <1>5, <1>6, <1>7, <1>8 DEF Next, Raise

-----------------------------------------------------------------------------
(***************************************************************************)
(* The steps of a raise                                                    *)
(***************************************************************************)

\* Nobody else is in the middle of a raise.
LEMMA Alone ==
  ASSUME TypeOK, Undisturbed, NEW t \in Threads, pc[t] # "idle", NEW pcs,
         pc' = [pc EXCEPT ![t] = pcs]
  PROVE  /\ \A u \in Threads \ {t} : pc[u] = "idle" /\ pc'[u] = "idle"
         /\ pc'[t] = pcs
         /\ Phase(t)
BY DEF TypeOK, Undisturbed

LEMMA RaiseStoresSenderStep ==
  ASSUME TypeOK, Undisturbed, NEW t \in Threads, RaiseStoresSender(t), ~disturbed'
  PROVE  Undisturbed'
<1>1. depth = 0 /\ Raising = {} /\ UNCHANGED <<eventargs, sent, sem, depth, overflow>>
  <2>1. ~(depth > 0) /\ Raising = {} /\ UNCHANGED <<eventargs, sent, sem, depth, overflow>>
    BY Zenon DEF RaiseStoresSender
  <2> QED BY <2>1 DEF TypeOK
<1>2. /\ pc'[t] = "args" /\ delivered'[t] = 0
      /\ \A u \in Threads \ {t} : pc'[u] = "idle"
  BY <1>1 DEF RaiseStoresSender, TypeOK, Raising
<1>3. Idle /\ ~overflow
  BY <1>1 DEF Undisturbed, Raising
<1>4. sender' <=> t \notin NullSenders
  BY DEF RaiseStoresSender
<1>5. Phase(t)'
  BY <1>1, <1>2, <1>3, <1>4 DEF Phase, Idle
<1> QED BY <1>1, <1>2, <1>3, <1>5 DEF Undisturbed

LEMMA RaiseStoresArgsStep ==
  ASSUME TypeOK, Undisturbed, NEW t \in Threads, RaiseStoresArgs(t)
  PROVE  Undisturbed'
<1>1. pc[t] = "args" /\ pc' = [pc EXCEPT ![t] = "send"] /\ eventargs' = t
  BY DEF RaiseStoresArgs
<1>2. UNCHANGED <<sender, sent, sem, depth, overflow, delivered>>
  BY DEF RaiseStoresArgs
<1>3. /\ \A u \in Threads \ {t} : pc'[u] = "idle"
      /\ pc'[t] = "send" /\ Phase(t)
  BY <1>1, Alone
<1>4. Phase(t)'
  BY <1>1, <1>2, <1>3 DEF Phase
<1> QED BY <1>2, <1>3, <1>4 DEF Undisturbed

LEMMA RaiseSendsStep ==
  ASSUME TypeOK, Undisturbed, NEW t \in Threads, RaiseSends(t)
  PROVE  Undisturbed'
<1>1. pc[t] = "send" /\ pc' = [pc EXCEPT ![t] = "wait"] /\ sent'
  BY DEF RaiseSends
<1>2. UNCHANGED <<sender, eventargs, sem, depth, overflow, delivered>>
  BY DEF RaiseSends, slots
<1>3. /\ \A u \in Threads \ {t} : pc'[u] = "idle"
      /\ pc'[t] = "wait" /\ Phase(t)
  BY <1>1, Alone
<1>4. Phase(t)'
  BY <1>1, <1>2, <1>3 DEF Phase
<1> QED BY <1>2, <1>3, <1>4 DEF Undisturbed

LEMMA RaiseReturnsStep ==
  ASSUME TypeOK, Undisturbed, NEW t \in Threads, RaiseReturns(t)
  PROVE  Undisturbed'
<1>1. pc[t] = "wait" /\ sem > 0 /\ pc' = [pc EXCEPT ![t] = "idle"] /\ sem' = sem - 1
  BY DEF RaiseReturns
<1>2. UNCHANGED <<sender, eventargs, sent, depth, overflow, delivered>>
  BY DEF RaiseReturns, slots
<1>3. /\ \A u \in Threads \ {t} : pc'[u] = "idle"
      /\ pc'[t] = "idle" /\ Phase(t)
  BY <1>1, Alone
<1>4. ~sent /\ depth = 0 /\ sem = 1
  BY <1>1, <1>3 DEF Phase, TypeOK
<1>5. Idle'
  BY <1>1, <1>2, <1>4 DEF Idle
<1> QED BY <1>2, <1>3, <1>5 DEF Undisturbed

-----------------------------------------------------------------------------
(***************************************************************************)
(* The steps of the main thread                                            *)
(***************************************************************************)

LEMMA ClrCallbackStep ==
  ASSUME TypeOK, Undisturbed, ClrCallback
  PROVE  Undisturbed'
<1>1. /\ depth = 0 /\ sent /\ ~sent' /\ depth' = 1
      /\ UNCHANGED <<pc, sender, eventargs, sem, overflow>>
  BY DEF ClrCallback, slots
<1>2. PICK t \in Threads : pc[t] # "idle"
  BY <1>1 DEF Undisturbed, Idle
<1>3. Phase(t) /\ \A u \in Threads : pc[u] # "idle" => u = t
  BY <1>2 DEF Undisturbed
<1>4. /\ pc[t] = "wait" /\ eventargs = t /\ sem = 0 /\ delivered[t] = 0
      /\ sender <=> t \notin NullSenders
  BY <1>1, <1>3 DEF Phase
<1>5. delivered'[t] = 1
  BY <1>4 DEF ClrCallback
<1>6. Phase(t)'
  BY <1>1, <1>4, <1>5 DEF Phase
<1> QED BY <1>1, <1>2, <1>3, <1>6 DEF Undisturbed

LEMMA MainRaisesStep ==
  ASSUME TypeOK, Undisturbed, MainRaises, ~disturbed'
  PROVE  Undisturbed'
<1>1. /\ Raising = {} /\ ~sender'
      /\ UNCHANGED <<pc, sent, sem, overflow>>
  BY DEF MainRaises
<1>2. Idle
  BY <1>1 DEF Undisturbed, Raising
<1> QED BY <1>1, <1>2 DEF Undisturbed, Idle, Raising

LEMMA HandlerReturnsStep ==
  ASSUME TypeOK, Undisturbed, HandlerReturns
  PROVE  Undisturbed'
<1>1. /\ depth > 0 /\ depth' = depth - 1
      /\ sem' = IF sender THEN 1 ELSE sem
      /\ overflow' <=> sender /\ sem = 1
      /\ UNCHANGED <<pc, sender, eventargs, sent, delivered>>
  BY DEF HandlerReturns, slots
<1>2. CASE \A t \in Threads : pc[t] = "idle"
  <2>1. Idle /\ ~sender
    BY <1>1, <1>2 DEF Undisturbed, Idle
  <2> QED BY <1>1, <1>2, <2>1 DEF Undisturbed, Idle
<1>3. ASSUME NEW t \in Threads, pc[t] # "idle"
      PROVE  Undisturbed'
  <2>1. Phase(t) /\ \A u \in Threads : pc[u] # "idle" => u = t
    BY <1>3 DEF Undisturbed
  <2>2. /\ pc[t] = "wait" /\ eventargs = t /\ ~sent /\ depth = 1 /\ sem = 0
        /\ delivered[t] = 1 /\ (sender <=> t \notin NullSenders)
    BY <1>1, <2>1 DEF Phase
  <2>3. depth' = 0 /\ (sem' = 1 <=> sender) /\ ~overflow'
    BY <1>1, <2>2
  <2>4. Phase(t)'
    BY <1>1, <2>2, <2>3 DEF Phase
  <2> QED BY <1>1, <1>3, <2>1, <2>3, <2>4 DEF Undisturbed
<1> QED BY <1>2, <1>3

-----------------------------------------------------------------------------

LEMMA NextIInv == IInv /\ [Next]_vars => IInv'
<1> SUFFICES ASSUME IInv, [Next]_vars, ~disturbed' PROVE Undisturbed'
  BY TypeStep DEF IInv
<1>0. TypeOK /\ Undisturbed
  <2>1. ~disturbed
    BY DEF Next, Raise, RaiseStoresSender, RaiseStoresArgs, RaiseSends, RaiseReturns,
           ClrCallback, MainRaises, HandlerReturns, vars
  <2> QED BY <2>1 DEF IInv
<1>1. ASSUME NEW t \in Threads, RaiseStoresSender(t) \/ Raise(t)
      PROVE  Undisturbed'
  BY <1>0, <1>1, RaiseStoresSenderStep, RaiseStoresArgsStep, RaiseSendsStep, RaiseReturnsStep
     DEF Raise
<1>2. CASE ClrCallback \/ MainRaises \/ HandlerReturns
  BY <1>0, <1>2, ClrCallbackStep, MainRaisesStep, HandlerReturnsStep
<1>3. CASE UNCHANGED vars
  BY <1>0, <1>3 DEF vars, Undisturbed, Phase, Idle
<1> QED BY <1>1, <1>2, <1>3 DEF Next

LEMMA Invariant == Spec => []IInv
BY InitIInv, NextIInv, PTL DEF Spec

\* CLREventHandler keeps its types: the semaphore never counts past its maximum.
THEOREM TypeCorrect == Spec => []TypeOK
BY Invariant, PTL DEF IInv

\* EventHandlerOnMain returns to a thread whose raise overlaps no other when
\* JavaScript has been given that thread's own event, once.
THEOREM DeliveredOnReturn == Spec => []ReturnsDelivered
<1>1. IInv => ReturnsDelivered
  <2> SUFFICES ASSUME IInv, NEW t \in Threads, pc[t] = "wait", sem > 0, ~disturbed
               PROVE  delivered[t] = 1
    BY DEF ReturnsDelivered
  <2>1. Phase(t)
    BY DEF IInv, Undisturbed
  <2> QED BY <2>1 DEF Phase
<1> QED BY Invariant, <1>1, PTL

\* Raises that do not overlap leave no count, no send and no exception behind.
THEOREM RaisesClean == Spec => []NothingLeftOver
<1>1. IInv => NothingLeftOver
  BY DEF IInv, Undisturbed, Idle, NothingLeftOver, Raising
<1> QED BY Invariant, <1>1, PTL

-----------------------------------------------------------------------------
(***************************************************************************)
(* On Windows a waiting watcher is owed a turn, for any size of the message *)
(* queue and any loops nested in win_msg_loop.                             *)
(***************************************************************************)

\* The turn is owed from the moment the message is posted.
OwedInv ==
  watcher \in {"trip", "wait"} /\ ~stolen =>
    uv_messages > 0 \/ main = "run" \/ embed_sem > 0

WinInv == WinTypeOK /\ OwedInv

-----------------------------------------------------------------------------

LEMMA PostedInRange ==
  ASSUME NEW n \in 0 .. QueueLimit
  PROVE  Posted(n) \in 0 .. QueueLimit /\ Posted(n) > 0
  BY QueueAssumption DEF Posted

LEMMA InitWinInv == WinInit => WinInv
<1> SUFFICES ASSUME WinInit PROVE WinInv
  OBVIOUS
<1>1. /\ uv_trip_winproc_safety \in BOOLEAN /\ ui_message \in BOOLEAN
      /\ embed_closed \in BOOLEAN /\ stolen \in BOOLEAN
  BY Zenon DEF WinInit
<1>2. embed_sem \in 0 .. SemLimit /\ uv_messages \in 0 .. QueueLimit
  BY QueueAssumption, SemAssumption DEF WinInit
<1>3. OwedInv
  BY DEF WinInit, OwedInv
<1> QED
  BY <1>1, <1>2, <1>3 DEF WinInit, WinInv, WinTypeOK

LEMMA StepWinInv == WinInv /\ [WinNext]_winVars => WinInv'
<1> SUFFICES ASSUME WinInv, [WinNext]_winVars PROVE WinInv'
  OBVIOUS
<1> USE QueueAssumption, SemAssumption DEF WinInv
<1>1. CASE WatcherPolls
  <2>1. WinTypeOK'
    BY <1>1 DEF WatcherPolls, WinTypeOK
  <2>2. OwedInv'
    BY <1>1 DEF WatcherPolls, WinTypeOK, OwedInv
  <2> QED
    BY <2>1, <2>2
<1>2. CASE WatcherPost
  <2>1. WinTypeOK'
    BY <1>2, PostedInRange DEF WatcherPost, WinTypeOK
  <2>2. OwedInv'
    BY <1>2, PostedInRange DEF WatcherPost, WinTypeOK, OwedInv
  <2> QED
    BY <2>1, <2>2
<1>3. CASE WatcherTrip
  <2>1. WinTypeOK'
    BY <1>3 DEF WatcherTrip, WinTypeOK
  <2>2. OwedInv'
    BY <1>3 DEF WatcherTrip, WinTypeOK, OwedInv
  <2> QED
    BY <2>1, <2>2
<1>4. CASE WatcherWait
  <2>1. WinTypeOK'
    BY <1>4 DEF WatcherWait, WinTypeOK
  <2>2. OwedInv'
    BY <1>4 DEF WatcherWait, WinTypeOK, OwedInv
  <2> QED
    BY <2>1, <2>2
<1>5. CASE WatcherExits
  <2>1. WinTypeOK'
    BY <1>5 DEF WatcherExits, WinTypeOK
  <2>2. OwedInv'
    BY <1>5 DEF WatcherExits, WinTypeOK, OwedInv
  <2> QED
    BY <2>1, <2>2
<1>6. CASE GetUvMessage
  <2>1. WinTypeOK'
    BY <1>6 DEF GetUvMessage, WinTypeOK
  <2>2. OwedInv'
    BY <1>6 DEF GetUvMessage, WinTypeOK, OwedInv
  <2> QED
    BY <2>1, <2>2
<1>7. CASE GetUiMessage
  <2>1. WinTypeOK'
    BY <1>7 DEF GetUiMessage, WinTypeOK
  <2>2. OwedInv'
    BY <1>7 DEF GetUiMessage, WinTypeOK, OwedInv
  <2> QED
    BY <2>1, <2>2
<1>8. CASE RunPosts
  <2>1. WinTypeOK'
    BY <1>8 DEF RunPosts, WinTypeOK
  <2>2. OwedInv'
    BY <1>8 DEF RunPosts, WinTypeOK, OwedInv
  <2> QED
    BY <2>1, <2>2
<1>9. CASE Untrip
  <2>1. WinTypeOK'
    BY <1>9 DEF Untrip, WinTypeOK
  <2>2. OwedInv'
    BY <1>9 DEF Untrip, WinTypeOK, OwedInv
  <2> QED
    BY <2>1, <2>2
<1>10. CASE Dispatch
  <2>1. WinTypeOK'
    BY <1>10, LoopsAssumption DEF Dispatch, WinTypeOK
  <2>2. OwedInv'
    BY <1>10, LoopsAssumption DEF Dispatch, WinTypeOK, OwedInv
  <2> QED
    BY <2>1, <2>2
<1>11. CASE Quit
  <2>1. WinTypeOK'
    BY <1>11 DEF Quit, WinTypeOK
  <2>2. OwedInv'
    BY <1>11 DEF Quit, WinTypeOK, OwedInv
  <2> QED
    BY <2>1, <2>2
<1>12. CASE WpfGetsUv
  <2>1. WinTypeOK'
    BY <1>12 DEF WpfGetsUv, WinTypeOK
  <2>2. OwedInv'
    BY <1>12 DEF WpfGetsUv, WinTypeOK, OwedInv
  <2> QED
    BY <2>1, <2>2
<1>13. CASE ForeignGetsUv
  <2>1. WinTypeOK'
    BY <1>13 DEF ForeignGetsUv, WinTypeOK
  <2>2. OwedInv'
    BY <1>13 DEF ForeignGetsUv, WinTypeOK, OwedInv
  <2> QED
    BY <2>1, <2>2
<1>14. CASE OtherLoopGetsUi
  <2>1. WinTypeOK'
    BY <1>14 DEF OtherLoopGetsUi, WinTypeOK
  <2>2. OwedInv'
    BY <1>14 DEF OtherLoopGetsUi, WinTypeOK, OwedInv
  <2> QED
    BY <2>1, <2>2
<1>15. CASE OtherLoopEnds
  <2>1. WinTypeOK'
    BY <1>15 DEF OtherLoopEnds, WinTypeOK
  <2>2. OwedInv'
    BY <1>15, LoopsAssumption DEF OtherLoopEnds, WinTypeOK, OwedInv
  <2> QED
    BY <2>1, <2>2
<1>16. CASE UiMessageArrives
  <2>1. WinTypeOK'
    BY <1>16 DEF UiMessageArrives, WinTypeOK
  <2>2. OwedInv'
    BY <1>16 DEF UiMessageArrives, WinTypeOK, OwedInv
  <2> QED
    BY <2>1, <2>2
<1>17. CASE UNCHANGED winVars
  BY <1>17 DEF winVars, WinTypeOK, OwedInv
<1> QED
  BY <1>1, <1>2, <1>3, <1>4, <1>5, <1>6, <1>7, <1>8, <1>9, <1>10, <1>11, <1>12, <1>13, <1>14, <1>15, <1>16, <1>17
  DEF WinNext, Watcher, MessageLoop, OtherLoop

LEMMA WinInvariance == WinSpec => []WinInv
  BY InitWinInv, StepWinInv, PTL DEF WinSpec

-----------------------------------------------------------------------------

\* As long as no handler outside win_msg_loop and WPF collects a WM_APP+1, the
\* main thread cannot leave uv_event waiting: the turn is queued, running or done.
THEOREM WaitingIsOwed == WinSpec => []TurnOwed
<1>1. WinInv => TurnOwed
  BY DEF WinInv, OwedInv, TurnOwed
<1> QED
  BY <1>1, WinInvariance, PTL
=============================================================================
