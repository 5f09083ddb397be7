----------------------------- MODULE EventTarget -----------------------------
(***************************************************************************)
(* The events of a control: defineEvents and lazyLoadEventListener of      *)
(* modules/Utilities/Utilities_base.js, on the CLR bridge of Windows.      *)
(*                                                                         *)
(* One event is modelled.  Its listeners are an array that addEventListener *)
(* and removeEventListener change in place while fireEvent may be walking  *)
(* it, at any depth of nesting: a listener may add and remove listeners    *)
(* and fire the event again.  A control that loads its native handlers     *)
(* lazily asks the native object for one each time a listener is added.    *)
(*                                                                         *)
(* A listener that throws ends the process (fireEvent calls process.exit)  *)
(* and is left out.                                                        *)
(***************************************************************************)
EXTENDS Integers, Sequences, FiniteSets, SequencesExt

CONSTANTS
  Funcs,         \* the functions used as listeners
  MaxListeners,  \* bound on the array of listeners
  MaxNative,     \* bound on the native handlers
  MaxDepth       \* bound on nested fires

ASSUME BoundsAssumption ==
  MaxListeners \in Nat /\ MaxNative \in Nat /\ MaxDepth \in Nat \ {0}

VARIABLES
  listeners,   \* this.private.events[event]
  native,      \* handlers installed on the native object for this event
  calls_due,   \* native handlers still to be called for the current act of the user
  fires,       \* the active calls of fireEvent, innermost last
  registered   \* history: additions of each function less removals

eventVars == <<listeners, native, calls_due, fires, registered>>

\* A call of fireEvent: forEach takes the length of the array once and walks
\* the live array.  Only called, before and shrunk are history.
Fire == [
  index: 0 .. MaxListeners,  \* the next index
  length: 0 .. MaxListeners, \* the length when forEach began
  calling: BOOLEAN,          \* a listener is running
  called: Seq(Funcs),        \* the listeners called so far
  before: Seq(Funcs),        \* the listeners when forEach began
  shrunk: BOOLEAN]           \* a listener was removed meanwhile

EventInit ==
  /\ listeners = <<>>
  /\ native = 0
  /\ calls_due = 0
  /\ fires = <<>>
  /\ registered = [f \in Funcs |-> 0]

\* JavaScript runs: no fire is active, or its innermost listener is running.
Running == fires # <<>> => Last(fires).calling

\* indexOf, counting from one; zero if there is none.
FirstIndex(f) ==
  IF \E i \in DOMAIN listeners : listeners[i] = f
  THEN CHOOSE i \in DOMAIN listeners :
         listeners[i] = f /\ \A j \in 1 .. i - 1 : listeners[j] # f
  ELSE 0

\* The fire after its next index: an element is called, a hole left by a
\* removal is skipped.
Stepped(fire) ==
  IF fire.index < Len(listeners)
  THEN [fire EXCEPT !.index = fire.index + 1, !.calling = TRUE,
                    !.called = Append(fire.called, listeners[fire.index + 1])]
  ELSE [fire EXCEPT !.index = fire.index + 1]

-----------------------------------------------------------------------------
(***************************************************************************)
(* Faulty variants of the steps below, none of them part of Next.          *)
(***************************************************************************)

\* forEach asks for the length of the array at every step.
ForEachLiveLength ==
  /\ fires # <<>>
  /\ LET fire == Last(fires) IN
       /\ ~fire.calling
       /\ fire.index < Len(listeners)
       /\ fires' = [fires EXCEPT ![Len(fires)] = Stepped(fire)]
  /\ UNCHANGED <<listeners, native, calls_due, registered>>

\* The native handler is asked for by the second listener only.
AddLate(f) ==
  /\ Running
  /\ Len(listeners) < MaxListeners
  /\ native < MaxNative
  /\ native' = IF listeners = <<>> THEN native ELSE native + 1
  /\ listeners' = Append(listeners, f)
  /\ registered' = [registered EXCEPT ![f] = @ + 1]
  /\ UNCHANGED <<calls_due, fires>>

-----------------------------------------------------------------------------
(***************************************************************************)
(* What JavaScript may do, at top level or in a listener.                  *)
(***************************************************************************)

\* addEventListener: 'event-listener-added' is fired first, for which
\* lazyLoadEventListener calls funcAdd, and the native object gets one more handler.
addEventListener(f) ==
  /\ Running
  /\ Len(listeners) < MaxListeners
  /\ native < MaxNative
  /\ native' = native + 1
  /\ listeners' = Append(listeners, f)
  /\ registered' = [registered EXCEPT ![f] = @ + 1]
  /\ UNCHANGED <<calls_due, fires>>

\* removeEventListener: 'event-listener-removed' has no listener, since
\* lazyLoadEventListener removes the function it meant to add.
removeEventListener(f) ==
  /\ Running
  /\ listeners' = IF FirstIndex(f) = 0 THEN listeners ELSE RemoveAt(listeners, FirstIndex(f))
  /\ registered' = [registered EXCEPT ![f] = IF @ = 0 THEN 0 ELSE @ - 1]
  /\ fires' = IF FirstIndex(f) = 0 THEN fires
              ELSE [i \in DOMAIN fires |-> [fires[i] EXCEPT !.shrunk = TRUE]]
  /\ UNCHANGED <<native, calls_due>>

NewFire ==
  [index |-> 0, length |-> Len(listeners), calling |-> FALSE,
   called |-> <<>>, before |-> listeners, shrunk |-> FALSE]

\* fireEvent called from JavaScript.
fireEvent ==
  /\ Running
  /\ Len(fires) < MaxDepth
  /\ fires' = Append(fires, NewFire)
  /\ UNCHANGED <<listeners, native, calls_due, registered>>

-----------------------------------------------------------------------------
(***************************************************************************)
(* forEach in fireEvent.                                                   *)
(***************************************************************************)

ForEachNext ==
  /\ fires # <<>>
  /\ LET fire == Last(fires) IN
       /\ ~fire.calling
       /\ fire.index < fire.length
       /\ fires' = [fires EXCEPT ![Len(fires)] = Stepped(fire)]
  /\ UNCHANGED <<listeners, native, calls_due, registered>>

ListenerReturns ==
  /\ fires # <<>>
  /\ Last(fires).calling
  /\ fires' = [fires EXCEPT ![Len(fires)] = [Last(fires) EXCEPT !.calling = FALSE]]
  /\ UNCHANGED <<listeners, native, calls_due, registered>>

FireReturns ==
  /\ fires # <<>>
  /\ ~Last(fires).calling
  /\ Last(fires).index = Last(fires).length
  /\ fires' = Front(fires)
  /\ UNCHANGED <<listeners, native, calls_due, registered>>

-----------------------------------------------------------------------------

\* The user acts: the native object calls each handler it has now, and each
\* is this.fireEvent bound to the event.
NativeEvent ==
  /\ calls_due = 0
  /\ fires = <<>>
  /\ native > 0
  /\ calls_due' = native
  /\ UNCHANGED <<listeners, native, fires, registered>>

NextHandler ==
  /\ calls_due > 0
  /\ fires = <<>>
  /\ calls_due' = calls_due - 1
  /\ fires' = <<NewFire>>
  /\ UNCHANGED <<listeners, native, registered>>

Script == (\E f \in Funcs : addEventListener(f) \/ removeEventListener(f)) \/ fireEvent

Walk == ForEachNext \/ ListenerReturns \/ FireReturns \/ NextHandler

\* Between two handlers of one act only the native object runs.
EventNext ==
  \/ (calls_due = 0 \/ fires # <<>>) /\ Script
  \/ Walk
  \/ NativeEvent

EventSpec == EventInit /\ [][EventNext]_eventVars

-----------------------------------------------------------------------------
(***************************************************************************)
(* Properties                                                              *)
(***************************************************************************)

EventTypeOK ==
  /\ listeners \in Seq(Funcs) /\ Len(listeners) <= MaxListeners
  /\ native \in 0 .. MaxNative
  /\ calls_due \in 0 .. MaxNative
  /\ fires \in Seq(Fire) /\ Len(fires) <= MaxDepth
  /\ \A i \in DOMAIN fires : fires[i].index <= fires[i].length
  /\ registered \in [Funcs -> 0 .. MaxListeners]

\* The types, and: a fire during which no listener is removed calls the listeners there were
\* when it began, in order and once each, whatever is added and fired meanwhile.
FiresThoseBefore ==
  /\ EventTypeOK
  /\ \A i \in DOMAIN fires :
       ~fires[i].shrunk =>
         /\ IsPrefix(fires[i].called, fires[i].before)
         /\ Len(fires[i].called) = fires[i].index

\* The array holds each function as often as it was added and not removed:
\* removing what is not there removes nothing.  And whoever listens has a
\* native handler behind the event.
ListenersAreHeard ==
  /\ \A f \in Funcs :
       Cardinality({i \in DOMAIN listeners : listeners[i] = f}) = registered[f]
  /\ listeners # <<>> => native > 0
=============================================================================
