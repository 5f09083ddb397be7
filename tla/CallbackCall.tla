---------------------------- MODULE CallbackCall ----------------------------
(***************************************************************************)
(* What a JavaScript callback handed to native code promises its native    *)
(* callers: a thread that calls the function pointer gets exactly one run  *)
(* of the JavaScript function, the runs happen one at a time, and the call *)
(* returns only after its run has finished.  FFICallbacks implements it.   *)
(* Where condition variables wake without a signal the promise is weaker:  *)
(* a call may be abandoned before its run is over, gets one run at most    *)
(* and may return without it.  The other calls keep the promise.           *)
(***************************************************************************)
CONSTANTS
  Threads,      \* the native threads that may call the pointer
  MayAbandon    \* those whose call may give up on its run

VARIABLES state,      \* state[t]: where thread t is in its call
          running     \* the threads whose JavaScript is being run

vars == <<state, running>>

TypeOK ==
  /\ state \in [Threads -> {"idle", "called", "abandoned", "done"}]
  /\ running \in SUBSET Threads

Init ==
  /\ state = [t \in Threads |-> "idle"]
  /\ running = {}

Call(t) ==
  /\ state[t] = "idle"
  /\ state' = [state EXCEPT ![t] = "called"]
  /\ UNCHANGED running

Abandon(t) ==
  /\ t \in MayAbandon
  /\ state[t] = "called"
  /\ state' = [state EXCEPT ![t] = "abandoned"]
  /\ UNCHANGED running

\* The single JavaScript thread starts the function for a caller.
Start(t) ==
  /\ state[t] \in {"called", "abandoned"}
  /\ running = {}
  /\ running' = {t}
  /\ UNCHANGED state

Finish(t) ==
  /\ t \in running
  /\ running' = running \ {t}
  /\ state' = [state EXCEPT ![t] = "done"]

Return(t) ==
  /\ state[t] \in {"done", "abandoned"}
  /\ state' = [state EXCEPT ![t] = "idle"]
  /\ running' = running \ {t}

Next == \E t \in Threads : Call(t) \/ Abandon(t) \/ Start(t) \/ Finish(t) \/ Return(t)

Spec == Init /\ [][Next]_vars
=============================================================================
