----------------------------- MODULE LoopEmbedWin -----------------------------
(***************************************************************************)
(* The libuv loop inside the Windows message loop                          *)
(* (modules/Runtime/Main_win.cc, and HandleMessageLoop of                  *)
(* modules/Bridge/CLR_win.cpp).                                            *)
(*                                                                         *)
(* The watcher thread posts WM_APP+1 to the main thread's queue, arms      *)
(* uv_trip_winproc_safety and waits on embed_sem.  The main thread runs a  *)
(* turn of the loop for a WM_APP+1, or for any message while the flag is   *)
(* armed.  Dispatching a message may enter a loop that is not win_msg_loop *)
(* (a modal dialog of WPF, or of WinForms) and takes messages off the same *)
(* queue.                                                                  *)
(*                                                                         *)
(* The contents of the libuv loop are left out: they are those of          *)
(* LoopEmbed, and none of the properties below depends on them.            *)
(***************************************************************************)
EXTENDS Integers

CONSTANTS
  Loops,       \* loops that a dispatched message may enter: "wpf", "foreign"
  QueueLimit,  \* posting to a full message queue fails
  SemLimit     \* bound on the semaphore

ASSUME LoopsAssumption == Loops \subseteq {"wpf", "foreign"}
ASSUME QueueAssumption == QueueLimit \in Nat \ {0}
ASSUME SemAssumption == SemLimit \in Nat \ {0}

VARIABLES
  watcher,      \* the next statement of uv_event
  main,         \* the next statement of win_msg_loop, or the loop it is in
  message,      \* the message being handled
  uv_trip_winproc_safety,
  embed_sem,    \* the value of the semaphore
  uv_messages,  \* WM_APP+1 messages in the queue
  ui_message,   \* another message is in the queue
  embed_closed,
  stolen        \* history: a WM_APP+1 message was taken and no turn run for it

winVars == <<watcher, main, message, uv_trip_winproc_safety, embed_sem, uv_messages,
             ui_message, embed_closed, stolen>>

WinInit ==
  /\ watcher = "start"
  /\ main = "get"
  /\ message = "none"
  /\ uv_trip_winproc_safety = FALSE
  /\ embed_sem = 0
  /\ uv_messages = 0
  /\ ui_message = FALSE
  /\ embed_closed = FALSE
  /\ stolen = FALSE

\* PostMessage and PostThreadMessage fail when the queue is full.
Posted(n) == IF n < QueueLimit THEN n + 1 ELSE QueueLimit

-----------------------------------------------------------------------------
(***************************************************************************)
(* Faulty variants of the steps below, none of them part of Next.          *)
(***************************************************************************)

\* The message is not posted: the watcher relies on the flag alone.
WatcherPostNothing ==
  /\ watcher = "post"
  /\ watcher' = "trip"
  /\ UNCHANGED <<main, message, uv_trip_winproc_safety, embed_sem, uv_messages,
                 ui_message, embed_closed, stolen>>

\* The WPF loop takes WM_APP+1 without running the loop.
WpfGetsUvIgnored ==
  /\ main = "wpf"
  /\ uv_messages > 0
  /\ uv_messages' = uv_messages - 1
  /\ UNCHANGED <<watcher, main, message, uv_trip_winproc_safety, embed_sem, ui_message,
                 embed_closed, stolen>>

-----------------------------------------------------------------------------
(***************************************************************************)
(* The watcher thread.                                                     *)
(***************************************************************************)

\* GetQueuedCompletionStatusEx, and uv_insert_pending_req for what it dequeued.
WatcherPolls ==
  /\ watcher = "start"
  /\ ~embed_closed
  /\ watcher' = "post"
  /\ UNCHANGED <<main, message, uv_trip_winproc_safety, embed_sem, uv_messages,
                 ui_message, embed_closed, stolen>>

\* The broadcast and the message to the thread: one of them arrives.
WatcherPost ==
  /\ watcher = "post"
  /\ watcher' = "trip"
  /\ uv_messages' = Posted(uv_messages)
  /\ UNCHANGED <<main, message, uv_trip_winproc_safety, embed_sem, ui_message,
                 embed_closed, stolen>>

WatcherTrip ==
  /\ watcher = "trip"
  /\ watcher' = "wait"
  /\ uv_trip_winproc_safety' = TRUE
  /\ UNCHANGED <<main, message, embed_sem, uv_messages, ui_message, embed_closed, stolen>>

WatcherWait ==
  /\ watcher = "wait"
  /\ embed_sem > 0
  /\ watcher' = "start"
  /\ embed_sem' = embed_sem - 1
  /\ UNCHANGED <<main, message, uv_trip_winproc_safety, uv_messages, ui_message,
                 embed_closed, stolen>>

WatcherExits ==
  /\ watcher = "start"
  /\ embed_closed
  /\ watcher' = "exited"
  /\ UNCHANGED <<main, message, uv_trip_winproc_safety, embed_sem, uv_messages,
                 ui_message, embed_closed, stolen>>

-----------------------------------------------------------------------------
(***************************************************************************)
(* The main thread in win_msg_loop.                                        *)
(***************************************************************************)

GetUvMessage ==
  /\ main = "get"
  /\ uv_messages > 0
  /\ uv_messages' = uv_messages - 1
  /\ message' = "uv"
  /\ main' = "run"
  /\ UNCHANGED <<watcher, uv_trip_winproc_safety, embed_sem, ui_message, embed_closed,
                 stolen>>

GetUiMessage ==
  /\ main = "get"
  /\ ui_message
  /\ ui_message' = FALSE
  /\ message' = "ui"
  /\ main' = IF uv_trip_winproc_safety THEN "run" ELSE "dispatch"
  /\ UNCHANGED <<watcher, uv_trip_winproc_safety, embed_sem, uv_messages, embed_closed,
                 stolen>>

\* uv_run_nowait: uv_run, EmitBeforeExit, and the semaphore.
RunPosts ==
  /\ main = "run"
  /\ embed_sem < SemLimit
  /\ main' = "untrip"
  /\ embed_sem' = embed_sem + 1
  /\ UNCHANGED <<watcher, message, uv_trip_winproc_safety, uv_messages, ui_message,
                 embed_closed, stolen>>

Untrip ==
  /\ main = "untrip"
  /\ main' = "dispatch"
  /\ uv_trip_winproc_safety' = FALSE
  /\ UNCHANGED <<watcher, message, embed_sem, uv_messages, ui_message, embed_closed,
                 stolen>>

\* DispatchMessage returns at once, or a handler runs a loop of its own.
Dispatch ==
  /\ main = "dispatch"
  /\ main' \in {"get"} \cup (IF message = "ui" THEN Loops ELSE {})
  /\ message' = "none"
  /\ UNCHANGED <<watcher, uv_trip_winproc_safety, embed_sem, uv_messages, ui_message,
                 embed_closed, stolen>>

\* WM_QUIT: node_terminate.
Quit ==
  /\ main = "get"
  /\ main' = "gone"
  /\ embed_closed' = TRUE
  /\ UNCHANGED <<watcher, message, uv_trip_winproc_safety, embed_sem, uv_messages,
                 ui_message, stolen>>

-----------------------------------------------------------------------------
(***************************************************************************)
(* The main thread in another loop.                                        *)
(***************************************************************************)

\* HandleMessageLoop, which WPF calls for each message of a loop of its own.
WpfGetsUv ==
  /\ main = "wpf"
  /\ uv_messages > 0
  /\ embed_sem < SemLimit
  /\ uv_messages' = uv_messages - 1
  /\ embed_sem' = embed_sem + 1
  /\ UNCHANGED <<watcher, main, message, uv_trip_winproc_safety, ui_message, embed_closed,
                 stolen>>

\* A rogue handler (such as winforms) collects the message.
ForeignGetsUv ==
  /\ main = "foreign"
  /\ uv_messages > 0
  /\ uv_messages' = uv_messages - 1
  /\ stolen' = TRUE
  /\ UNCHANGED <<watcher, main, message, uv_trip_winproc_safety, embed_sem, ui_message,
                 embed_closed>>

\* Neither looks at the flag when it handles other messages.
OtherLoopGetsUi ==
  /\ main \in {"wpf", "foreign"}
  /\ ui_message
  /\ ui_message' = FALSE
  /\ UNCHANGED <<watcher, main, message, uv_trip_winproc_safety, embed_sem, uv_messages,
                 embed_closed, stolen>>

OtherLoopEnds ==
  /\ main \in {"wpf", "foreign"}
  /\ main' = "get"
  /\ UNCHANGED <<watcher, message, uv_trip_winproc_safety, embed_sem, uv_messages,
                 ui_message, embed_closed, stolen>>

-----------------------------------------------------------------------------

\* The user does something.
UiMessageArrives ==
  /\ ~ui_message
  /\ main # "gone"
  /\ ui_message' = TRUE
  /\ UNCHANGED <<watcher, main, message, uv_trip_winproc_safety, embed_sem, uv_messages,
                 embed_closed, stolen>>

Watcher == WatcherPolls \/ WatcherPost \/ WatcherTrip \/ WatcherWait \/ WatcherExits

MessageLoop == GetUvMessage \/ GetUiMessage \/ RunPosts \/ Untrip \/ Dispatch

OtherLoop == WpfGetsUv \/ ForeignGetsUv \/ OtherLoopGetsUi \/ OtherLoopEnds

WinNext == Watcher \/ MessageLoop \/ Quit \/ OtherLoop \/ UiMessageArrives

WinSpec == WinInit /\ [][WinNext]_winVars

\* Both threads are scheduled, the message queue is served in order, so that
\* other messages do not keep a WM_APP+1 waiting for ever, and the user closes
\* dialogs.  Nothing obliges the user to act or to quit.
WinFairness ==
  /\ WF_winVars(Watcher)
  /\ WF_winVars(MessageLoop)
  /\ SF_winVars(GetUvMessage)
  /\ WF_winVars(OtherLoopEnds)

WinFairSpec == WinSpec /\ WinFairness

-----------------------------------------------------------------------------
(***************************************************************************)
(* Properties                                                              *)
(***************************************************************************)

WinTypeOK ==
  /\ watcher \in {"start", "post", "trip", "wait", "exited"}
  /\ main \in {"get", "run", "untrip", "dispatch", "gone"} \cup Loops
  /\ message \in {"none", "uv", "ui"}
  /\ uv_trip_winproc_safety \in BOOLEAN
  /\ embed_sem \in 0 .. SemLimit
  /\ uv_messages \in 0 .. QueueLimit
  /\ ui_message \in BOOLEAN
  /\ embed_closed \in BOOLEAN
  /\ stolen \in BOOLEAN

\* A watcher that waits is owed a turn that win_msg_loop cannot miss: it is in
\* the queue, running, or already posted, whatever became of the flag.  Only a
\* handler that takes a message off the queue breaks this.
TurnOwed ==
  watcher = "wait" /\ ~stolen => uv_messages > 0 \/ main = "run" \/ embed_sem > 0

\* The loop keeps turning until the application quits, or a message is stolen.
LoopTurns == []<>(watcher = "start" \/ embed_closed \/ stolen)
=============================================================================
