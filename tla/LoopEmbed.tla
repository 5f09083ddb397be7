------------------------------ MODULE LoopEmbed ------------------------------
(***************************************************************************)
(* The libuv loop inside the native application loop on OS X and GTK       *)
(* (modules/Runtime/Main_mac.mm, Main_gtk.cc).                             *)
(*                                                                         *)
(* A watcher thread (uv_event) polls the loop's backend descriptor, queues *)
(* a block for the main thread and waits on embed_sem; the block runs one  *)
(* turn of the loop without blocking and posts the semaphore.  Between     *)
(* blocks the main thread runs JavaScript for user interface events, which *)
(* may change the loop while the watcher polls.                            *)
(*                                                                         *)
(* The loop is abstracted to what the watcher sees of it: whether it is    *)
(* alive, the timeout it asks for, and whether its descriptor is readable. *)
(* Time is not modelled: a poll may return at any moment, since the        *)
(* timeout it is given is always finite.                                   *)
(***************************************************************************)
EXTENDS Integers

CONSTANTS
  Timeouts,   \* what uv_backend_timeout may answer for a loop that is alive
  Pokes       \* OS X: DispatchToV8 makes the descriptor readable after a callback

ASSUME TimeoutsAssumption == \A t \in Timeouts : t \in Int /\ t >= -1
ASSUME PokesAssumption == Pokes \in BOOLEAN

VARIABLES
  watcher,        \* the next statement of the watcher thread in uv_event
  main,           \* what the main thread is doing
  timeout,        \* the timeout of the current poll, in milliseconds
  uv_trip_timer_safety,
  embed_sem,      \* the value of the semaphore
  blocks,         \* blocks queued for the main thread
  embed_closed,
  alive,          \* uv_loop_alive
  due,            \* the timeout the loop asks for while it is alive
  readable,       \* an event of the loop is ready on its descriptor
  poked,          \* a one-shot timer of DispatchToV8 is ready on it
  idle_polls      \* history: polls with timeout 0 of a dead loop in a row

pollVars == <<watcher, timeout, uv_trip_timer_safety>>
handoffVars == <<embed_sem, blocks, embed_closed>>
loopVars == <<alive, due, readable>>
embedVars == <<watcher, main, timeout, uv_trip_timer_safety, embed_sem, blocks,
               embed_closed, alive, due, readable, poked, idle_polls>>

\* uv_backend_timeout: a loop with nothing active asks not to wait.
BackendTimeout == IF alive THEN due ELSE 0

\* The timeout uv_event polls with.  Zero is stretched once after a turn
\* that found the loop dead.
PollTimeout(t, trip) ==
  CASE t < 0          -> 16
    [] t > 250        -> 250
    [] t = 0 /\ trip  -> 150
    [] OTHER          -> t

\* The loop after some JavaScript: it may have gained or lost handles and timers.
LoopChanges ==
  /\ alive' \in BOOLEAN
  /\ due' \in Timeouts

EmbedInit ==
  /\ watcher = "start"
  /\ main = "idle"
  /\ timeout = 0
  /\ uv_trip_timer_safety = FALSE
  /\ embed_sem = 0
  /\ blocks = 0
  /\ embed_closed = FALSE
  /\ alive \in BOOLEAN
  /\ due \in Timeouts
  /\ readable = FALSE
  /\ poked = FALSE
  /\ idle_polls = 0

-----------------------------------------------------------------------------
(***************************************************************************)
(* Faulty variants of the steps below, none of them part of Next.          *)
(***************************************************************************)

\* The dead loop is not remembered.
PumpEmitUntripped ==
  /\ main = "emit"
  /\ main' = "post"
  /\ LoopChanges
  /\ UNCHANGED <<pollVars, handoffVars, readable, poked, idle_polls>>

\* A turn that found the loop dead does not post the semaphore.
PumpPostLost ==
  /\ main = "post"
  /\ main' = "idle"
  /\ embed_sem' = IF uv_trip_timer_safety THEN embed_sem ELSE embed_sem + 1
  /\ UNCHANGED <<pollVars, blocks, embed_closed, loopVars, poked, idle_polls>>

\* The callback of a user interface event does not poke the descriptor.
UiEventEndsUnpoked ==
  /\ main = "ui"
  /\ main' = "idle"
  /\ LoopChanges
  /\ UNCHANGED <<pollVars, handoffVars, readable, poked, idle_polls>>

-----------------------------------------------------------------------------
(***************************************************************************)
(* The watcher thread.                                                     *)
(***************************************************************************)

\* The timeout is read without a lock: while JavaScript runs on the main
\* thread the read may return any timeout the loop could have.
WatcherStart ==
  /\ watcher = "start"
  /\ ~embed_closed
  /\ watcher' = "poll"
  /\ \E t \in IF main = "ui" THEN Timeouts \cup {0} ELSE {BackendTimeout} :
       /\ timeout' = PollTimeout(t, uv_trip_timer_safety)
       /\ uv_trip_timer_safety' = (uv_trip_timer_safety /\ t # 0)
  /\ idle_polls' = IF alive THEN 0
                   ELSE IF timeout' = 0 /\ main # "ui" THEN idle_polls + 1 ELSE idle_polls
  /\ UNCHANGED <<main, handoffVars, loopVars, poked>>

\* kevent or epoll_wait returns: an event, the poke (a one-shot timer, which
\* the poll takes off the queue), or the timeout.
WatcherPollReturns ==
  /\ watcher = "poll"
  /\ watcher' = "dispatch"
  /\ poked' = FALSE
  /\ UNCHANGED <<main, timeout, uv_trip_timer_safety, handoffVars, loopVars, idle_polls>>

\* dispatch_async to the main queue, or g_idle_add.
WatcherDispatch ==
  /\ watcher = "dispatch"
  /\ watcher' = "wait"
  /\ blocks' = blocks + 1
  /\ UNCHANGED <<main, timeout, uv_trip_timer_safety, embed_sem, embed_closed,
                 loopVars, poked, idle_polls>>

WatcherWait ==
  /\ watcher = "wait"
  /\ embed_sem > 0
  /\ watcher' = "start"
  /\ embed_sem' = embed_sem - 1
  /\ UNCHANGED <<main, timeout, uv_trip_timer_safety, blocks, embed_closed,
                 loopVars, poked, idle_polls>>

WatcherExits ==
  /\ watcher = "start"
  /\ embed_closed
  /\ watcher' = "exited"
  /\ UNCHANGED <<main, timeout, uv_trip_timer_safety, handoffVars, loopVars, poked, idle_polls>>

-----------------------------------------------------------------------------
(***************************************************************************)
(* The main thread.                                                        *)
(***************************************************************************)

\* The native loop takes a block and uv_run(UV_RUN_NOWAIT) begins.
PumpStarts ==
  /\ main = "idle"
  /\ blocks > 0
  /\ main' = "pump"
  /\ blocks' = blocks - 1
  /\ UNCHANGED <<pollVars, embed_sem, embed_closed, loopVars, poked, idle_polls>>

\* uv_run has handled what was ready, the poke with it.
PumpRuns ==
  /\ main = "pump"
  /\ LoopChanges
  /\ readable' = FALSE
  /\ poked' = FALSE
  /\ main' = IF alive' THEN "post" ELSE "emit"
  /\ idle_polls' = IF alive' THEN 0 ELSE idle_polls
  /\ UNCHANGED <<pollVars, handoffVars>>

\* EmitBeforeExit: its listeners may bring the loop back to life.
PumpEmit ==
  /\ main = "emit"
  /\ main' = "post"
  /\ LoopChanges
  /\ uv_trip_timer_safety' = TRUE
  /\ UNCHANGED <<watcher, timeout, handoffVars, readable, poked, idle_polls>>

PumpPost ==
  /\ main = "post"
  /\ main' = "idle"
  /\ embed_sem' = embed_sem + 1
  /\ UNCHANGED <<pollVars, blocks, embed_closed, loopVars, poked, idle_polls>>

\* A native event calls JavaScript on the main thread, outside the loop ...
UiEventBegins ==
  /\ main = "idle"
  /\ main' = "ui"
  /\ UNCHANGED <<pollVars, handoffVars, loopVars, poked, idle_polls>>

\* ... and when it returns DispatchToV8 interrupts the watcher's poll, on OS X.
UiEventEnds ==
  /\ main = "ui"
  /\ main' = "idle"
  /\ LoopChanges
  /\ poked' = (Pokes \/ poked)
  /\ UNCHANGED <<pollVars, handoffVars, readable, idle_polls>>

\* applicationWillTerminate, deactivate: a last turn if the loop is alive,
\* with no regard to the watcher.
Terminates ==
  /\ main \in {"idle", "ui"}
  /\ embed_closed' = TRUE
  /\ LoopChanges
  /\ main' = IF alive' THEN "last_turn" ELSE "gone"
  /\ UNCHANGED <<pollVars, embed_sem, blocks, readable, poked, idle_polls>>

LastTurnEnds ==
  /\ main = "last_turn"
  /\ main' = "gone"
  /\ readable' = FALSE
  /\ UNCHANGED <<pollVars, handoffVars, alive, due, poked, idle_polls>>

-----------------------------------------------------------------------------

\* Something the loop waits for happens.
EventReady ==
  /\ alive
  /\ ~readable
  /\ readable' = TRUE
  /\ UNCHANGED <<pollVars, main, handoffVars, alive, due, poked, idle_polls>>

Watcher ==
  WatcherStart \/ WatcherPollReturns \/ WatcherDispatch \/ WatcherWait \/ WatcherExits

Pump == PumpStarts \/ PumpRuns \/ PumpEmit \/ PumpPost

EmbedNext ==
  \/ Watcher
  \/ Pump
  \/ UiEventBegins \/ UiEventEnds
  \/ Terminates \/ LastTurnEnds
  \/ EventReady

EmbedSpec == EmbedInit /\ [][EmbedNext]_embedVars

\* Both threads are scheduled, callbacks return, and the native loop serves
\* its queue of blocks however many other events it has.  Nothing obliges the
\* application to terminate.
EmbedFairness ==
  /\ WF_embedVars(Watcher)
  /\ SF_embedVars(PumpStarts)
  /\ WF_embedVars(PumpRuns \/ PumpEmit \/ PumpPost)
  /\ WF_embedVars(UiEventEnds)

EmbedFairSpec == EmbedSpec /\ EmbedFairness

-----------------------------------------------------------------------------
(***************************************************************************)
(* Properties                                                              *)
(***************************************************************************)

\* The types, and the poll is never longer than a quarter of a second: the
\* clamps of uv_event bound how long a stale timeout can delay the loop.
EmbedTypeOK ==
  /\ watcher \in {"start", "poll", "dispatch", "wait", "exited"}
  /\ main \in {"idle", "pump", "emit", "post", "ui", "last_turn", "gone"}
  /\ timeout \in 0 .. 250
  /\ uv_trip_timer_safety \in BOOLEAN
  /\ embed_sem \in 0 .. 1
  /\ blocks \in 0 .. 1
  /\ embed_closed \in BOOLEAN
  /\ alive \in BOOLEAN
  /\ due \in Timeouts
  /\ readable \in BOOLEAN
  /\ poked \in BOOLEAN
  /\ idle_polls \in Nat

\* "Wait for the main loop to deal with events": the watcher stays off the
\* loop while the main thread runs the turn of a block it has dispatched.  The
\* turn of applicationWillTerminate (last_turn) is not one of these: the watcher
\* may still be in a poll it began before.
TurnsExclusive ==
  main \in {"pump", "emit"} => watcher = "wait"

\* The watcher, the queued block, the running turn and the semaphore pass one
\* token around: no turn is run twice and none is owed twice.
OneToken ==
  LET watching == IF watcher \in {"start", "poll", "dispatch", "exited"} THEN 1 ELSE 0
      turning == IF main \in {"pump", "emit", "post"} THEN 1 ELSE 0
  IN  watching + blocks + turning + embed_sem = 1

\* uv_trip_timer_safety keeps the watcher from spinning: a dead loop is polled
\* without a wait at most once until it comes back to life.
NoBusySpin == idle_polls <= 1

\* Work that JavaScript of a user interface event makes due interrupts a poll
\* that was started for a longer timeout, except for the stretched poll of a
\* loop that was dead.  OS X only.
DueWorkWakesWatcher ==
  watcher = "poll" /\ main = "idle" /\ alive /\ due = 0 /\ timeout \notin {0, 150} => poked

\* The loop keeps turning until the application terminates, and what is ready
\* on its descriptor is handled.
LoopServes ==
  /\ []<>(main = "pump" \/ embed_closed)
  /\ readable ~> (~readable \/ embed_closed)
=============================================================================
