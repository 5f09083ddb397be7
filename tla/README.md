# tint2 in TLA+

Tint runs JavaScript programs as native desktop applications. It joins a libuv
event loop (through node) to the event loop of the desktop, calls native code
and lets native code call back, describes C structures to JavaScript, and wraps
windows and controls in objects with events and layout properties.

This directory holds TLA+ models of the parts of Tint whose correctness depends
on an order of events, the TLC configurations that check them, and proofs of
their main invariants that hold for every value of the constants.

    tlc -workers 2 -config FFICallbacks.cfg MCFFICallbacks.tla
    tlapm MainThreadProofs.tla

Paths in this file are relative to `src/`; line numbers are those of the
commit that is modelled. `PROJECT.json` maps every definition to its lines.

Contents: 1 inventory, 2 modules, 3 runs, 4 fairness, 5 proofs, 6 limits,
7 plan.

## 1. Inventory

### Threads and how the parts meet

    native threads          main thread                       watcher thread
    --------------          -----------                       --------------
    FFI callbacks  --queue--> libuv loop <--turn/semaphore--> epoll, kqueue, IOCP
    CLR events     --slots--> libuv loop
                              native message loop (Cocoa, GTK, Win32, WPF)
                              JavaScript: bridge, controls, layout, application

All JavaScript runs on the main thread. Nothing there is preempted, so hazards
among the JavaScript parts are of nesting (a listener that adds, removes, fires
or moves things while the caller is half way) and of long sequences of calls.
Real concurrency is found where native threads and the watcher meet the main
thread.

| Component | State | Operations | What makes it correct |
|---|---|---|---|
| FFI callbacks, `modules/Bridge/ffi.cc` | `g_queue`, its mutex, `g_async` with its reference, a mutex, a condition and data per invocation | native call, drain of the queue, done signal | no use after free, no lost wakeup or signal, each call served once before it returns, the loop alive while a call is in flight |
| Event loop embedding, OS X and GTK, `modules/Runtime/Main_mac.mm`, `Main_gtk.cc` | watcher, `embed_sem`, blocks on the main queue, `uv_trip_timer_safety`, `embed_closed` | poll, post, turn, poke, terminate | the loop runs in one place at a time, keeps turning, sees new timers in time, does not spin |
| Event loop embedding, Windows, `modules/Runtime/Main_win.cc` | watcher, message queue, `uv_trip_winproc_safety`, `embed_sem` | poll, post, message, nested loops, quit | a waiting watcher is always owed a turn |
| CLR events, `modules/Bridge/CLR_win.cpp` | the fields of `CLREventHandler`, a semaphore, an async handle | raise, callback, handler returns | each raise reaches its handler with its own arguments and returns |
| C structures, `modules/Bridge/struct.js` | fields, offsets, size and alignment per type; instances and their bytes | define a property, instantiate, get, set | the layout is that of the C compiler; fields do not overlap |
| Events of controls, `modules/Utilities/Utilities_base.js` | the array of listeners, native handlers | add, remove, fire, native event | who listens is called, once per act |
| Layout and containment, OS X, `Utilities_base.js`, `modules/Control_mac.js`, `Container_mac.js` | values, listeners, `private.constraints`, native constraints, parent, children | set, append, remove, move | an axis is never over-constrained; constraints in force agree with the values |
| Layout and containment, Windows and GTK | the same, in `AutoLayoutPanel` | the same | the same |
| Foreign calls, `modules/Bridge/foreign_function.js`, `_foreign_function.js`, `cif.js`, `ffi.cc` | call interfaces, the Buffers of a call, requests in the thread pool | call, async call | arguments outlive the call and are where C looks for them |
| libffi on x86-64, `libraries/libffi/src/prep_cif.c`, `x86/ffi64.c` | none between calls | lay out a structure, classify it, place arguments, find them in a closure | the layout is that of `struct.js`; caller and closure agree |
| Memory access, `modules/Bridge/ref.cc`, `ref.js` | Buffers, what is attached to them, weak handles | allocate, view, read and write pointers | nothing dangles |
| pthreads on Windows, `libraries/pthreads-win32/` | queue locks, once controls, barriers, mutexes, semaphores, condition variables | lock, wait, signal, initialise, destroy, give up, die | one holder, no wakeup lost, nobody wakes who was not meant to, destruction is quiet |
| Objective-C bridge, `modules/Bridge/_core.js`, `_class.js`, `_id.js`, `import.js`, `types.js` | caches of classes, frameworks, structures | import, register, send | caches agree with the runtime |
| Windows and GTK bridges | tables of native functions | none that change state | - |
| Application, `modules/Application/` | pending open events, hot keys, open windows | open, register, exit | each opening is reported once; a hot key is on or off as asked |
| Application schema, `modules/AppSchema/` | a local server or protocol handler | request | a request is answered once |
| Windows, `modules/Window/`, `Panel/` | state, menu, toolbar, the count of windows | show, close, full screen | exit when the last window closes |
| Menus, toolbars, tables, split and scroll views | lists kept in step with native ones | append, remove, move | both lists agree |
| Dialogs, popovers, notifications | open or answered | open, answer | one answer |
| Input controls, fonts, colours, screens, system, web view | none of their own | pass-through | - |
| Compiler and build, vendored libraries | none at run time | - | - |

### What is hard here

* **Hand-shakes across threads.** A native thread sleeps inside a call until
  JavaScript has answered, on primitives that coalesce (`uv_async_send`), do not
  count (`uv_ref`), may be signalled too early (`uv_cond_signal`) or may wake
  for nothing (`uv_cond_wait`).
* **Two loops on one thread.** The libuv loop runs only when the native loop lets
  it. Its timeouts are read on another thread while a user interface event may be
  changing them; the message that asks for a turn may be taken by a nested loop.
* **Nesting.** `fireEvent` walks the live array of listeners, the listeners of
  `parent-attached` run property setters, and an exception in a listener ends
  the process.
* **Lock-free protocols.** The pthreads of Windows are built from interlocked
  instructions, events and semaphores: a successor that is served before it has
  finished linking itself, a newcomer that overwrites the mark of a waiter, a
  waiter that times out while the signal meant for it is on its way.
* **Two memory managers.** C sees addresses only; the collector sees references
  only. Every pointer stored in memory must be matched by a reference that
  JavaScript attaches, also while another thread reads the memory.
* **Sequences.** Set, clear, append, remove and append again: state kept in
  JavaScript (`private.constraints`) outlives the native object it describes.
* **Numbers.** Padding and alignment for every order of field types, computed
  twice by different code, and the registers that each eightbyte goes to.

Every hazard, with its line and the properties that cover it, is in
`PROJECT.json` under `hazards`; one without a property says why.

## 2. The modules

| Module | Models | Proved in |
|---|---|---|
| `FFICallbacks` | `Invoke`, `WaitForExecution`, `WatcherCallback`, `SignalDoneExecuting` | `MainThreadProofs` |
| `CallbackCall` | what a native caller is promised (abstract) | refinement in `MainThreadProofs` |
| `LoopEmbed` | `uv_event`, the queued block, the safety timer and pokes of `Main_mac.mm`; `Main_gtk.cc` with `Pokes = FALSE` | `MainThreadProofs` |
| `LoopEmbedWin` | `uv_event`, `win_msg_loop`, `HandleMessageLoop` | `WindowsProofs` |
| `CLREvents` | `CLREventHandler` and the semaphore it waits on | `WindowsProofs` |
| `StructType` | `defineProperty`, `recalc`, constructor, `get`, `set` of `struct.js` | `StructTypeProofs` |
| `StructCall`, over `StructType` | `initialize_aggregate`, `classify_argument`, `examine_argument`, `ffi_call`, `ffi_closure_unix64_inner` of libffi | `StructTypeProofs` |
| `BridgeMemory` | Buffers of `ref.js`, `ref.cc`, calls of `_foreign_function.js` and `ffi.cc`, the collector | `BridgeMemoryProofs` |
| `EventTarget` | `addEventListener`, `removeEventListener`, `fireEvent`, `lazyLoadEventListener` | `ControlProofs` |
| `LayoutProperty` | `createLayoutProperty`, `addLayoutConstraint`, `changeLayoutConstraint`, `removeLayoutConstraint`, `appendChild`, `removeChild`, `moveAbove`, `moveBelow` | `ControlProofs` |
| `MCSLock` | `ptw32_MCS_lock.c` | `PthreadBarrierProofs` |
| `PthreadBarrier`, over `MCSLock` | `pthread_once.c`, `pthread_barrier_*.c` | `PthreadBarrierProofs` |
| `PthreadMutex` | `pthread_mutex_*.c`, `ptw32_mutex_check_need_init.c` | `PthreadMutexProofs` |
| `PthreadCond` | `pthread_cond_*.c`, `sem_*.c` | `PthreadCondProofs` |

Each `MC...` module gives the constants small values. Every module also defines,
next to its actions, a few variants that model a plausible slip in the same code
(a dropped check, a swapped order). They are not part of `Next`. `PROJECT.json`
lists under `mutants` which action each stands in for, and which property then
fails: a property that no slip can break would say nothing.

### FFICallbacks

`pc[t]` is the place of native thread `t` in `Invoke`, one value per step
another thread could come between: test and set of the reference flag, `new`,
lock, push, send, wait, unref, delete. `inv[t]` tells whether its
`ThreadedCallbackInvokation` exists. `m_mutex` and `m_cond` are the mutex's owner and
the condition's sleeper. `g_queue`, `g_queue_mutex` and `async_pending` are the
shared queue and the coalescing handle. `main_pc` and `current` are
`WatcherCallback`'s place and the invocation it works on. `served` and `unasked` are
history variables: JavaScript has answered; the wait returned without a signal.

`uv_ref` and `uv_unref` are a test and a set of a flag plus a count of active
handles, unsynchronised; two threads may both pass the test, so `g_async_active`
may drift by `MaxSkew` from the flag. `HeldOpen` says that the handle keeps the
loop alive. `ThreadedCallbackInvokation` creates its mutex
locked, which is what makes a signal wait for the sleeper.

`WaitForExecution` is one `uv_cond_wait` with no condition tested around it
(`ffi.cc:47`), and condition variables may wake without a signal. `Restless` is the
set of threads to which that happens. `WakeUpUnasked` is that step: `Invoke` goes on,
deletes its invocation and returns, with the pointer to it still in `g_queue` or
`current`. Each of the four steps of `WatcherCallback` that use the popped
invocation asks whether it is there; if not, `TouchDeleted` leads to `main_pc =
"undefined"`, and no step follows. The model does not say what memory a
later `new` gets: while a deleted invocation is still pointed to, its thread does
not call again (`Forgotten`).

`CallbackCall` is the promise: a thread calls, JavaScript starts, finishes, and
then the thread returns, one JavaScript call at a time. `CallState` and
`CallRunning` are the mapping; the reference counting, the locks, and the push
to the queue map to stutters. A wait that returns without a signal maps to
`Abandon`: that call has at most one run and may return without it, and all others
keep the promise.

### LoopEmbed and LoopEmbedWin

In both, the watcher blocks in the kernel for as long as libuv says, hands one
turn to the main thread, and waits on `embed_sem` until it has been run. The
variables carry the names of the code.

In `LoopEmbed` the libuv loop is external and reduced to what the embedding can
see: `alive`, `due` (the timeout of the nearest timer) and `readable` (a
descriptor has an event). `LoopChanges` lets a turn, or a user interface event,
change the first two at will. The module models the clamps of the timeout (`PollTimeout`: 250 ms at most, and
a dead loop tripped by `uv_trip_timer_safety`), the block that the main queue runs in
order, the pokes that follow a user interface event, and termination with its
last turn.

`LoopEmbedWin` has no timeouts, since the watcher's wait is always followed by a
message whatever ended it. It models `PostThreadMessage` with a bounded queue, the flag
`uv_trip_winproc_safety` that makes the next message run the loop, the turn in
`win_msg_loop`, and nested loops: WPF's, which reach `HandleMessageLoop`, and
foreign ones, which may collect `WM_APP+1` and drop it. `stolen` records that
one did.

### CLREvents

`sender` and `eventargs` are the fields of the shared `CLREventHandler`, `sent` is
its async handle, `sem` its semaphore. `depth` counts handlers nested on the main
thread. `disturbed` is a history variable: two raises overlapped. The code has no
protection against an overlap, so `ReturnsDelivered` and
`NothingLeftOver` are stated for executions without one, and the model explores
both.

### StructType

`recalc` is a loop with a state between its iterations (`loop`, `struct`, `i`),
so every partial layout is a state of the model. `offset`, `size` and `alignment`
are the attributes of the code. An instance is a map from bytes to the field
written last there (`bytes`); `written` remembers what should be there.
`outgrown` marks types whose nested type has grown since they were laid out,
`misplaced` an instance into which a structure was copied to an offset twice
(`struct.js:74`). The alignment of base types and their sizes are constants.

### StructCall

Two programs lay a structure out: `recalc` in JavaScript when it is filled, and
libffi in C when it is passed. `StructCall` has no state of its own; its
operators are evaluated on the structures that `StructType` reaches.
`FlatType` and `FFIType` are the `ffi_type` that libffi computes, without and with a
level of nesting, `Classify` the register class of each eightbyte. `CallPlaces` follows
`ffi_call` through the registers and the stack, `ClosurePlaces` follows the closure,
which repeats the allocation with a shortcut for single values, and `MachdepBytes` is the
stack measured when the call is prepared. Arguments are abstracted to their eightbytes. Operators that nest take the operator of the inner type as a
parameter, so that no definition is recursive. Each loop over elements or arguments is a recursive function
that applies one operator per element (`AddElement`, `AddClasses`, `MeasureArgument`, `PutArgument`,
`FindArgument`), which the proofs reason about. `CallAssumption` says what x86-64 promises
of base types: 1, 2, 4 or 8 bytes, aligned to their size, addresses of 8 bytes.

### BridgeMemory

`live` are the objects the collector has not freed and `held` those the program
has in variables; `refs` are the references that JavaScript attaches (`_refs`, the
parent of a slice). `memory[b]` is the allocation that Buffer `b` is a view of,
`content[m]` the one pointer stored in allocation `m`. `Collect` frees any set of objects that is
not reachable and turns their addresses into `Freed`, between any two steps, and
also while a call is on the thread pool. `call` is the call in flight; what keeps
its Buffers is the callback of JavaScript, `Roots`.

`borrowed` and `through` are history variables and say for what the code makes no promise:
Buffers made of an address that C or `readPointer` gave, and pointers whose writer is
gone or that were copied with the bytes of a structure. `Closed` sets of objects
(those that hold all their references) stand for reachability: an object is reachable
when every closed set around the roots has it.

### EventTarget

A stack `fires` of walks, each with its position, the listeners present at its
start and those called; `listeners` is the live array; `native` counts installed
handlers and `calls_due` those that still have to fire for the last act of the
user. Whatever a listener may do is `Script`: add, remove, fire.

### LayoutProperty

One control, three containers of which one does not do layout, and the properties
`left`, `right` and `width`, each of which is excluded by the other two.
`user[p]` is the value, `hooked` says that the property listens to
`parent-attached` and `parent-dettached`, `slot[p]` holds `private.constraints[p]`,
how many native constraints are in force for it, and `astray`, a history: the
constraint has the second item of an earlier value, since `changeLayoutConstraint`
asks whether the one in force has a second item but not which
(`Control_mac.js:699`). An append runs, in order,
the superview's removal, the listeners, and for each hooked property its setter; the
setter throws on its exclusion and the process exits (`exited`).
`disciplined` and `reattached` are history variables: the script appended the
control only while it had no parent and removed it only from its parent, and
the control has been appended while it still held constraints.

### MCSLock and PthreadBarrier

`tail`, `next`, `readyFlag` and `nextFlag` are the words of the queue lock and its nodes; a
flag is clear, set, or holds an event, as in `ptw32_mcs_flag_set` and
`ptw32_mcs_flag_wait`. A node is a local variable of a thread and is used again for
its next acquisition, which is what makes a late write to it dangerous
(`strayed`); a null pointer that is dereferenced sets `crashed`. A barrier
transfers its lock from the node of one thread to a proxy node, and whoever leaves
last releases it. `generation[t]` is the meeting that `t` arrived for.

### PthreadMutex

One module for the three kinds, robust or not, statically initialised or not: `Init`
chooses. Each interlocked instruction, wait and `SetEvent` is a step, and `pc[t]` is
named after what comes next. `held`, `told` and `dirty` are history variables: what the
program may believe of the mutex and of the data that it protects.

### PthreadCond

`value[s]` and `kernel[s]` are the two halves of each semaphore. `blocked`,
`toUnblock` and `gone` are the counters of `pthread_cond_t_`. A wait, a signal and a
cleanup are split where they may block and where another thread may come between;
`unblockLock` is the holder of `mtxUnblockLock` where a signal that closes the gate, or a
cleanup that folds the waiters gone, keeps it while it waits at the gate.

A waiter may be cancelled in the queue and at the gate (`CancelAtGate`), there before
`sem_wait` or asleep in it. `GateBack` is `ptw32_sem_wait_cleanup`: it takes a post
that came meanwhile, or counts the thread out. It asks first whether the semaphore was
destroyed, and reads the count for that: where the count is 0 it does nothing, and a
wakeup stays behind that the next sleeper uses. Where it takes a post, the thread
that the post was for sleeps on, and nobody is left to open the gate: `GateLost`.

## 3. The runs

| Run | Instance | Shows |
|---|---|---|
| `ffi` | three threads, one of them restless, skew 1 | `NoUseAfterFree`, `SignalFindsWaiter`, `NoLostWakeup`; `QueuedCallsReturn`; `CallSpec`: `FFICallbacks` implements `CallbackCall` |
| `ffi_hold_open` | two threads, none restless | **violated:** `HoldsLoopOpen`, the comment at `ffi.cc:193` |
| `loop_mac` | timeouts -1, 0, 10, 251, pokes | `OneToken`, `NoBusySpin`, `DueWorkWakesWatcher`; `LoopServes` |
| `loop_win` | queue and semaphore of 4, nested WPF and foreign loops | `TurnOwed`; `LoopTurns` |
| `clr_events` | three threads, one without sender, depth 2 | `ReturnsDelivered`, `NothingLeftOver`; `RaisersReturn` |
| `struct` | two structures of up to three fields, a char, a float, a pointer; two registers of each kind | `ExactlyAsC`, `ReadsBack`; `LayoutsAgree`, `WordsAreClassified`, `ClosureFindsArguments`, `ArgumentsHaveRoom` |
| `events` | two interchangeable listeners, four places, four native handlers, depth 3 | `FiresThoseBefore`, `ListenersAreHeard` |
| `layout` | three containers, five values | `TreesAgree`, `OneInForce`, `InForceAgrees`, `FirstAttachApplies` |
| `barrier` | three threads, two at a time, four arrivals | `MutualExclusion`, `InitialisedOnce`, `MeetingsAreWhole`; `EveryoneGetsThrough` |
| `mutex` | three threads, four calls, depth 2, one death, every kind | `MutualExclusion`, `UnwarnedIsClean`; `EveryCallReturns` |
| `cond` | three threads, three waits, three signals, two that give up or are cancelled | `WaitersAccounted`, `SignalsAreWakeups`, `DestroyedIsQuiet`; `EveryoneSignalledLeaves` |
| `memory` | four interchangeable objects, three references | `ViewsKeepTheirMemory`, `AttachedPointersLead`, `CallFindsItsStorage` |

### Where code and comments disagree

`ffi_hold_open`, at `ffi.cc:194`: `uv_ref` sets a flag. With two native threads in
`Invoke` the first `uv_unref` drops the only reference, and the loop may begin a turn
not alive while the second call is in flight, in spite of "hold the event loop open
while this is executing". `QueuedCallsReturn` therefore promises nothing once the loop
was let go.

The others are seen in runs that pass, since the properties say what remains:

* `ffi`, at `ffi.cc:47`: "wait for signal from calling thread" is a wait without a
  condition around it. Where it returns unasked, `Invoke` returns before its JavaScript
  has run, and the main thread works on freed memory. `NoUseAfterFree` confines that
  to the invocations of such waits.
* `barrier`, at `pthread_barrier_wait.c:84-85`: the comment says that
  `pthread_barrier_destroy` may succeed and destroy the semaphore while all threads but
  one are at it. It cannot: the last to arrive has moved its lock to the proxy node, which
  only the last one out releases, so destroy fails with `EBUSY`. `MeetingsAreWhole` has a
  conjunct for exactly that (a destroyed barrier has nobody inside) and it holds.
* `cond`, at `sem_wait.c:63`: "Thread can be cancelled in sem_wait() but this is OK"
  (`pthread_cond_wait.c:384`). It loses the gate if it takes the post that was meant for
  another (`GateLost`).
* `layout`, at `Control_mac.js:699`: `left = sibling` and then `left = 5` adjusts the
  constant and keeps the sibling; the documentation (`Control_mac.js:826-829`) has a
  number mean the distance from the parent. `InForceAgrees` says that the second item
  is that of the value exactly where the slot is not `astray`.

### What else the models exclude

Properties are stated for what the code promises. The conditions in them are
not decoration: without each of these TLC refutes the property.

* `unasked` in `NoUseAfterFree`, `SignalFindsWaiter`, and as `"abandoned"` in `CallSpec`;
  `main_pc = "undefined"` in `QueuedCallsReturn`: the wait of `ffi.cc:47` has no
  condition around it.
* `~HeldOpen` in `QueuedCallsReturn`: the loop may be let go during a call (`ffi.cc:194`).
* `misplaced` in `ReadsBack`: `struct.js:74` copies a structure at its offset
  twice, and four steps show it.
* `outgrown` in `ExactlyAsC` and `ReadsBack`: only instances freeze a type, so a type
  may still grow that is a field of another laid out before (`struct.js:243`).
* `Straddles` in `WordsAreClassified`, `ArgumentsHaveRoom` and `ClosureFindsArguments`: `ffi64.c:199`
  counts the eightbytes of a nested structure from its own start, and a
  structure that straddles two loses the second.
* `borrowed` in `ViewsKeepTheirMemory`: a Buffer that `readPointer` makes of an
  address attaches nothing (`ref.cc:245`).
* `through` in `AttachedPointersLead`: `struct.js:74` copies bytes without what is
  attached to them.
* `disturbed` in the properties of `CLREvents`, and `NullSenders` in `RaisersReturn`
  (`CLR_win.cpp:776`, `:803`).
* `deaths > 0` in `EveryCallReturns`: after the death of an owner a waiter that is
  woken may find that somebody has inherited before it, and the thread behind it
  sleeps on (`pthread_mutex_lock.c:170`). `Ownerless`: `timedlock` of a robust normal mutex
  records no owner, so nobody can unlock it.
* `strayed` in `EveryoneGetsThrough`: after the late write of `ptw32_MCS_lock.c:175` to a
  node that is in use again, a thread may wait in a queue for ever. In `MutualExclusion`
  it excuses the null pointer that a release then follows (`crashed`), and only that.
* `GateLost` in `EveryoneSignalledLeaves`, and a wakeup too many at the gate in
  `WaitersAccounted`: a thread was cancelled at the gate (`sem_wait.c:63`).
* `astray` in `InForceAgrees` and `FirstAttachApplies`: the second item of an earlier value
  (`Control_mac.js:699`).
* `main = "last_turn"` in `TurnsExclusive`: the turn at termination (`Main_mac.mm:199`) is
  not handed over, and the watcher may be in a poll.
* `reattached` in `FirstAttachApplies`: on removal AppKit drops the native
  constraint, `private.constraints` keeps it, and on the next append the setter
  adjusts the dead one (`Utilities_base.js:130`), so the documented value does not apply.

Three observations are outside what the properties say. `win_msg_loop` resets the
fail-safe flag after the turn has released the watcher, which may have armed it
again (`Main_win.cc:257`): a waiting watcher is then owed its turn by the message only,
and a rogue handler that takes it stops the loop. Each listener that is added installs one more
native handler, and each of those fires the event (`Utilities_base.js:65`). A property
that is set, cleared and then excluded still has its listener, and on append its
setter throws inside `fireEvent`, which exits the process (`Utilities_base.js:120`);
the model has that exit as `exited`.

### Bounds, and why they are enough

* *Three threads.* A hand-shake needs two to race for one wakeup, and a third so
  that one is in the queue, one is being served and one is leaving. For
  `ffi` the theorems lift the bound. One of them is restless, so that calls of others are
  seen beside an abandoned one and must not suffer from it; the theorems take any set.
* *Skew 1* is one pair of threads in the race of `uv_ref`; more of them add
  only more of the same drift. No property depends on the value.
* *Timeouts -1, 0, 10, 251* are for ever, none, one below and one above the clamp of
  250 ms; the theorems take any.
* *Queue and semaphore of 4.* At most one message per turn of the watcher is
  outstanding, unless the stale flag or a foreign loop intervenes; a full queue is
  reached and drops what is posted. `TurnOwed` is proved for any size.
* *Depth 2* nests a handler in a handler, *depth 3* a fire in a fire in a fire;
  four places let each listener be registered twice. Two listeners are
  interchangeable, so the symmetry of the run is sound (it has no liveness). The
  theorems about events take any listeners, handlers and depth.
* *Three fields* of a char, a float and a pointer give every order of sizes 1, 4 and 8,
  padding in front, between and behind, nesting, and eightbytes that merge both classes;
  the theorems take any number. Two registers of each kind run out
  within the arguments of one call, as six and eight do; the theorems take any
  number of arguments and registers. Structures inside structures inside structures are
  left out of what is said of libffi, by the runs and the theorems alike (`Callable`).
* *Three containers*: leave, enter, and one that ignores constraints. Two numbers
  distinguish an adjustment from a replacement only of the constant, a percentage
  one of the multiplier, a sibling one of the second item. `MaxChildren` bounds
  repeated appends to the same container.

* *Two at a time of three threads* has a third thread arrive while the two of the last meeting
  leave; four arrivals are two meetings. A queue lock needs a holder, a
  successor and one that comes while they hand over. The theorems take any finite set
  of threads, any number at a time and any number of arrivals.
* *Four calls of the mutex* by three threads: a holder, a sleeper, a newcomer, and one call that
  comes back. One death leaves a heir and a waiter. For `MutualExclusion` and
  `UnwarnedIsClean` the theorems lift these bounds.
* *Three waits, three signals, two that give up or are cancelled*: a signal in progress, one that comes too late,
  and a waiter that takes what was meant for another. `GoneLimit = 2` lets the
  count of the gone reach the limit where the code folds it into `blocked`. The
  theorems take any finite set of threads, any limit and any number of each.
* *Four objects* are an argument and the three Buffers of a call, or a chain of views with a
  stored pointer. They are interchangeable; the run has no liveness, so the
  symmetry is sound. The theorems take any number.

Deadlock is checked in `ffi_hold_open`, `struct` and `events`. It is not in the
others, where nothing follows undefined behaviour (`ffi`), the application may have terminated
(`loop_mac`, `loop_win`), the process may
have exited (`layout`), the bounded number of calls may be used up (`barrier`,
`mutex`, `cond`, `memory`), or a thread that lost its event waits for ever, which
is the point (`clr_events`). In `ffi` a call that is stuck after its send violates `QueuedCallsReturn`.

## 4. Fairness

* `ffi`: weak fairness of each step of each thread inside `Invoke`, and of
  `WatcherCallback`. Threads of the system are scheduled; a condition that is
  signalled wakes its sleeper; libuv calls back a handle that was sent, if that handle
  keeps the loop alive: nothing obliges timers or sockets to do so. A native
  thread is *not* obliged to call, nor a wait to return unasked.
* `loop_mac`: weak fairness of the watcher and of each step of the block on the
  main thread; a user interface event ends. Strong fairness of the start of a
  block, since user interface events come and go while it waits in a queue that
  is served in order. Nothing obliges the loop to become readable.
* `loop_win`: weak fairness of the watcher and of the message loop, strong
  fairness of fetching `WM_APP+1`, because posted messages are fetched in order
  and nested loops come and go. Nested loops end (a modal dialog is closed);
  without that a foreign loop may hold the thread for ever.
* `clr_events`: weak fairness of the steps of a raise, strong fairness of the callback
  and of the return of a handler, which nested raises disable and enable again.
* `barrier`: weak fairness of each thread inside a call. No thread has to call, so
  `EveryoneGetsThrough` speaks of meetings that enough threads come to.
* `mutex`: weak fairness of each thread inside a call, and holders unlock. The mutex
  itself is not assumed fair: a newcomer may overtake a sleeper, as in the code.
* `cond`: the same inside the calls; a thread that has waited is let into the mutex of
  the callers at some time if it is free again and again (strong fairness), for
  the mutex under it is not what the condition variable promises. Nobody has to
  wait, signal, give up or destroy.
* `struct`, `events`, `layout`, `memory`: safety only, no fairness.

## 5. What is proved

All proofs are checked by TLAPS with no unproved step. Each follows the same line: an
inductive invariant `IInv` stronger than the property, `Init => IInv`,
`IInv /\ [Next]_vars => IInv'` by one step per action, and temporal logic.

| Theorem | Statement | Why the property alone is not inductive |
|---|---|---|
| `MainThreadProofs` `TypeCorrect`, `MemorySafety`, `NoSignalIsLost`, `ReturnsServed`, `DispatchesOnce` | `TypeOK`, `NoUseAfterFree`, `SignalFindsWaiter`, `ReturnsAfterDispatch`, `DispatchedOnce` for any set of threads, any of them restless | Needs who owns each mutex at each place (`MutexInv`), which invocations exist (`ObjectInv`), that the queue holds each waiting thread once (`QueueInv`), and that the one being served is out of the queue and asleep (`ServingInv`) |
| `WakeupsSuffice` | `NoLostWakeup` | Inductive on top of the types: between push and send the pushing thread covers for the missing wakeup |
| `DefinedWhereSignalled` | no undefined behaviour at all if no thread is restless | `unasked` is empty then, and the exceptions of the others with it |
| `Refinement` | `Spec => Call!Spec`, where the restless may abandon a call | Each step is a step of `CallbackCall` or a stutter, under the same invariant |
| `EmbedTypeCorrect`, `Exclusion`, `SingleToken`, `SpinsOnce` | `EmbedTypeOK`, `TurnsExclusive` (the turns of dispatched blocks, not the last one at termination), `OneToken`, `NoBusySpin` for any timeouts, with or without pokes | `TokenInv` ties the token to the watcher's place, `SpinInv` the counter of idle polls to the flag |
| `DueWorkIsSeen` | `DueWorkWakesWatcher` where there are pokes | Needs `TokenInv`: a turn that ends finds no poll under way |
| `WindowsProofs` `TypeCorrect`, `DeliveredOnReturn`, `RaisesClean` | `TypeOK`, `ReturnsDelivered`, `NothingLeftOver` for any threads, with or without senders | `Phase` follows the only raise under way from the fields over the send and the callback to the semaphore; `Idle` is what it must find and leave |
| `WaitingIsOwed` | `TurnOwed` for any queue, semaphore and nested loops | `OwedInv` follows the message from the post to the semaphore, through the places where the flag covers for it |
| `StructTypeProofs` `TypeCorrect`, `LayoutIsExactlyC`, `FieldsReadBack` | `TypeOK`, `ExactlyAsC`, `ReadsBack` for any types, sizes, number of fields and platform; types that are not `outgrown`, instances not `misplaced` | A loop invariant for each loop of `recalc` (`InLoop`), types of fields (`FieldTypes`), all other types finished (`AllFinished`), the instance frozen (`InstanceOK`) |
| `SameLayout` | `LayoutsAgree` for any structures, with structures among their fields | libffi runs over the elements as `recalc` does: after each of them its size is that of the fields passed, its alignment the largest so far; the end is padded to the same multiple |
| `ClassesOfFields` | `WordsAreClassified`, for structures that do not straddle | After each element the class of every eightbyte is that of the scalars seen so far (`Covers`), whatever their order, since `merge_classes` forgets it. Natural alignment puts each scalar in one eightbyte, and a structure that does not straddle in as many as `words` counts; none stays empty, since no padding is as long as what follows it is aligned |
| `ArgumentsAreFound` | `ClosureFindsArguments` for any arguments that do not straddle, any registers | After each argument closure and call have used the same registers and stack. The shortcut of the closure agrees with the copy word by word because one class needs one register of its kind, and two that need no vector register need two integer registers |
| `PlacesAreApart` | `ArgumentsHaveRoom` for any arguments that do not straddle, any registers | Places used so far lie below the counters and new ones from them on (`Fresh`); the counters stay within the registers (`Within`), and what was measured is what is used (`Same`) |
| `BridgeMemoryProofs` `ViewsKeep`, `PointersLead`, `StorageKept` | `ViewsKeepTheirMemory`, `AttachedPointersLead`, `CallFindsItsStorage` for any number of objects | `Kept`: every closed set of live objects has, with a view, the allocation it is cut from, and with a writer, what it wrote. That is what survives a collection, whatever is collected |
| `ControlProofs` `TypeCorrect`, `ExclusionHolds`, `ConstraintsHeld` | `TypeOK`, `Exclusion`, `OneInForce` for any containers and values | Each slot is consistent with the constraint it holds and with the parent (`SlotOK`), through the three slots an append changes in one step |
| `TreesKept`, `ValuesInForce`, `FirstAttachment` | `TreesAgree`, `InForceAgrees`, `FirstAttachApplies` | `ValuesInv` says of each slot what its value is; `AppliedInv` adds that what has a value listens, and that nothing held is dead before the first removal. With both, a first attachment has the whole layout of the value in force, but for the second item where it is `astray` |
| `FiresReach`, `ListenersKept` | `FiresThoseBefore`, `ListenersAreHeard` for any functions, any nesting | For every active fire: unless something was removed, the listeners it began with are still the first of the array and those called are the first of them (`Undisturbed`). The places of each function are counted through the removal that shifts them |
| `PthreadBarrierProofs` `OneHolderOfALock` | `MutualExclusion` for any finite set of threads | Each lock has a queue (`IsQueue`): a sequence of all its nodes, the first of which has the lock or will find that it has, each of the others waiting behind its predecessor, the last the one the lock points to. A thread may be behind another that does not know it yet, which is where the late writes happen |
| `OnceIsOnce`, `WholeMeetings` | `InitialisedOnce`, `MeetingsAreWhole` for any height and number of meetings | Who may be where around the flag (`OnceInv`); height and those who have met add up to the count, arrivals to the meetings held, the semaphore to those it lets go (`MeetInv`); one thread is in charge of a meeting's end (`OneInv`), with the proxy node in the queue meanwhile |
| `PthreadCondProofs` `WaitersAreAccountedFor`, `SignalsHaveTheirWakeups`, `NobodyIsLeftInside` | `WaitersAccounted`, `SignalsAreWakeups`, `DestroyedIsQuiet` for any finite set of threads and any number of calls | Each counter is a count of threads at certain places (`CountInv`, `WakeInv`), each semaphore one of those asleep on it (`SleepInv`), and one token of the gate is free, carried, kept until the last signalled thread leaves, or lost to a thread that was cancelled (`GateInv`) |
| `PthreadMutexProofs` `TypeCorrect`, `OneHolder`, `RecursionCounted`, `Unwarned` | `TypeOK`, `MutualExclusion`, `CountsTheLocks`, `UnwarnedIsClean` for any threads and bounds | While a thread has the mutex the word is not 0 and the mutex is neither unmade nor dead (`LockedInv`); where a thread can stand with and without it (`ControlInv`); owner, count and robust state agree with that (`OwnerInv`, `StateInv`) |

Assumptions are those the modules state on their constants, by name:
`ThreadsAssumption`, `RestlessAssumption`, `SkewAssumption` (the main thread and
"no one" are not native threads), `TimeoutsAssumption`, `PokesAssumption`,
`LoopsAssumption`, `QueueAssumption`, `SemAssumption`, `TypesAssumption`
(sizes are positive, alignments are 1, 2, 4, 8 or 16),
`BoundAssumption`, `ContainersAssumption`, `ValuesAssumption`,
`ConstraintAssumption`, `NoArgsAssumption`, `NullSendersAssumption`,
`DepthAssumption`, `AddressAssumption`, `CallAssumption` (of `BridgeMemory`, and of
`StructCall`: the base types of x86-64), `MutexAssumption`, `NodesAssumption`,
`BarrierAssumption` (threads are finite in number, two or more meet), `CondAssumption`
(the same, and a positive limit), `BoundsAssumption` (one fire at least). TLC evaluates each
of them. Those about `StructType` do not cite the assumption of `StructCall`, so they
hold of any platform. `DefinedWhereSignalled` also assumes that `Restless` is empty, and
`DueWorkIsSeen` assumes `Pokes`.

Two components that have no variable in common may share a module of proofs
(`MainThreadProofs`, `WindowsProofs`, `ControlProofs`); their theorems are about the one
or the other, never about both.

`BridgeMemoryProofs` avoids induction over chains of references: reachability is
stated with closed sets, and a step changes the closed sets in a way that is seen
from one set at a time. `FiniteSetTheorems` is needed only to
tell apart the three Buffers of a call, which the model counts.

The arithmetic of `StructTypeProofs` rests on a few lemmas: padding brings an offset to a
multiple of the alignment and is smaller than it, the size ends as a
multiple of the largest alignment, the larger of two alignments is a multiple of
the smaller (which is why they are powers of two), and fields do not overlap.
Since `recalc` is modelled as steps, the induction over fields is the one over
steps of the specification. The loops of libffi are recursive functions, and about those
`StructTypeProofs` needs induction over data. Theorems of the library take an operator
as a parameter, which cannot be instantiated here; the module states them for sets and functions instead.
`Least` finds in a set of numbers its least element, by which `UpTo` reaches every
number up to a bound; `Recursion` shows that a function defined by what it
does with its previous value exists. So a `CHOOSE` behind a recursive
definition has what it chooses, and what each step preserves holds at the end.

`PthreadCondProofs` counts with one lemma (`Moved`): when a thread goes from one
place to another, the threads at a set of places become one more, one less or
stay. All its invariants are linear in such counts, and an action is arithmetic on
them. `PthreadBarrierProofs` has lemmas for what may happen to a queue
(a node joins, links itself, is let go, leaves), each proved once for a lock and cited for
both locks and every step of once and barrier.

## 6. What is only model-checked, and what is not modelled

Only TLC: the liveness properties `QueuedCallsReturn`, `LoopServes`, `LoopTurns`,
`RaisersReturn`, `EveryoneGetsThrough`, `EveryCallReturns`, `EveryoneSignalledLeaves`
(fairness and `ENABLED` are out of the prover's reach). Every other property of a run is
also a theorem, except `HoldsLoopOpen`, which the code violates. No module declares a
RECURSIVE operator.

Not modelled:

* Inside modelled parts: creation and collection of closures, start-up and packaging, a
  termination from inside a turn of the loop, the list of pending requests that
  the Windows watcher inserts into without a lock, handlers and listeners that
  throw or return values, arrays in structures, animation, arrays of controls, the
  substitution of children by `before-child-attached`.
* Around memory and calls: handles to objects that `ref.cc` copies into Buffers as bytes, the caches of
  classes in `_core.js` (`_core.js:420` keeps the address of a Buffer that nothing
  holds), more than one call at a time, and errors while arguments are set.
* In the pthreads of Windows: reader-writer locks, spin locks, the life of threads and
  their keys, `pthread_mutex_destroy`, robust mutexes of one thread beyond the
  first, processes that share objects, and system calls that fail.
* In libffi: results (assembler), long doubles, other processors, `dlmalloc`.
* Menus, toolbars, tables, dialogs, windows and the application: lists and states
  that mirror native ones one to one, behind Objective-C and .NET calls. What there is of
  order and nesting in them comes from events, layout and message loops, which
  are modelled.
* Thin wrappers (input controls, fonts, colours, screens, system, web view): they
  pass values on and keep nothing.
* Build scripts, the packaging wizard, other vendored libraries, and node, libuv and V8,
  whose directory is a submodule. Where their behaviour matters (`uv_async_send`, `uv_ref`,
  condition variables, semaphores, the queue of Grand Central Dispatch, message
  queues, AppKit's constraints, the collector) it is modelled from its use and
  named so in the comments.

Each component, with its files and the reason, is in `PROJECT.json`.

## 7. Plan

Done, in this order: FFI callbacks with their abstract call, the two embeddings
of the loop, layout, events of controls, CLR events, C structures; then calls
of libffi, memory and asynchronous calls against the collector, and the queue
locks, barriers, mutexes and condition variables of pthreads-win32.

Next, by importance:

1. `OpenEvents`, over `EventTarget`: `openURL`, `openFile`, `openFiles` and
   `init` of `Main_mac.mm:44-188`, and the pending events of
   `Application_mac.js:194-202,589-602`. Properties: each opening is reported
   once, with its own address, to every listener of `open`. The documentation
   (`Application_mac.js:596-598`) and the code disagree on the first listener.
2. `HotKeys`: `registerHotKey`, `unregisterHotKey`, `unregisterAllHotKeys`,
   on both platforms: no hot key outlives its removal, no other is taken with it.
3. `ImportCaches`: `import.js`, `_core.js`, `types.js`, over `BridgeMemory`: a
   cached class or structure stays valid, also after an import that failed.
4. `RWLock`: the reader-writer locks of pthreads-win32 as a composition of
   `PthreadMutex` and `PthreadCond`, with an abstract lock that they implement.
5. `MouseTracking`, composing `EventTarget` and `LayoutProperty`: the tracking
   area exists exactly while someone listens and the control is attached.
6. `WindowLife`: opening, closing, and the exit of the application, for OS X
   and Windows.
7. `ItemLists`: menus, toolbars, tables, split views, each with the list it
   keeps beside the native one; one abstract list that each implements.
8. `ContainerWin`: the Windows side of layout, whose removal order differs.
9. `ScriptInterface` of `CLR_win.cpp` as a second instance of `CLREvents`.

Theorems worth proving next: that `PthreadMutex`, and `MCSLock`, implement an abstract
lock with one owner; that the barrier implements an abstract meeting; that
`BridgeMemory` implements a memory in which nothing is freed.
