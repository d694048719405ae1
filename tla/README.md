# Verification of EFL's core

This directory holds TLA+ models of the parts of the Enlightenment Foundation Libraries
whose correctness depends on the order in which threads, callbacks and queued calls take
their steps. Everything graphical above them (Evas, Edje, Elementary) is single-threaded and
relies on what is stated here: that callbacks run in the main loop's thread, once, in order,
and never on memory that is gone.

Six components are modelled:

| component | source | modules |
|---|---|---|
| calls from other threads into the main loop, and its suspension | `lib/ecore/ecore.c` | `SafeCall`, `MainLoopService`, `MCSafeCall`, `SafeCallProofs` |
| the thread pool | `lib/ecore/ecore_thread.c` | `EcoreThread`, `JobService`, `MCEcoreThread`, `EcoreThreadProofs`, `EcoreThreadJobProofs` |
| promises, futures, their combinations and their delivery by the main loop | `lib/eina/eina_promise.c`, `lib/ecore/ecore_events.c` | `Promise`, `MCPromise`, `PromiseProofs`, `ListLemmas` |
| the queue of messages between threads | `lib/eina/eina_thread_queue.c` | `ThreadQueue`, `MessageService`, `MCThreadQueue`, `ThreadQueueProofs` |
| the timers of a loop | `lib/ecore/ecore_timer.c` | `Timers`, `MCTimers`, `TimersProofs`, `ListLemmas` |
| the events of an object | `lib/eo/eo_base_class.c` | `EoEvents`, `MCEoEvents`, `EoEventsProofs`, `ListLemmas` |

(`lib/` stands for `src/src/lib/`.) `PROJECT.json` has the complete list of components, the
runs, the map from definitions to source lines, the hazards and the theorems.

## 1. Inventory

### Components, their state and operations

**Cross-thread calls** (`lib/ecore/ecore.c` 60-113, 563-773, 1010-1098). State: the list `_thread_cb`
of orders, each with a lock and a condition of its own; the wakeup pipe `_thread_call`; the
suspension handshake `_thread_loop`, `_thread_id`, `_thread_id_max`, `_thread_id_update` under four
locks; `_eina_main_loop`, the identity every function asks. Operations: `ecore_main_loop_thread_safe_call_async`,
`.._sync`, `ecore_thread_main_loop_begin`, `.._end`, `_ecore_main_call_flush`, `ecore_fork_reset`. Correct when: one
thread at a time uses the loop's data; no call is lost, run twice or reordered within a thread; sync
returns after its callback; nothing freed is used; nobody waits for ever.

**Thread pool** (`lib/ecore/ecore_thread.c`). State: two waiting lists, the running list, two
counters and a limit, one worker record per job (cancel, reschedule, kill, message counters, the
waiter of `ecore_thread_wait`). Operations: submission (`ecore_thread_run`, `ecore_thread_feedback_run`), the
thread's loop, messages, cancellation, rescheduling, waiting, the limit, thread-local and global
data, shutdown. Interacts with the cross-thread calls: ends and messages of jobs are asynchronous safe
calls, and a refused thread or a wait flushes them from inside. Correct when: a job is in exactly one
place, is ended exactly once and after its messages, does not start after it was cancelled, and every job
ends.

**Promises** (`lib/eina/eina_promise.c`, with the scheduler in `lib/ecore/ecore_events.c` 1-227). State:
promises, doubly linked chains of futures, the scheduler's list of deliveries, the list of pending futures. Operations:
creation, chaining, resolution with a value or another promise, dispatch, cancellation, all/race, values
of futures, cancel-all. Correct when: nothing freed is followed, every callback is called once and in
chain order, no chain is forgotten.

**Thread queue** (`lib/eina/eina_thread_queue.c`). State: a chain of blocks with the messages in them, the read
position, a reference count and a lock per block, the semaphore and the count of pending messages, a parent queue and an
fd. Operations: send and its completion, wait, poll, the return of a message, the two settings. Correct when: complete messages are
received once, in order and in the end; a block is freed by its last user; whoever is woken finds a message.

**Timers** (`lib/ecore/ecore_timer.c`). State: per loop a list ordered by time, a list of suspended timers, the timer
the walk stands on; per timer its time, interval, pending time, freeze count and three flags. Operations: add, delete, interval, delay, reset,
freeze, thaw, the attachment of tick callbacks, the walk over expired timers, the choice of the next wakeup. Callbacks may use all of them, and run the loop.
Correct when: the lists stay whole and ordered, no timer is called twice in a walk or after its deletion, the
loop sleeps past a timer by no more than the precision and the time its callbacks took, and every expired timer fires.

**Eo events** (`lib/eo/eo_base_class.c` 100-112, 1100-1880). State: per object a list of callbacks sorted by priority, the chain of emission
frames, the positions of events with `restart`, freeze and stop, two counts of special listeners. Operations: add and delete, alone or as
arrays, emit, stop, freeze, thaw. Correct when: an emission calls those who listened when it began and still do, once each and in
order, whatever its callbacks do to the list.

**Main loop, pollers, idlers, fd handlers, messages** (`lib/ecore/ecore_main.c`, `ecore_poller.c`, `efl_loop*.c`,
`ecore_event_message*.c`). Lists walked while callbacks change them. Correct when: a callback may delete, add or freeze anything
without a skipped or repeated element, nested iterations included.

**Ecore_Pipe** (`lib/ecore/ecore_pipe.c`). A non-blocking byte pipe with length-prefixed messages: partial
reads and writes, re-entrant handlers, `ecore_pipe_wait` with a timeout.

**Eo** otherwise (`lib/eo/eo.c`, `eo_ptr_indirection.c`). References, parents, object ids with generations.

**Eina** otherwise: the free queue (`eina_freeq.c`: limits, bypass, deferred frees), copy-on-write, safe pointers,
sequential containers.

The rest (networking, D-Bus, display bindings, canvas, toolkit, compilers, bindings) is listed in
`PROJECT.json` with the reason it is left out.

### How they interact

A thread posts to `_thread_cb` and writes one byte-message to the pipe when the list was empty; the main loop's fd
handler flushes the list. The pool's threads end their jobs with such a call. `ecore_thread_wait`, a refused
thread creation and any nested main-loop iteration flush from inside a callback, so **activations nest**:
an outer flush holds calls that a nested one cannot see, and a later call may run before an earlier one.
Futures are delivered from the loop's idle events; a callback may run the loop again. Timers, promises and events meet in one
pattern: library code walks a list, user code runs in the middle of the walk and changes the list, and a second walk of the same
list may begin inside the first. Each of the three has its own device against it (a current pointer moved on by whoever unlinks it,
links cut on one side, generations and deferred removal), and each model keeps that device as the code has it.

### What is hard to test here

Interleavings of `begin`/`end` of several threads with the flush; the gap between a pool thread's last look at the
lists and its departure; nested flushes; user callbacks between two reads of the same record; cancellation from
inside a callback of the same chain; timers and event callbacks deleted, frozen or added by those being called; a block of
messages released by several readers. The hazards are listed one by one, at their lines, in `PROJECT.json`,
each with the properties that would catch it.

## 2. Modules and their correspondence to the code

### `SafeCall`: one program counter per thread

User code is the state `run`, from which every operation of the interface may be called. A critical section that does
not block and whose data is only touched under its lock is one action; where another thread can see an
intermediate state (the post and the wait of `sync`, the four phases of `end`, the gate of a suspended loop) it
is several. The stack of flush activations of a thread is `frames`; `Top(a).rest` is the local list of
`_ecore_main_call_flush`, and a callback is a return to `run`. Condition variables are a set of sleeping
threads; a broadcast removes those that sleep at that condition. `Spurious` adds wakeups without broadcast.
The wait of `sync` has no loop around it in the code, and has none here.

`MainLoopService` is the abstract specification: at most one user of the loop's data, which changes hands only
when nobody uses it; a posted call is executed once, by the main loop's thread, during its turn. `SafeCall`
implements it with `users` the threads for which `InMainLoop` holds, and posted and done calls read off the heap.

### `EcoreThread`: a stack of activations and threads

The main loop's thread is `stack`: user code, flushes with the calls they still have to run, the handlers
suspended inside a user callback, waits, and the moments of `ecore_thread_run` between two critical sections. A pool
thread is a program counter with the job it holds. The queue of safe calls is the one of `SafeCall` reduced to what jobs use:
other threads append, a flush takes all. `job` has the fields of `Ecore_Pthread_Worker` that steer it; `ghost` records what
happened to the job and steers nothing in the code. Job memory is not recycled, so that the use of a freed job is seen as such;
each system thread is started at most once.

`Liberties` names what a run lets the system or the program do beyond the plain use: refuse threads, call back under the
lock, change the limit, enable thread cancellation, wait inside `func_notify`, wait twice. Several of
them lead to the disagreements of section 6; separating them keeps each run about one question.

`JobService` is the abstract specification: a job waits, is held by one thread at a time, may go back to waiting, and is
closed once it is over and its messages were read - with `func_cancel` exactly if it had been asked to stop.

One fact found while modelling shapes `Cancel`: `have_main_loop_thread` is set only inside
`get_main_loop_thread()`, whose only call (`ecore_thread.c:764`) is guarded by `have_main_loop_thread`. The
removal of a pending job (765-798) therefore never runs, and cancellation only marks a job, whatever list it is in.

### `Promise`: chains of futures on one thread

Everything happens on the main loop's thread, so the difficulty is re-entrance only. `stack` holds user code, the
loop over a list of deliveries (`todo`), a dispatch or a cancellation about to look at a future, one suspended in the callback of
a future, and a promise being cancelled (`dying`: its callback runs, its memory is freed afterwards). The links
`next`, `prev`, `promise` are kept exactly as the code writes them, in particular the one-sided cut of
`_eina_future_cb_dispatch` (lines 337-338), after which a future still names a successor that no longer names it. A value is a
plain value (or error) or a promise; what matters of a value is only that.

User code behaves as the documentation asks: it uses live futures and promises it owns, and gives a promise away once. What
it may cancel beyond that is in `Liberties`: `cancelDetached` (a future whose delivery the loop has already taken over) and `cancelBusy`
(the rest of a chain some activation is in the middle of). Both are ordinary calls in a program; both end in
section 6.

`eina_promise_all`, `eina_promise_race` and `eina_future_as_value` are programs over the same chains: the library owns a promise, `join`
records its context, and the library's own callbacks (`InnerCall` and what follows it) take the place of the user's. User code does not build
a circle out of them (`NoCircle`), and the further liberties `cancelJoin`, `failProxied` and `raceTogether` are again in section 6.

### `ThreadQueue`: senders, receivers and three kinds of wakeup

Each thread has a program counter in a call of the interface; the steps are the critical sections of the block and queue locks, and the atomic
counts between them. Queues form what the constants say: a child with a parent, a queue with an fd. `How` says how a receiver learns of
messages: waiting, polling, through the parent or through the fd. One thing the code does is not obvious from it and is kept as it is: the
size of a new block is the larger of the message and the minimum *and* the first message takes all of it, so each block holds one
message. The mutant `AllocPacked` shows that the release of a block by several receivers without a lock is safe only because of that.

`MessageService` is the abstract specification, a sequence of messages: opened in order, completed in any order, and taken from the
head once complete. `ThreadQueue` implements it.

### `Timers`: the loop as a stack of walks

`ld` is the loop's data, `run` the loops inside each other, each with the phase of its iteration; user code runs in a tick or between iterations. Time
advances by single units, at any moment outside the library's own steps, up to a bound. `loop_time` is what the code says it is: the clock when a `select`
returned or a loop was entered, so it falls behind while callbacks run, by `MaxBusy` at most. `NextGet` is an expiry relative to `loop_time`, as
`_efl_loop_timer_next_get` returns it, and `Sleep` adds it to the clock, as `select` does: what the callbacks took is slept a second time
(section 6, `ecore_timer.c:559`). Loops at every depth sleep; one that is inside a tick ends after a `select` (`Turned`), or before it if it only polls or was told
to quit (`Unnest`). Times are exact numbers; the precision by which timers are waited for together
is `Precision`. Operations of one call (a timer moved, inserted, set again) are functions of the loop's data, so that each action is
the call the user makes. `Liberties` separates what ends in section 6.

### `EoEvents`: a list and the emissions walking it

`obj` is the object's data as far as events go. Each emission is a frame with the fields of `Efl_Event_Callback_Frame`, the local variables of
`_event_callback_call` that outlive a callback, and a history: who was listening when it began (`due`) and who was called. User code
runs in the callback of the last frame. The code between two callbacks runs without interruption, so a callback that returns and the
search for the next are one step (`Resume`), written as a choice of the highest position in a set of candidates instead of a loop.
`Liberties`: `crowdIn`, `editInArray`, `addAndRestart`, for section 6.

## 3. Runs

| run | instance | question and result |
|---|---|---|
| `safecall` | 2 workers, 3 calls, nesting 2, no nested flush | All safety properties of `SafeCall`, and `CallsInOrder`: hold. |
| `safecall_live` | 2 workers, 2 calls | `sync` returns, every call runs, and `MainLoopService` is implemented, with its liveness: hold. |
| `safecall_stress` | 1 worker, 4 calls, ids wrap at 2, spurious wakeups, flushes inside sections and callbacks | Mutual exclusion holds. |
| `thread` | a short and a feedback job, 2 threads, limit 2, cancellation | `JobService` implemented, every job ends: hold. |
| `thread_waits` | a short and a rescheduled feedback job with a message, limit raised from 1 to 2, one wait | The five properties of nested flushes and waits: hold. |
| `thread_refused` | one job of each kind, limit 1, refused threads, functions cut short, callbacks under the lock | One place for each job, both counters right and within the limit: hold. |
| `thread_stranded` | 2 short jobs, limit 1 | Violates `EveryJobEnds` (section 6). |
| `promise` | 5 futures, 3 promises, one all, race or proxy, activations nested to 8 | The six properties, delivery included: hold. |
| `promise_recall` | 4 futures, 2 promises, `cancelDetached` | Violates `NoDangling` (section 6). |
| `thread_queue` | 2 senders, 3 receivers, a child, its parent and a queue with an fd | No block used after it was freed, nobody woken in vain, the count right, `MessageService` implemented, every message delivered: hold. |
| `timers` | 2 timers, nested loops, bounded time | Lists whole, walk safe, no timer twice, sleep late by the precision and the callbacks' time at most, every expired timer fires: hold. |
| `eo_events` | 3 callbacks (one array of three items, two of two), an ordinary event and one with `restart`, user code under up to 2 emissions | The list, who is called, in which order, and that nobody is skipped: hold. |

**Why the bounds are enough.** The interesting cases of `SafeCall` are pairs: two workers that suspend at once, an end that meets the next
suspension, a call posted before a begin of the same thread, a wakeup racing the swap of the list. Two workers and three
calls contain each with one call to spare; a third worker only repeats a role of one of the two. The wrap of the suspension
id needs more suspensions than ids, hence `IdMax = 2` with four calls. In `EcoreThread` the
limit, the departure of a thread and a job that comes meanwhile need two threads and two jobs; the order of messages needs one
message, one flush outside and one inside; a wait needs a second job or message to be flushed within it. In
`Promise` a chain of three with a future on either side of the one being called, and one more chain that a callback can
touch, is five futures; three promises allow a resolution by a promise whose own value is a promise. `MaxDepth` limits the
activations *under which user code still calls back*; the depth 8 of `promise` covers a cancellation in a callback
of a delivery in a loop inside a callback. All bounds appear as guards named after their constants (`MaxCalls`, `MaxNest`,
`MaxDepth`, `MaxTime`, `MaxBusy`, `MaxSend`, `MaxRuns`, `MaxWaits`, `MaxLimit`, `MaxFutures`, `MaxPromises`, `MaxJoins`, `MaxCbs`, `MaxFreeze`).

In `ThreadQueue` a block can be released wrongly only between two receivers of one queue, and a wakeup lost between two senders; the third receiver
serves the parent. In `Timers` every pointer the walk follows is to the current timer or the next one, so two timers meet all the cases, the third
place of a list being the end. The clock runs to 5, so that a timer can become due by the precision and `MaxBusy`, and one can be missed by more than `Hang`.
In `EoEvents` the clamping of generations needs an addition under two emissions and a third one after it, which three
callbacks and `MaxDepth = 3` give (the mutant `ClearedLate` is found by nothing smaller); with five callbacks of one kind under
`MaxDepth = 2` the four properties hold as well (1.2 million states).

`CHECK_DEADLOCK FALSE` is set for `EcoreThread`, `Promise` and `Timers`: a program whose bounded jobs, futures or time are all used up
stops there by right. Every run of `SafeCall`, `ThreadQueue` and `EoEvents` checks for deadlock.

Symmetry (workers; threads and short jobs) is used only by runs without liveness properties.

**Mutants.** Each property of a passing run comes with a small wrong version of one mapped definition - a
broadcast forgotten, a flag not reset, a test after the update - under which the same run violates it. They stand next to the definitions they
vary, marked `Mutant`.

## 4. Fairness

* `SafeCall`: weak fairness of every thread's steps inside a function (the system schedules threads that can run). Strong fairness for the
  end of a section, the return of a callback and the main loop reading its pipe: user code returns and calls `end`, and the
  loop comes back to its pipe, but nested pairs and nested flushes may disable these steps any number of times in between. Nothing forces a thread to
  begin a call.
* `EcoreThread`: weak fairness of the main loop's own steps, returns of callbacks included, and of each pool thread's steps. Whether
  a function sends, asks to be run again, is cancelled or cut is free.
* `Promise`: weak fairness of the library's steps and of the loop running when it has deliveries; strong fairness for the return of callbacks,
  since a callback may chain and cancel before it returns. No promise is ever forced to be resolved.
* `ThreadQueue`: weak fairness of the steps of each thread: one that has opened a message completes it, and a receiver that was woken goes on
  and asks again. The loop around `wait` and `poll` is the user's, and a program whose receiver stops asking is not promised anything.
* `Timers`: weak fairness of the iteration of the loop, returns of ticks included, and of the clock. The first is written out with `LoopRuns` in place of
  `ENABLED LoopStep`, which TLC takes minutes longer to compute; that the two are equal was checked as an invariant of an instance. `DueTimersFire` says that a
  due timer gets its tick, not when.
* `EoEvents` has safety properties only; an emission is a sequence of calls that ends when they return.

## 5. Proofs

All six components have proofs: `SafeCall`, for every number of workers, calls and nested flushes, `EcoreThread`, for every number of jobs,
threads, messages and activations, `Promise`, for every number of futures, promises and activations, `ThreadQueue`, `Timers`, for every number of
timers, calls and nested loops, and `EoEvents`, for every set of events and callbacks and every depth of emissions. `SafeCallProofs`, with spurious wakeups allowed:

* `TypeCorrect`: `Spec => []TypeOK`, without further assumptions. `TypeOK` is not inductive: that `order[call[w]].id` is an
  id needs that a thread in a given state holds an order of a given kind (`CallOK`, `FrameOK`, `OrderOK`, `EndOK`); together they are `TypeInv`.
* `MainLoopExclusive`, `LoopIdentityRight`, `LoopCountRight`: `Disciplined => (Spec => []P)` for `MutualExclusion`,
  `MainLoopIdentity` and `NestingCount`.

`Disciplined` is `FlushInSection = FALSE /\ MaxCalls <= IdMax`: code between `begin` and `end` does not flush the calls
itself, and ids are not reused. The first is needed - section 6 says what happens
otherwise; the second says that fewer than `INT_MAX` suspensions are made.

The argument is about ids, because that is how the code matches an `end` with a suspension. The strengthening `LoopInv` says: ids of
suspensions are fresh, no two active workers share one, and the last id answered belongs to none of them (`IdsFresh`); where the main
loop's thread is determines `_thread_id` and `_eina_main_loop` (`MainSide`); a worker inside has the id the suspended loop waits for, and while
it is inside the loop stands at its gate (`WorkerSide`). With it, a second worker cannot enter: its id differs from `_thread_id`, and only
the main loop, which stands at the gate, could change that. The proof has one lemma for the worker's own steps (`WorkerStep`), one for
what they leave to other workers (`OtherWorkers`), and one for the steps of the main loop's thread (`MainStep`).

Its second half is about the queue of calls:

* `NoWakeupLost`: `Spec => []NoLostWakeup`, without further assumptions. The property is inductive once it is known that a thread which is
  about to take the list stays there until it does (`WakeStep`).
* `SyncIsSynchronous`, `OrdersOutliveUse`: `Disciplined /\ ~Spurious => (Spec => []P)` for `SyncReturnsAfterRun` and `NoUseAfterFree`. With
  spurious wakeups both are false (section 6, `ecore.c:660`). The strengthening `OrderInv` numbers the places that refer to
  an order: the list, the hand of each flush and what is left of the list it took. No order is in two places (`RefersOnce`), what is
  in one is alive (`RefersAlive`), a flush treats its order as what it is (`FramesRight`), and a caller that sleeps no more has an order that was run
  and is nowhere (`CallerRight`), so that it may queue it again for its clean-up. Steps move references: one lemma for each
  way (`ReferencesPost`, `ReferencesSwap`, `ReferencesNext`, `ReferencesClear`, `ReferencesDone`), one for what a worker's step leaves
  alone (`WorkerFrame`), one for the main loop's (`CallersFrame`). That `Feedback` frees an order no caller waits for uses the ids of `LoopInv`.

It ends with `ServiceImplemented`: `Disciplined /\ ~Spurious => (Spec => Service!Safety)`, the safety part of the refinement that
`safecall_live` checks with its liveness. Four actions pass the turn on (`TurnStep`), all others leave it (`TurnKept`); an
allocation posts a call, `FlushNext` executes one, and that the clean-up of `sync` is not executed as a second call
needs `OrderInv` and that an order is turned into a clean-up after its call was run (`RunsRight`).

`EcoreThreadProofs` is about the counters and the waiters of the pool, for every choice of the liberties unless said otherwise (`ThreadsAssumption`: the threads are finitely many):

* `WaiterKept`: `SafetySpec => []WaiterOnStack`. The property is about live jobs; the strengthening `WaitersRight` needs no life: a pointer to a waiter
  names an activation of `ecore_thread_wait` for that job which still waits (`waiting`). That is why `WaitOver`, which leaves the job alone,
  is safe - no job points to a wait that is not waiting - and why the wrapper of the last callback, which finds its waiter
  *below* itself on the stack (`Good`), may clear it.
* `CountsKept`: `"lowerMax" \notin Liberties => (SafetySpec => []CountRight)`. The limit is tested in one critical section and the thread created in
  another, so `count <= max` alone is not inductive: `Limited` says that there is room while a creation is pending, and `Good`
  that at most one is - it stands on top of the stack or, while it flushes before a second attempt, holds the pending lock,
  so that a callback of that flush cannot begin another (`RunStep`). The assumption is needed: after the limit was lowered below the count,
  `count == max` never holds again.

  The proof sorts the steps: those that start no thread and touch no wait keep everything for one reason (`QuietStep`, `QuietKeeps`), and the
  stack is treated by what one push (`PushAny`) and one pop (`PopKeeps`) do; the others have a lemma each. That removing a job from a
  waiting list leaves a list (`RemovedTyped`) rests on the least element of a set of numbers (`Smallest`), which the library's theorem on
  well-founded relations gives without induction over a predicate.

`EcoreThreadJobProofs` is about the jobs. Its theorems read `CalmHere /\ Granted => (SafetySpec => []P)`:

* `JobPlaced` (`OnePlace`), `MessagesBeforeEnd` (`MessagesFirst`), `NothingDangles` (`NoDangling`) and `WaitedOver` (`WaitMeansOver`);
* `EndsOnce` (`FinalOnce`), if also `Repeats \cap Direct = {}`.

The assumptions leave out what is wrong in the code, each a row of section 6, and every checked run meets them. `CalmHere` says that there are no
messages, or that `func_notify` does not wait (`ecore_thread.c:282`: the flush of that wait may free the job under the delivery) and no
creation is refused (the refusal flushes the calls from wherever the thread was wanted). `Granted` says that creations are refused only if the limit stays one
(`ecore_thread.c:721`: with another thread about, the job may be over when the refusal is dealt with). `Repeats \cap Direct = {}`: a job with a thread of its own
is not run again (`ecore_thread.c:462`). What stays free: which jobs wait, cancel, send, ask to be run again or are cut, how deep callbacks, flushes and
waits nest, and how often the limit is changed when creations succeed.

`Home` is the invariant of the first four. `PlaceInv` names eleven sites, from not submitted to freed, and says that each job is at exactly one and is listed
there once; a step moves one job from one site to another (`Moves`) or ends one (`Ends`), and a lemma for each operation says which. That the list of a
nested flush has no second copy of a call of the flush around it is part of it (`Separate`). `ShapeInv` says which activations may lie over which: a
wrapper is directly on the activation that ends its job, and nothing that flushes is over a delivery. `CountsRight` is the account of
messages - sent are those received and those posted, in the queue or in any flush under way - and with `SilentInv`, that
a job which is over owes none, it gives `MessagesFirst`. The end of a job can come before its messages in a nested flush; the code then leaves the job to
its last message (`job[j].kill`), and the site "messages" holds until the account is settled. `FinalInv` relates the calls of `func_end` and
`func_cancel` to the site of the job, `OpenInv` says that a job whose creation is pending is still in its waiting list.

`PausesInv` is what the waits add: who waits has its wrappers in the job, or the wrapper that tells it is running (`WaitsHeld`); two waits for one job have saved each
other's wrappers in the order of the stack (`WaitsNested`); and a wait that was told is for a job which is gone or is
ended by an activation further up (`WaitsTold`), so that it is gone when the wait is on top again. With `Home` it excludes that a wait survives the memory of its job.

Its last part is the refinement that `thread` checks on its instance:

* `ServiceKept`: `CalmHere /\ Granted => (SafetySpec => ServiceSpec)`.

The service knows of a job its phase, whether it was asked to stop, how often its function was entered and the messages sent and received. The phase
is defined by lists, threads, posted calls and activations; `PhaseIs` reads it off the site the job has by `Home`. From there the steps are of two
kinds. Those that end no job move jobs only along `Way`, the sites in the order a job goes through them, so that the phase stays or
changes by one of submit, take, back and over (`PhaseWay`). Those that end one close that job or refuse it a thread (`PhaseEnds`, `ServeEnding`): it is closed only from
"over", when its messages were read, and with `func_cancel` exactly if it was asked to stop. What else the service sees changes in few
steps, and never in the same step as a phase: the request to stop (`StandStep`), the entries (`RunsStep`; the job is then with the thread that
enters it, `HeldStep`) and the messages (`MailStep`). The one thing to be known besides `Home` is that nothing was asked of a job before it was submitted (`Unasked`).

`PromiseProofs` is about chains of futures, for every number of futures, promises and promises of the library, whatever callbacks do, at any depth and
with every choice of the liberties:

* `TypesKept`, `OneCall`, `CalledInChainOrder`, `NobodyForgotten`: `SafetySpec => []P` for `TypeOK`, `CalledOnce`, `ChainOrder` and `NoOrphan`, without
  further assumptions.
* `CancelAssertions`, `InnerFound`: what the code asserts (`eina_promise.c:453`, `1226` and `1265`): a future in the middle of a chain waits for no
  promise and has no entry, and an inner future is at one place of one context.
* `AnswersCome`: `"failProxied" \notin Liberties => (SafetySpec => []Answerable)`. The assumption is needed (section 6, `eina_promise.c:665`).

The properties are about links, calls and activations at the same time, and none is inductive. The strengthening `Inv` has seven parts. Futures are
made in the order of their numbers, and a future comes after the one it was chained to: that is why following `prev` ends, at a head (`HeadRight`).
`ChainInv` says that a link between two futures is the one they were made with until one of them is called or freed, that `prev` and `next` of two
waiting futures agree, and that the link is cut only when the earlier one was called or had no callback: `CalledOnce` and `ChainOrder` follow. `FramesInv` says that
the activations which deal with a future stand at a head, and that one whose callback is running has the user above it or is that of an inner
future, at the end of its chain. `JoinInv` is the account of a promise of the library: each inner future that was not called is at one position of one
context, and `processed` counts the empty positions. `LinkInv` says that a promise is known to the head that waits for it. `CareInv` is `NoOrphan`
for the heads alone, and `AnswerInv` says that a promise of the library whose futures are exhausted has an activation that will answer.

The steps are sorted by what they do to the links: those that leave them alone (`ChainSame`), free a future (`FreedChain`), call one (`CalledChain`) or make
new ones (`GrownChain`); and by what they do to the stack: it keeps its lower part and some activations are put on it (`StackStep`). A head stays cared for if each activation
that leaves the stack hands its head to one that comes (`CareStep`), and likewise for answers (`AnswerStep`); `StepInv` puts the parts together. With a
liberty that leaves a pointer to freed memory behind, the model goes on with what was there; for these choices the theorems say that the logic of the links
is right, not that the memory is.

`ThreadQueueProofs` is about the thread queue, for every number of threads, queues, messages and blocks, any mix of `wait`, `poll` and
file descriptors on a queue and any parents, without further assumptions:

* `BlocksOutliveUse`: `Spec => []NoUseAfterFree`.
* `QueueImplementsService`: `Spec => ServiceSpec`, the refinement of `MessageService`.

The strengthening is `QueueInv`. Every block holds exactly one message, because the first fills it (`Filled`), so the blocks of a queue in the order of
their allocation are its messages, and the three pointers cut them into what was consumed, the block that is read, the receivers' list
and the senders' list (`Shaped`, `Listed`, `Ordered`). A block is freed only when consumed and no sender or receiver is left that will touch it
(`Attended`); `Senders` and `Receivers` say what a thread at each point of the code knows about its block, `Locked` which locks it holds. The
hardest step is a receiver that detaches the senders' list and has to wait for the first block's message: while it holds both locks no other sender
can be on its way to the block (`DetachWaitStep`). Each step lemma proves `Advance`: the invariant is kept, and the
queue's messages changed by one `Open`, one `Complete`, one `Take`, or not at all (`Seen`); the refinement is then a matter of the
view (`View`, `ServiceStep`).

`TimersProofs` is about the timers of a loop, for every precision, every duration of callbacks, every set of intervals and whatever the callbacks do, in a tick
or outside, at any depth of loops run inside ticks:

* `CurrentOutlivesWalk`: `Spec => []CurrentSafe`, without further assumptions.
* `ListsStaySane`, `NoSecondCall`: `Unmuted => (Spec => []P)` for `ListsSane` and `NoDoubleCall`. `Unmuted` says that no tick callback removes the last
  tick callback of its own timer; section 6, `ecore_timer.c:93`, says what happens otherwise.
* `SleepEndsInTime`: `Unmuted /\ MutedInTime => (Spec => []NoOversleep)`. `MutedInTime` says that a timer which had no tick callback in its
  first turn is not given one later (section 6, `ecore_timer.c:503`). The loop sleeps past its first timer by no more than `Precision + MaxBusy`, and does not
  sleep at all if that timer had expired by `loop_time`. Without the `MaxBusy` it is false (section 6, `ecore_timer.c:559`).

None of the properties is inductive. The strengthening `TimersInv` has three layers, one for each set of assumptions. `Base` needs none: the lists hold
live timers, each once; a running timer has a time; `timer_current` and every timer that is called are not gone; only the innermost walk is
not in a tick; `loop_time` is behind the clock of a loop that is awake by `MaxBusy` at most (`Prompt`), which every way out of a `select` and into a loop
restores. `Sane` adds that a live timer is in the list where its data says it belongs, that the running ones are sorted, that
a live `timer_current` is among them - from there the walk goes on -, and that a timer the walk has called, if it is alive and
not frozen, is `just_added` until the walk is over (`Passed`), which is why it is not called again even when it has expired. `Awake` adds that
a running timer which is not enabled is announced in `timers_added` (`Told`).

Each list function of the code has a lemma (`RemoveRight`, `InsertRight`, `InstanciateRight`, `PlacedRight`, `RescheduleRight`, `NextGetRight`). What a user's call may do to
the walks it happens in is one relation, `Handled`, which every operation is shown to keep and from which the invariant follows
once for all of them; `Walking` is what the walk needs to go on after a tick. The branch of the reschedule that finds its timer in the other list is reached
only after a callback has removed itself: the lists are then wrong, but `CurrentSafe` holds, which is why it is proved without `Unmuted`.
A loop that goes to sleep, wakes up or ends inside a tick is treated once for each way its frame changes (`Resting`, `Popped`).
The attempt found a statement that was too strong: with a precision of 0 the timeout ends exactly when the first timer expires, not before
that time plus 0, so `NoOversleep` says both.

`EoEventsProofs` is about the events of an object, for any events, priorities and arrays, and whatever callbacks do, in an emission or outside, at
any depth:

* `ListStaysRight`, `CallsInOrder`: `Spec => []P` for `ListRight` and `CalledInOrder`, without further assumptions.
* `CallsInTime`: `"editInArray" \notin Liberties => (Spec => CalledInTime)`, an action property: nothing is added, and no array is deleted, between
  two calls of one array (section 6, `eo_base_class.c:1673`).
* `NobodyIsSkipped`: `NoneSkipped => (Spec => NobodySkipped)`, an action property too. `NoneSkipped` says that the liberties `crowdIn` and `addAndRestart`
  are not taken (section 6, `eo_base_class.c:1375` and `1709`). Both assumptions are needed: a run with the liberty violates the property.

The strengthening `EventsInv` has three parts. `ListGood` is about the list: besides what `ListRight` says, descriptions are made in the order of their
numbers, so that a new one comes behind all of its priority, and without a clean-up pending no generation is above 0. `FramesGood` says of each emission
where it stands (`StandsAt`): the callback it has called is at position `idx + inserted`, or above it with `crowdIn` or where the walk is at its end, and
everything it has called is behind it in order (`CalledDown`); that among the listeners that are not deleted those are due whose generation is older than the
emission's (`DueRight`) - the generations of the code and the list of those who were there at the beginning say the same -, that a stop is seen by the emissions it concerns (`StopsRight`) and that an event with `restart` has one owner (`OwnersRight`). `WalksRight`,
under `NoneSkipped`, says that an emission has called everybody behind its position, in full, and nobody before it (`Reached`), and for an
event with `restart` that its emissions have done so together (`ReachedTogether`).

Between a return and the next call the invariant does not hold: the emission has done what is above the point where it goes on and not yet chosen the
next callback. `Walking` is what holds there and `Leaving` what holds when nothing is left to call; a return leads to one of the two (`ResumeWalks`,
`ResumeLeaves`), and so does the beginning of an emission (`EnterWalks`). What user code does without emitting is one relation, `Suspended`, from
which `UserRight` concludes that the invariant is kept; every operation is shown to be of that kind (`AddedKept`, `MarkedRight`, `UnlistedRight`,
`StopRight`, `FreezeRight`, `ThawRight`). An addition is the hardest: the binary search (`Near`) must end at or before the place where
the callback belongs, and all positions above it move by one. The search is a recursive function on pairs of positions; that there is such a function, and where it ends, is proved by a least counterexample
among the sizes of its intervals (`SearchExists`), since induction over a predicate is not available.

`ListLemmas` has what the proofs about `Promise`, `Timers` and `EoEvents` need of lists and of least and greatest positions.

Only model-checked: liveness under fairness, which is out of the prover's reach; `CallsInOrder` of `SafeCall`;
`NeverEmptyHanded` and `PendingCovers` of `ThreadQueue`, which compare numbers of threads with numbers of messages and hold only while a queue is not both waited on
and polled; `NoDangling` of `Promise`, which does not hold for all constants even without liberties (section 6, `eina_promise.c:1231`): the run has one promise of the library.

## 6. Disagreements

Places where a document, a comment or another part of the code says something the code does not do. Each was first met as a counterexample. Those
with a run of their own:

1. **A queued job without a thread** (`thread_stranded`, `ecore_thread.c:536`). Between a pool thread's last look at the lists and its decrement of
   the counter a job can be queued at the limit; no thread is started for it and none is left.
2. **A delivery that cannot be recalled** (`promise_recall`, `ecore_events.c:144`). The loop detaches its list before delivering; a future cancelled by an earlier
   delivery is freed and then delivered.

Further ones, reproduced by changing a constant of a run (the statement is defined at the end of the module or is a
property of the run):

| where | what the code does | what is said | how to see it |
|---|---|---|---|
| `ecore.c:1056` | a worker between `begin` and `end` that calls `ecore_thread_wait` flushes the calls and may suspend itself for a second worker, whose `end` resumes the main loop inside the first one's section | `Ecore_Common.h:463`: "the main loop is blocked until you call ecore_thread_main_loop_end()" | `safecall` with `FlushInSection = TRUE`: `MutualExclusion` |
| `ecore_thread.c:806` | a cancellation request outlives its job on the pool thread and unwinds the next cancellable one, which is reported with `func_end` | comment at 806: "noop unless eina_thread_cancellable_set() was used by user"; `Ecore_Common.h:1746`: `func_end` when the function "completes its task successfully" | `thread_stranded` with `SafetySpec` and `Cancellable`: `CutOnlyCancelled` |
| `ecore.c:660` | `sync` waits without a predicate: a spurious wakeup returns before the callback ran and queues the order twice | "will block until the callback is executed" | `safecall` with `Spurious = TRUE`: `SyncReturnsAfterRun` |
| `ecore.c:1045` | a callback that flushes runs the calls posted since before those its own flush still has: the calls of one thread run out of order | - | `safecall` with `MaxDepth = 2`: `CallsInOrder` |
| `ecore.c:727` | `begin` of a worker overwrites the nesting count of a main loop that flushes inside its own pair, whose `end` then answers -1 | `Ecore_Common.h:480`: -1 "if you are trying to unlock when there wasn't enough call to ecore_thread_main_loop_begin()" | `safecall` with `FlushInSection = TRUE`: `NestingCount` |
| `ecore_thread.c:726` | `func_cancel` of a refused job, and the flush before it, run with the spinlock of the waiting lists held; `ecore_thread_run` in them spins for ever | `Ecore_Common.h:1777`: "It's also safe to call any EFL function here" | `thread_refused` with `RefusalsLocked`: `NoSelfLock` |
| `ecore_thread.c:721` | the job was queued before creation failed; an older thread may have run, ended and left, and the job is cancelled and freed a second time | `Ecore_Common.h:1776`: "If the thread could not be created, this function will be called" | `thread_refused` with two short jobs only, `Refusals` and the limit at 2: `FinalOnce` |
| `ecore_thread.c:694` | the limit is tested with `==`: lowered below the count it limits nothing | `Ecore_Common.h:2026`: "maximum number of Ecore_Thread's that may be running at the same time" | `thread_waits` with `S2`, `T3`, `LowerMax`, limit 2: `CountRight` (and the third thread still starts) |
| `ecore_thread.c:282` | `func_notify` that waits: the nested flush frees the job under the suspended handler | comment at 281: "Force reading all notify event before killing the thread" | `thread_waits` with `WaitInNotify`: `NoDangling` |
| `ecore_thread.c:855` | a wait inside a wait for the same job saves the wrapper as the user's function: it recurses, or follows a NULL waiter | comment at 859: "Now trick the thread to call the wrapper function" | `WaitInNotifyTwice`, two waits, depth 8: `WrappersWork` |
| `ecore_thread.c:756` | `ecore_thread_cancel` answers TRUE for a feedback job that is over but owes messages, and which lives on | `Ecore_Common.h:1886`: "will be freed and should not be used again if this function returns EINA_TRUE" | `thread_waits`: `CancelTrueMeansGone` |
| `ecore_thread.c:763` | a pending job is marked, never removed | `Ecore_Common.h:1854`: "then the cancel callback will be called" at once | `thread`: `CancelPending` |
| `ecore_thread.c:462` | a job with a thread of its own is not run again | `Ecore_Common.h:1969`: `func_end` is not called before the function returns without being rescheduled | a direct job in `Repeats`: `FinalOnce` |
| `eina_promise.c:337` | cancelling the next future inside a callback frees what the callback's own future still points to | `eina_promise.h`: cancellation cancels "the whole future chain" | `promise` with `CancelBusy`: `NoDangling` |
| `eina_promise.c:1269` | cancelling the promise of an all (or race) cancels its futures; the callback of the last one frees context and promise under the cancellation that still uses both (1162-1181) | - | `promise` with `CancelJoin`: `NoDangling` |
| `eina_promise.c:1230` | two futures of one race delivered in the same iteration: the second delivery is of a future the first one cancelled | as for `promise_recall` | `promise` with `RaceTogether`: `NoDangling` |
| `eina_promise.c:1231` | a race frees its context before its promise answers; if the user's callback of a loser's promise puts that promise's future into a second race and decides it, the second race cancels the first one's promise, whose context is cleaned and freed twice | comment at 1230: "By freeing the race_ctx all the other futures will be cancelled" | `promise` with `MaxFutures = 8`, `MaxPromises = 6`, `MaxJoins = 3`, `MaxDepth = 14`, by simulation: `NoDangling` |
| `eina_promise.c:665` | an error never reaches the future of `eina_future_as_value` | `eina_promise.h:67`: "the future chain will wait until the promise is resolved" | `promise` with `FailProxied`: `Answerable` |
| `eina_promise.c:466` | the promise is cancelled before the chain | `eina_promise.h:163-165`: "will cancel the whole chain and then the promise" | reading |
| `eina_thread_queue.c:187` | a new block is as large as the larger of minimum and message, and the first message takes all of it: messages are never batched | `eina_thread_queue.h:60`: "The size of the message in bytes, including this header" | reading; `AllocPacked` shows what would follow if it were repaired alone |
| `eina_thread_queue.c:464` | poll waits for a lock while a message is being written | `eina_thread_queue.h:168`: "it immediately returns NULL to the caller" | the action `DetachBusy` follows a blocking lock |
| `eina_thread_queue.c:437` | waiters and pollers on one queue: poll takes a message and its semaphore later, so wait returns NULL, and poll may block | `eina_thread_queue.h:137`: "block until a new message comes in, then return" | `thread_queue` with `How <- MCHowMixed`: `NeverEmptyHanded` |
| `ecore_timer.c:137` | `ecore_timer_loop_add` takes the present time, as its loop is not known yet when it is asked for | `Ecore_Legacy.h:241`: "\"now\" is the time from ecore_loop_time_get() not ecore_time_get()" | reading |
| `ecore_timer.c:559` | the timeout is relative to `loop_time`, which is as old as the callbacks of the iteration took, and counts from the call of `select`: with `loop_time` 1, a timer at 4 and callbacks until 3 the loop wakes at 6 | `Ecore_Common.h:3083`: "The precision determines how much of an difference from the requested interval is acceptable" | `timers`: `PrecisionKept` |
| `ecore_timer.c:364` | frozen twice and thawed once, a timer runs again but its ticks are not delivered | `Ecore_Legacy.h:268`: "Nothing happens if the timer was already paused" | `timers` with `freezeTwice` and `MaxOps = 3`: `TickHeard` |
| `ecore_timer.c:655` | the walk ends at a timer deleted in its own tick, expired ones behind it wait for the next iteration | comment at 596: "call the first expired timer until no expired timers exist" | `timers`: `WalkComplete` |
| `ecore_timer.c:503` | a timer whose first tick callback is attached late stays new for ever: never waited for, never called | `efl_loop_timer.eo:3`: "call a given callback at some point in the future" | `timers` with `unmuteLate`: `NoOversleep`, `DueTimersFire` |
| `ecore_timer.c:93` | a tick that removes its own last callback puts the timer in a list twice | - | `timers` with `muteSelf`, `NTimers = 3`, `MaxTime = 3`, `MaxDepth = 1`, `Interval = {1}`: `ListsSane` |
| `ecore_timer.c:642` | a loop inside a tick reschedules its timer, and so does the return of the tick: one tick is skipped | - | reading |
| `eo_base_class.c:1375` | insertions are compared with the position before earlier insertions: a callback that adds several callbacks of a higher priority makes the emission skip a listener | `Eo.h:252`: the order of calls, which every listener is part of | `eo_events` with `MaxCbs = 5`, `OnlyPlain`, `CrowdIn`: `NobodySkipped` |
| `eo_base_class.c:1673` | the second item of an array is called although the first deleted the array, or with the data of what an insertion has put at its position | `Eo.h:268`: "The callback will never be emitted again after this call, even if a event emission is taking place" | `eo_events` with `EditInArray`: `CalledInTime` |
| `eo_base_class.c:1709` | the position shared by emissions of a `restart` event is not moved by insertions: after one, a nested emission misses a listener | `efl_object.eo:11`: "it'll start from where it was" | `eo_events` with `AddAndRestart`: `NobodySkipped` |
| `eo_base_class.c:1418` | a callback that listens to `callback,add` hears its own addition | `Eo.h:254`: "only executed on events emitted after this call finished" | reading (`due` counts it in) |

A thread that has two messages open in a thread queue at a time can block a receiver that holds the queue's lock, and be blocked by it; `ThreadQueue` lets each
sender have one.

## 7. Not modelled

* Allocation failure, everywhere: every error path after a failed `malloc` is left out, except thread creation and its refusal.
* `SafeCall`: `ecore_fork_reset`; a failing write to the pipe; the bytes of the pipe (a message is a count).
* `EcoreThread`: `_ecore_thread_shutdown`, the trash list, thread-local and global data, a cancellation sent to a thread already joined.
* `Promise`: `__eina_promise_cancel_all` and `.._data`, which run when the process ends, the deletion of the loop with
  deliveries pending, arrays of more than two futures, the helpers that only build callbacks (console, convert, easy, log).
* `ThreadQueue`: several messages open in a thread at a time, a parent or fd changed and a queue freed while in use.
* `EcoreThread`: the two posts at the end of a job with its own thread (463, 465) are one step, and a pool thread reads the cancel flag of its job (384) and starts it (390) in one; the last flush of a
  wait at `ecore_thread.c:870`, when the one at 869 ended the job, is left out, as the flush can come right after. `Promise`: a future is made only while its scheduler is there.
* `Timers`: a loop that spins for its idlers instead of sleeping (it updates `loop_time` in each turn), a clock that goes back, timers moved between loops or without an interval, a precision that changes.
* `EoEvents`: forwarders, legacy events matched by name, the special treatment of `del`, `noref`, `destruct` and ownership
  events, the destruction of the object with its callbacks, counts that stick at 0xffff.
* Weak memory: locks order all accesses the models treat as atomic; reads of `work->cancel` and the counters outside locks are
  single steps.

## 8. Plan

Order of what is next, by how much of the program stands on it:

1. Proofs: `NoDangling` of `Promise` without liberties and with one promise of the library; `CallsInOrder` of `SafeCall` without nested flushes.
2. `ThreadData`: the global hash with its lock, condition and timeouts; the entry read after its lock is released.
3. `EcoreThread`, second part: shutdown and its wait, the trash list.
4. `EoObject`: references, parents and deletion, composed with `EoEvents` for the events of an object that dies.
5. `Pipe` (partial writes and reads; composed with `SafeCall` in place of its message count); `FreeQueue`; fork in `SafeCall`.
6. `Loop`: idlers, fd handlers and messages, composed with `Timers`; pollers.

Runs stay few: extensions go into the instances that exist, one instance for each new module, and one for a composition.

## 9. Running

    tlc -workers 2 -config SafeCall.cfg MCSafeCall
    tlc -workers 2 -config EcoreThread.cfg MCEcoreThread
    tlc -workers 2 -config Promise.cfg MCPromise
    tlc -workers 2 -config ThreadQueue.cfg MCThreadQueue
    tlc -workers 2 -config Timers.cfg MCTimers
    tlc -workers 2 -config EoEvents.cfg MCEoEvents
    tlapm SafeCallProofs.tla
    tlapm EcoreThreadProofs.tla
    tlapm EcoreThreadJobProofs.tla
    tlapm PromiseProofs.tla
    tlapm ThreadQueueProofs.tla
    tlapm ListLemmas.tla
    tlapm TimersProofs.tla
    tlapm EoEventsProofs.tla

The longest run takes about two and a half minutes, the proofs about half an hour.
