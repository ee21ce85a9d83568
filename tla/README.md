# A verification of asgiref

asgiref lets synchronous and asynchronous Python call each other
(`async_to_sync`, `sync_to_async`), and carries a few tools for ASGI servers and
tests. These TLA+ modules model its concurrent core as it is written, TLC checks
them on small instances, and TLAPS proves what it can for every instance.

## 1. Inventory

Paths are below `src/asgiref/`.

| Component | State it keeps | Operations | Hard behaviour | What makes it correct |
|---|---|---|---|---|
| `CurrentThreadExecutor` (`current_thread_executor.py`) | per executor: queue, `_broken`, `_old_executor`, a condition variable; per item: its future | `run_until_future`, its done callback, `submit`, `_WorkItem.run` | three kinds of thread, one lock per executor, a walk over several locks while executors quit | no work lost, duplicated or left behind; no lost wake-up; the walk is as good as one atomic step |
| `AsyncToSync` / `SyncToAsync` (`sync.py`) | context variables (`executors.current`, `deadlock_context`), thread-locals (`main_event_loop`, `task_context`), `loop_thread_executors`, the single thread | both `__call__`, `main_wrap`, `thread_handler` | any nesting of calls, tasks, loops and threads; deadlock; stale thread-locals; cancellation | thread-sensitive code in one thread, one at a time, and only above its callers; the loop of the call stack; calls return |
| `ThreadSensitiveContext` (`sync.py`) | a context variable, a weak table of one-thread pools | enter, exit, pool lookup | exit joins a worker that may wait for this loop or its default pool; tasks left behind call on | one thread per context; a joined pool gets no work; leaving ends |
| `AsyncSingleThreadContext` (`sync.py`) | a context variable, a weak table of one-thread pools for loops | enter, exit, pool lookup | exit blocks; a forced loop queues behind its caller's | loops of a context in one thread |
| `_restore_context`, `Local` (`sync.py`, `local.py`) | context variables, thread-tagged storage | copy, re-home, get/set/delete | copies taken on one thread and restored on another, result set before the copy | what callee sets, caller sees; nothing leaks into unrelated threads |
| `StatelessServer` (`server.py`) | the table of instances with task and `last_used` | get-or-create, eviction, checker, end of `arun` | the checker's copy of the table, an override that awaits, ended instances not yet reaped | bounded table, no orphan, errors found, server survives |
| `ApplicationCommunicator` (`testing.py`) | the application's task, two queues | `wait`, `stop`, `send_input`, `receive_output`, `receive_nothing` | timer, message, end of the application and outside cancellation all race | no lost message, no application left running, errors returned |
| `timeout` (`timeout.py`) | `_task`, `_cancelled`, the timer's handle | enter, exit, `_cancel_task` | timer against exit and other cancellations, nesting | fires only inside its block |
| `WsgiToAsgi` (`wsgi.py`) | response started, content length, body spool | request loop, `start_response`, `run_wsgi_app` | the protocol of `start_response` during iteration, sends from a thread | a well-formed response, never longer than announced |
| `compatibility.py` | none | classify and wrap a callable | none | agrees with a reference definition |
| `typing.py`, `specs/`, `docs/` | none | none | none | not modelled: declarations and text |

How they interact: `AsyncToSync` makes a `CurrentThreadExecutor`, blocks its
thread pumping it, and hands a coroutine to a loop; `SyncToAsync`, called in that
coroutine or below it, submits the sync function to that executor and awaits its
future. `WsgiToAsgi` runs the WSGI application through `SyncToAsync` and sends
through `AsyncToSync`. `ApplicationCommunicator` waits in `timeout`; the server and the
communicator share `guarantee_single_callable` with nothing else.

`PROJECT.json` lists the hazards at their lines, with the properties that cover
them or the reason why none does.

## 2. The models

**`CurrentThreadExecutor`** has one action per lock region. `pc` says where the
call that owns an executor is: "ready" is between lock regions, "waiting" parked in
the condition variable, "taken" holding an item it has not started, "running" in
user code. `submit()` is `SubmitBegin`, then one `SubmitWalk` per executor that has
quit, then `SubmitAccept` or `SubmitRefuse`. The future's result and its callback are two
steps (`FutureDone`, `DoneCallback`), so everything may happen in between. Calls of a thread
nest (`outer`, `innermost`): the code an item runs may itself block in a new executor.
`Create` allows any older executor as `_old_executor`: contexts are copied freely
between threads and tasks, so nothing stronger is assumed of the stack.

**`WorkHandoff`** is the abstract specification: mailboxes that are open, closed,
gone; a post is one step that goes to the closest open mailbox or is refused.
`ImplementsHandoff` is the refinement; the walk maps to stuttering.

**`AsyncBridge`** composes both directions. A program is a tree of frames; a
frame records its kind, the call that made it (`via`), thread, loop, executor
and its two context variables. What user code does next is nondeterministic, so
TLC explores every program of up to `MaxFrames` frames. Posting is one atomic
step there, and each queue is served in call order: what `CurrentThreadExecutor`
is shown to amount to. `CallAsync`/`ReturnAsync` are `AsyncToSync.__call__` before and
after the wait; `CallSensitive`, `CallInsensitive`, `StartSync` and `ReturnSync` are
`SyncToAsync.__call__` and `thread_handler`; the rest is user code and asyncio. In an
`AsyncSingleThreadContext` (`one`, chosen in `Init` from `InContext`) a loop that `CallAsync` makes waits
for the context's one thread, which `StartLoop` gives to it once the loops before it have ended.

**`Cancellation`** is the same bridge seen by a cancelled task, with the finer steps that
matter there. A call of `SyncToAsync` has a function (`fn`), the future of the work (`fut`)
and the await it is at (`pc`: the shield, the coroutine it cancelled, the work again); a
coroutine of `AsyncToSync` is a task that notes on which call's `task_context` it put itself.
`StartFn` sets the thread-local, `CallAsync` reads it, `CancelTask`, `GiveUp`, `TaskDone` and
`CancelledAgain` are the branches of the `except` clause. `Deepest` is asyncio's rule that a
cancellation goes down the chain of awaited tasks. User code may catch what is thrown
(`kept`), spawn tasks, and force new loops.

**`ContextHandoff`** follows one flow of control through its calls: a stack of frames, each
with a thread and a context of one plain variable and one attribute of a `Local`. `Restored` is
`_restore_context`, used at its four places: the start of `main_wrap`, the `finally` of
`AsyncToSync.__call__`, `run_child`, and the `finally` of `SyncToAsync.__call__`. `Finish`
and `CopyBack` are the two steps of `main_wrap`'s end, between which a caller in another thread may
already read `context[0]`. Beside the flow, unrelated threads are started with a copy of the
context, as free-threaded builds do, and set the attribute and call `async_to_sync` themselves; `how`
notes where the data in such a thread's context is from. `Recycled` says whether the idents of threads that
ended are given again, as operating systems do (the refinement is proved either way); if not, `begun` keeps the idents that were given.

**`CallContext`** is the abstract specification: one context that moves with the flow, and a
context of the user's (`context=`) that calls made with it run in instead. `Lose` states what
that early read may cost: all that a posted call wrote, never a part.

**`ThreadSensitiveContext`** has tasks of one loop that enter, call, spawn and leave. `pool` is
`context_to_thread_executor`, `join` what an exit waits for and where, so that joining in
the loop or in its default pool can be told from the thread the code makes. The functions of the calls
may need the loop, and below it a thread of the default pool, before they return.

**`WsgiToAsgi`** has a coroutine (`co`) and a thread (`pc`), with the message between them
(`flight`). Of headers it keeps the content-length, of bodies their size. **`HttpResponse`** is
the abstract specification: one start, bodies within the announced length, one end.

**`StatelessServer`** runs in one loop, so an action is the code between two awaits.
`checker = "scanning"` keeps the loop busy (`LoopFree`); "hook" is the await of an overridden
`application_exception()`. Whether the override awaits is chosen in `Init` (`hook`).
Instances are numbered as they are created, so the table is a set and a dict's order of
insertion is the order of the numbers; `Turn` is where a pass has come to.

**`Communicator`** has the test task, the application task, the timer and outside
cancellations. `wake` is asyncio's rule in one variable: a task to be resumed
with a value resumes with `CancelledError` if cancelled before; a task that waits
for the application's task passes its cancellation on to it. `timeout()` appears as
`Suspend` (enter), `TimerFires` and `Leave` (exit).

How they fit: `AsyncBridge` and `Cancellation` rest on what `CurrentThreadExecutor` is shown to
implement; `Cancellation` leaves the choice of executor to `AsyncBridge` and takes
its outcome; `ContextHandoff` takes threads and loops as given by both, and any free thread
for a new loop; `WsgiToAsgi` uses the outcome of `Cancellation` in `CancelSend` and
`CutOff`.

## 3. The runs

| Run | Instance | Shows |
|---|---|---|
| `cte_safety` | 3 executors, 2 items, 3 threads, symmetric | types, `NoStrandedWork`, `NoLostWakeup`, `PassesOnlyQuitExecutors`, and the refinement of `WorkHandoff` |
| `cte_live` | 2 executors, 2 items, 2 threads | `AcceptedWorkRuns`, `CallerReleased` under fairness |
| `bridge_safety` | 6 frames, everything but fresh contexts, in a single-thread context or not | `SensitiveAffinity`, `CallNesting`, `SyncNeverRefused`, `LoopOfCallStack`, `DeadlockErrorIsReal` |
| `bridge_completes` | 5 frames, everything, in a single-thread context or not | `Completion` |
| `cancel` | 2 calls, 4 tasks, 5 in all with the cancellations | `CancelsOwn`, `CancelReported`, `CancelReaches`, `CancelEnds` |
| `context` | 2 values, 4 frames and threads, 3 idents, each given once, symmetric | `InheritedUnseen` and the refinement of `CallContext` |
| `tsc` | 3 tasks, 3 calls, a default pool of 1 | `OneThread`, `LeftIdle`, `ExitEnds` |
| `wsgi` | lengths 0, 1, 3, outputs of 0, 1, 2, 7 messages | `ReturnsComplete`, `InstanceEnds` and the refinement of `HttpResponse` |
| `server` | 3 scopes, 4 instances, `max_applications` 1 | `AtMostOneOver`, `OneLivePerScope`, `ServerSurvives`, `NoErrorDropped`, `DoneForgotten` |
| `comm` | 3 messages, 2 cancellations | `NoOutputLost`, `AppStopped`, `OperationsEnd`; its types say that no timer outlives its operation |

Why the bounds are enough. Three executors give a stack whose top and middle have
quit while the bottom runs, and a third thread submits while two others are
blocked; two items make order and double service visible. Six frames hold a
sync program that calls async code that calls sync code that does it again, with a task beside
it: every pair of executors, loops and threads that the choice in `SyncToAsync` tells
apart. Two calls and four tasks give a call whose function makes two coroutines, the first of which
calls back into its thread, with a task of the user's beside; five allows one cancellation more than
that, or two of one call. Four frames are sync, async, sync, async, so that `_restore_context` is
used at all its places above one another; three idents let a thread, or a
loop, that ended and one that is left hand data down to a third. Three tasks in a context are the one that leaves, one left behind
and one that enters anew; the default pool of one is full as soon as one thread is taken.
Lengths 0, 1, 3 with outputs 0, 1, 2 reach the announced length exactly, by one too many, and never.
Four instances of three scopes are needed to evict one and see its scope
come back. `MaxTime` 1 allows equal and different `last_used`, so the eviction takes the first
entry or another one. Three messages fill a queue while one is being delivered, and two
outside cancellations can hit one operation twice.

Deadlock. It is checked in `context`. `CHECK_DEADLOCK FALSE` is set where the program really stops: when
all executors have exited and all items are spent, when all tasks and calls have ended, when a
response is over, when the server has ended, and in `comm` when
`receive_output(timeout=None)` waits for an application that has ended. In the bridge a
program that runs a loop by hand in sync code, or puts a task in a fresh
context, can hang for good. So does one that forces a new loop below a loop of its
`AsyncSingleThreadContext`: the new loop is queued behind the worker that waits for it
(`sync.py:314`). `Completion` excludes those three, and only those.

Two runs end in a violation, of what the code says of itself:

| Run | Says | Does |
|---|---|---|
| `cancel_orphan` | the parent task knows which task to cancel (`sync.py:259`) | not for the second `async_to_sync` call of a function, once the first ran more thread-sensitive code in its thread: the coroutine goes on uncancelled |
| `comm_wait` | `wait()` "returns any exceptions" (`testing.py:53`) | none if the timer fires between the exception and the resumption |

Other statements about the code turned out false in general; the passing runs check exactly when they
hold, and the condition in the property names the exception. The unconditional form is kept beside
it where it has a name (`SameThreadAlways`, `LoopAlways`, `ServerSurvivesAlways`,
`OneLivePerScopeAlways`, `SeesOnlyOwn`).

| Said | Where it fails | Property that says when it holds |
|---|---|---|
| thread-sensitive code shares one thread (`README.rst:166`) | below `thread_sensitive=False` code, or a loop run by hand | `SensitiveAffinity` |
| "If the call stack contains an async loop, the code runs there" (`sync.py:172`) | after a nested loop left its trace in the threadlocal (`sync.py:568`) | `LoopOfCallStack` |
| a call that would deadlock is detected (`CHANGELOG.txt:259`) | once any `sync_to_async` call below has returned: `sync.py:547` clears the mark | `Completion` excludes the loop by hand it takes |
| at most `max_applications` instances (`server.py:32`, `tests/test_server.py:169`) | there may be one more: `>` at `server.py:100` | `AtMostOneOver` |
| entries that vanish while an exception is handled are fine (`server.py:160`) | an evicted instance is found cancelled by the pass under way, and `exception()` raises | `ServerSurvives`, `OneLivePerScope` |
| data inherited by an unrelated thread "is never re-homed and so stays isolated" (`local.py:21`) | once that thread calls `async_to_sync` itself: `sync.py:46` re-homes all it has; or if it is given the ident of the thread that owned the data (`local.py:50`), which `context` excludes: with `Recycled = TRUE` TLC violates `InheritedUnseen` | `InheritedUnseen` |
| what a coroutine sets, its caller sees (`tests/test_sync_contextvars.py:127`) | not when the caller wakes between `sync.py:376` and `380` | `ImplementsCallContext`, with `Lose` |
| a cancelled call cancels its own work | the list of a call whose function has returned stays in the thread-local and takes in later coroutines | `CancelsOwn` |
| a WSGI body is cut to its content-length | while the last call of `start_response` failed at its own (`wsgi.py:137`) | `ImplementsHttpResponse`, but for `garbled` |

`CallNesting` and `SyncNeverRefused` are about programs without tasks in a fresh context: such a task
has no executor in its context and calls that of its loop, whoever its caller is, which may have quit
or belong to a thread that runs something else. `bridge_safety` leaves those tasks out;
`bridge_completes` has them.

Fairness. Weak fairness only, of steps that a thread or a loop takes by itself: a pump that
can take a step, a submission under way, a loop that has a result to set, a call that has something to
resume for, a worker thread, a join, the one thread of a WSGI request, timers, an override that awaits,
the checker's sleep, the resumption of a task. The properties about completion also assume that
user code returns, that the coroutines waited for finish, and that the server's `send` does.
Nothing is assumed of when anybody calls, submits, leaves or cancels, nor that an application ends
unless it was cancelled and does not suppress that.

## 4. The proofs

`CurrentThreadExecutorProofs` proves, for any sets of executors, items and threads,
from `NoneAssumption` alone (None is not one of them):

- `TypeCorrect`: `Spec => []TypeOK`. Besides types, an executor holds an item exactly while
  it is "taken" or "running", and a walk always has a place.
- `NothingStranded`: `Spec => []NoStrandedWork`. Inductive with the types: an
  executor is closed before its pump can leave, and a closed one accepts nothing.
- `NoWakeupLost`: `Spec => []NoLostWakeup`. Inductive with the types: each
  of the two events a parked pump waits for unparks it in the same step.
- `OnlyQuitPassed`: `Spec => []PassesOnlyQuitExecutors`. The set of executors passed over is
  the witness; it grows by one in each walk step and stays closed because a pumping executor
  never reopens. That needs `BrokenPumps` (an executor that is broken has started pumping, so
  `StartPumping` cannot reset it) and `StackKept` (`_old_executor` never changes once made).
- `Implements`: `Spec => ImplementsHandoff`, the refinement, one step for each action. The executors passed
  over are the closed mailboxes that `Leads` asks for. It needs `Grounded` (a walk is at an executor that was
  created) and `Working` (no two pumps run one item), besides all of the above.

`AsyncBridgeProofs` proves, for programs of any number of frames (`MaxFrames`), any `Outers`, `Usage`
and `InContext`, from `BridgeAssumption`, all that `bridge_safety` checks:

- `TypeCorrect`: `Spec => []TypeOK`. Inductive with `Structure`: a frame keeps what it is born with
  (`Tree`), has the states of its kind (`Stations`), is blocked while, and only while, one call of it
  is pending (`Waits`), and work waits where it will be served (`Served`).
- `DeadlockReal`: `Spec => []DeadlockErrorIsReal`. `deadlock_context` is copied from caller to callee
  and back, so the invariant (`Justified`) follows each copy: a marked frame is below the single thread,
  or a coroutine that waits for a call it gave to that thread.
- `Affinity`: `Spec => []SensitiveAffinity`. Its invariant fixes the thread (`HomeThread`) and says
  that the single thread serves async programs only (`OneThread`).
- `CallsNest`: `Spec => []CallNesting`. It needs to know where executors come from: `Contexts` says that the
  `executors.current` of a frame is that of a call the frame comes from, which is where putting it back after
  each call matters; `Nesting` that work is given to executors of calls it comes from and that each thread is a
  chain of calls.
- `NeverRefused`: `Spec => []SyncNeverRefused`. The executor the outermost function pumps has a loop of
  its own, and all that lives has it, or a later one whose stack leads to it, in its context (`Sheltered`); it
  does not end before the coroutines of its loop (`LoopsOpen`). So `submit()`, walking up, finds it.
- `LoopKept`: `Spec => []LoopOfCallStack`. Until a loop is forced there is one loop alive
  (`OneLoopLives`), and it is the one noted in every thread that runs sync code (`LoopNoted`), so what an
  earlier call left in the thread-local does no harm.

The ancestors of a frame and the walk of `submit()` are recursive functions on the numbers of the
frames. That they are defined is proved by a least counterexample (`Recursion`, `LineageUnfolds`,
`RunningUnfolds`), and so is what they compute: the library's induction theorems are not used.

`CancellationProofs` proves, for any number of tasks, calls and cancellations, from `CancellationAssumption`:

- `TypeCorrect`: `Spec => []TypeOK`, with at most one task on a list. Two on one list are both
  waited for in one thread, and the one that joined first did so before the function of the other
  began (`Joined`), which is newer than the list.
- `OwnWorkCancelled`: `Spec => []CancelsOwn`. A task joins the list of the call that set the thread-local last.
  If that is not the call it was made below, that call was pumped inside and has returned (`Latest`,
  `Stacked`), and stays so (`Listed`).
- `CancellationReported`: `Spec => []CancelReported`. Failures go up, from a task to the function that made it
  (`Failing`) and from a call to its task (`Raising`), unless caught; cancellations go down: what a call
  cancelled was hit (`Sent`), and keeps the mark, catches, fails, or passed it on (`Hit`). If a
  call returned a value and nobody caught anything, all below it returned values (`BelowValued`, the first
  task without one fails), so none was hit (`BelowUnhit`, the last one hit fails).
- `RunningTaskReached`: `Spec => CancelReaches`. A task joins the list of a call whose function has started
  (`Joining`), so if no other code ran in the thread, it joined the list of the call that waits for
  it (`BlockedListed`), and that call finds it there.

All four follow from one inductive invariant: `Structure`, how tasks, calls and threads hang together, and
`Conduct`, what becomes of cancellations; the last needs `Joining` besides. It holds the case that makes `CancelsOwn` except some
calls: a call that cancelled other code's task waits for it with its own function done, and then
ends as cancelled, so it never returns a value. `Deepest` and `Above` are recursive
functions; as in `AsyncBridgeProofs`, that they are defined is proved first.

`ContextHandoffProofs` proves, for any values, any `MaxFrames` and any idents, from
`HandoffAssumption`:

- `TypeCorrect`: `Spec => []TypeOK`, which says that the storage of a `Local` found with data in a
  frame's context is tagged with the frame's thread.
- `Implements`: `Spec => ImplementsCallContext`, the whole refinement. The inductive
  invariant is `TypeOK` with `Shape`: of each frame and its caller (`Linked`), the box holds the
  caller's context until it is copied, and a plain variable that is unset is
  unset in the caller. Without the first, an early return could read anything; without the second,
  `_restore_context`, which cannot unset, would bring an old value back. One lemma per action shows
  that it keeps the invariant and is a step of `CallContext` or a stutter.
- `Isolated`: `ASSUME ~Recycled PROVE Spec => []InheritedUnseen`: what is left of the
  claim of `local.py:21`. The invariant is `IsolationInv`: every thread there is, and every owner
  of data that an unrelated thread has a copy of, has begun, so its ident is not given to a new
  thread. That the flow brings in no other tag rests on the types (a frame's storage is tagged with its
  thread) and on where the threads of new frames come from (`FramesStayKnown`).

`ThreadSensitiveContextProofs` proves, for any tasks, any `MaxCalls` and `Slots`, from
`ContextAssumption`:

- `TypeCorrect`: `Spec => []TypeOK`, with at most one function at a time in a pool.
- `ContextHasOneThread`: `Spec => []OneThread`.
- `ExitLeavesNothing`: `Spec => []LeftIdle`.

All three follow from one inductive invariant: `PoolsApart` (contexts have different pools, and one
being joined is nobody's entry) and `EntryOfCalls` (while a context is entered,
its table entry is the pool of its calls).

`CommunicatorProofs` proves, for any messages and cancellations, from `CommunicatorAssumption`:

- `TypeCorrect`: `Spec => []TypeOK`, no timer outlives its operation.
- `OutputKept`: `Spec => []NoOutputLost`.
- `ApplicationStopped`: `Spec => []AppStopped`: an operation ends with its time up, or with the
  application stopped, only when the application is done.

The inductive invariant adds what a wake-up promises: a test task woken with a value finds one in the
queue (`ValueIsThere`: nobody else takes it), and one that waits for the application is woken only
when that is done (`WokenWhenDone`: a cancellation before is passed on).

`StatelessServerProofs` proves, for any scopes, number of instances, `max_applications` and clock, from
`ServerAssumption`, all that `server` checks but its liveness:

- `TypeCorrect`: `Spec => []TypeOK`, with one entry per scope.
- `Bounded`: `Spec => []AtMostOneOver`. The table has at most one entry too many, and then an oldest one
  (`OldestExists`), which is reclaimed before the new one is made (`RoomMade`).
- `OneLive`: `Spec => []OneLivePerScope`; `Survives`: `Spec => []ServerSurvives`;
  `ErrorsReported`: `Spec => NoErrorDropped`.

The last three need, where `application_exception()` does not await, that the checker's list is part of
the table (`PassAtomic`), that a live application is in the table (`LiveInTable`), and that
what is in the table was not told to stop (`NoneCancelled`).

`WsgiToAsgiProofs` proves, for any lengths and sizes, from `WsgiAssumption` (with an output, every
shorter one is a size, so that a cut output is one):

- `TypeCorrect`: `Spec => []TypeOK`, the bytes counted never exceed the announced length.
- `WholeResponse`: `Spec => []ReturnsComplete`.
- `ResponseImplemented`: `Spec => ImplementsHttpResponse`, the refinement of `HttpResponse`: every step
  sends the next message of a response, or none.

The invariant of the first two: nothing is counted before the start, and what was cut fits what is left (`CutToLength`);
the final message is the last one, and its return is the thread's (`FinalLast`); no thread before
the request is whole (`NotStarted`). The refinement adds `Answer`: the message in flight is one that may
come next (`Posted`), the place of the thread tells what was sent (`Begun`), the start message is that
of the headers (`Headed`), nothing follows the final one (`Unfinished`), and `bytes_sent` is what
was sent but for the output at hand (`Counted`). That `Total` grows with each message (`TotalGrows`) is
proved by a least counterexample. `SeenStays` is where the order of the code counts: `start_response` is
refused once a message was sent, so the headers it changes are never those of a response under way.

What stays with TLC: liveness (`AcceptedWorkRuns`, `CallerReleased`, `Completion`,
`CancelEnds`, `ExitEnds`, `InstanceEnds`, `DoneForgotten`, `OperationsEnd`), since the prover does
no reasoning about fairness and ENABLED. Every other property of the passing runs is a theorem.

## 5. Not modelled

Entering or leaving an `AsyncSingleThreadContext` in the middle of a program, and its blocking
exit; `Local(thread_critical=True)`; nested `timeout` blocks;
interrupts (`KeyboardInterrupt`) in a pump, which may come between any two bytecodes;
forked processes (the pid check of `AsyncToSync`); `exc_info` passed between threads;
executors passed in by the user; a loop that closes after a call was posted to it; context values
whose comparison raises; the size of asyncio's default pool but in `tsc`; garbage collection of
the weak tables; `time` beyond the order of `last_used`; the contents of messages and headers; negative
content-lengths; the WSGI request body. In
`StatelessServer`, exceptions of `handle()` itself. `compatibility.py` and `typing.py` keep no state.

## 6. Plan

Done: all modules above and the proofs of eight of them. Next:

1. `AsyncSingleThreadContext`: entering and leaving anywhere, and the blocking exit.
2. `Timeout`: nested blocks and outside cancellations. `Local(thread_critical=True)` as a second
   variable of `ContextHandoff`. `Compatibility`: the classification against a reference definition.
