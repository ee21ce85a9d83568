----------------------------- MODULE AsyncBridge -----------------------------
(***************************************************************************)
(* AsyncToSync and SyncToAsync of src/asgiref/sync.py, composed.            *)
(*                                                                         *)
(* A program is a tree of frames that grows as it runs: sync functions, on  *)
(* threads, and coroutines, in event loops, that call one another through   *)
(* async_to_sync and sync_to_async, create tasks, or run a loop of their    *)
(* own.  What user code does next is left open, so the model explores every *)
(* program of at most MaxFrames frames of the shapes Usage allows.          *)
(*                                                                         *)
(* The number of a frame is the moment of the call that made it: a queue of *)
(* work, first come first served, serves its lowest number first.  Posting  *)
(* to a CurrentThreadExecutor is one step here; CurrentThreadExecutor shows *)
(* that the code's walk over several locks amounts to that.  An executor is *)
(* named after the coroutine its AsyncToSync call waits for.                *)
(*                                                                         *)
(* The outermost program may run in an AsyncSingleThreadContext, from its   *)
(* first step to its last.                                                  *)
(*                                                                         *)
(* Left to other models: cancellation, ThreadSensitiveContext, contexts     *)
(* passed in by the user.                                                   *)
(***************************************************************************)
EXTENDS Naturals, Sequences, FiniteSets

CONSTANTS
    MaxFrames,  \* bound on the frames of a program
    Outers,     \* what the outermost program may be: "sync", "async"
    Usage,      \* what user code may do, among the Vias below
    InContext   \* whether it may run in an AsyncSingleThreadContext

\* How a frame came to be: the outermost program, async_to_sync with and
\* without force_new_loop, sync_to_async with and without thread_sensitive,
\* create_task in the current and in a fresh context, asyncio.run.
Vias == {"outer", "a2s", "force", "s2a", "pool", "task", "fresh", "run"}

ASSUME BridgeAssumption ==
    /\ MaxFrames \in Nat \ {0}
    /\ Outers \subseteq {"sync", "async"}
    /\ Usage \subseteq Vias \ {"outer"}
    /\ InContext \subseteq BOOLEAN

VARIABLES
    frame,  \* the frames created so far
    tl      \* SyncToAsync.threadlocal.main_event_loop, per thread

vars == <<frame, tl>>

None == 0
Main == 0                   \* the thread the program starts in
Single == MaxFrames + 1     \* the thread of single_thread_executor, and its name
Threads == 0 .. MaxFrames + 1
LoopWorker == MaxFrames + 2 \* the thread of the context's loops

States ==
    {"queued", "waiting", "running", "blocked", "joining", "returned", "done",
     "quit", "ownthread", "deadlock"}

Refusals == {"quit", "ownthread", "deadlock"}

FrameType ==
    [kind : {"sync", "async"}, via : Vias, parent : 0 .. MaxFrames,
     loop : 0 .. MaxFrames,         \* async: the loop, named after its root
     thread : Threads,              \* sync: the thread, once it has started
     exec : 0 .. MaxFrames + 1,     \* sync: the executor it was given to
     old : 0 .. MaxFrames,          \* a2s: _old_executor of its executor
     cur : 0 .. MaxFrames,          \* context: AsyncToSync.executors.current
     dl : BOOLEAN,                  \* context: deadlock_context
     one : BOOLEAN,                 \* context: async_single_thread_context
     state : States]

Frames == DOMAIN frame
New == Len(frame) + 1
Live(f) == frame[f].state \notin {"done"} \union Refusals

Calls(f) ==
    {c \in Frames : frame[c].parent = f /\ frame[c].via \notin {"task", "fresh"}}

\* Besides the types: a frame is blocked in one call and only while it lives,
\* and the executor that queued work waits in has not returned to its caller.
TypeOK ==
    /\ frame \in Seq(FrameType) /\ Len(frame) \in 1 .. MaxFrames
    /\ tl \in [Threads -> 0 .. MaxFrames]
    /\ \A f \in Frames :
          Cardinality({c \in Calls(f) : Live(c)}) = IF frame[f].state = "blocked" THEN 1 ELSE 0
    /\ \A g \in Frames : frame[g].state = "queued" /\ frame[g].exec # Single
          => Live(frame[g].exec)

\* A sync frame that occupies its thread, running or blocked in a call.
OnThread(t) ==
    {f \in Frames : /\ frame[f].kind = "sync" /\ frame[f].thread = t
                    /\ frame[f].state \in {"running", "blocked"}}

\* It is the innermost sync frame of its thread.
Innermost(f) == \A g \in OnThread(frame[f].thread) : g <= f

Blank ==
    [kind |-> "sync", via |-> "outer", parent |-> None, loop |-> None,
     thread |-> Main, exec |-> None, old |-> None, cur |-> None, dl |-> FALSE,
     one |-> FALSE, state |-> "running"]

Init ==
    /\ \E k \in Outers, one \in InContext :
          frame = <<[Blank EXCEPT !.kind = k, !.loop = IF k = "async" THEN 1 ELSE None,
                                  !.one = one]>>
    /\ tl = [t \in Threads |-> None]

-----------------------------------------------------------------------------
(* AsyncToSync                                                              *)

\* The loop whose asyncio.run has not finished.
LoopOpen(l) == frame[l].state \notin {"returned", "done"}

\* main_event_loop: the threadlocal of this thread, unless a new loop is
\* forced; call_soon_threadsafe raises if that loop is closed.
MainLoop(f, via) ==
    LET l == tl[frame[f].thread] IN
    IF via # "force" /\ l # None /\ LoopOpen(l) THEN l ELSE None

\* AsyncToSync.__call__ up to run_until_future: a new executor over the one in
\* the context, and the coroutine in the main loop or in a loop of its own,
\* which in an AsyncSingleThreadContext waits for the context's thread.
CallAsync(f, via) ==
    /\ frame[f].kind = "sync" /\ frame[f].state = "running"
    /\ via \in {"a2s", "force"} \intersect Usage
    /\ New <= MaxFrames
    /\ LET main == MainLoop(f, via)
           child == [Blank EXCEPT
                        !.kind = "async", !.via = via, !.parent = f,
                        !.loop = IF main = None THEN New ELSE main,
                        !.old = frame[f].cur, !.cur = New, !.dl = frame[f].dl,
                        !.one = frame[f].one,
                        !.state = IF main = None /\ frame[f].one THEN "waiting" ELSE @]
       IN frame' = Append([frame EXCEPT ![f].state = "blocked", ![f].cur = New], child)
    /\ UNCHANGED tl

\* The loop is one of the AsyncSingleThreadContext.
OfContext(l) == frame[l].via \in {"a2s", "force"} /\ frame[l].loop = l /\ frame[l].one

\* The context's pool of one thread runs it, after those it was given before.
StartLoop(c) ==
    /\ frame[c].state = "waiting"
    /\ \A d \in 1 .. c - 1 : OfContext(d) => ~ LoopOpen(d)
    /\ frame' = [frame EXCEPT ![c].state = "running"]
    /\ UNCHANGED tl

Queued(e) == {g \in Frames : frame[g].exec = e /\ frame[g].state = "queued"}

\* run_until_future is over, the queue drained: the context comes back from
\* the coroutine and executors.current is put back.  In the main loop, the
\* result is set before main_wrap takes its copy of the context, which this
\* thread may then miss.
ReturnAsync(f, c) ==
    /\ frame[c].via \in {"a2s", "force"} /\ frame[c].parent = f
    /\ frame[c].state = "returned"
    /\ Queued(c) = {} /\ Innermost(f)
    /\ \E dl \in {frame[c].dl} \union (IF frame[c].loop = c THEN {} ELSE {frame[f].dl}) :
          frame' = [frame EXCEPT ![c].state = "done", ![f].state = "running",
                                 ![f].dl = dl, ![f].cur = frame[c].old]
    /\ UNCHANGED tl

-----------------------------------------------------------------------------
(* SyncToAsync                                                              *)

\* loop_thread_executors[loop]: loops made by AsyncToSync have one.
LoopThreadExecutor(l) == IF frame[l].via \in {"a2s", "force"} THEN l ELSE None

\* MUTANT: the executors of the calling sync frames are not looked for.
ChooseSingle(f) == IF frame[f].dl THEN None ELSE Single

\* The executor of a thread_sensitive call; None is the detected deadlock.
ChooseExecutor(f) ==
    IF frame[f].cur # None THEN frame[f].cur
    ELSE IF LoopThreadExecutor(frame[f].loop) # None THEN LoopThreadExecutor(frame[f].loop)
    ELSE IF frame[f].dl THEN None
    ELSE Single

\* The thread an event loop runs in.
LoopThread(l) ==
    IF frame[l].via = "run" THEN frame[frame[l].parent].thread
    ELSE IF frame[l].via = "outer" THEN Main
    ELSE IF frame[l].one THEN LoopWorker
    ELSE l

\* CurrentThreadExecutor._broken: the future the executor waits for is done.
Broken(e) == frame[e].state \in {"returned", "done"}

\* MUTANT: submit() refuses at the first executor that has quit.
ClosestFirst(e) == IF Broken(e) THEN None ELSE e

\* MUTANT: submit() appends without looking whether the executor has quit.
ClosestAny(e) == e

StillRunning[e \in 0 .. Len(frame)] ==
    IF e = None THEN None ELSE IF Broken(e) THEN StillRunning[frame[e].old] ELSE e

\* The closest executor still running, up the stack from e.
Closest(e) == StillRunning[e]

\* The work item of a call from f, given to executor e in the state s.
SyncCall(f, via, e, s, dl) ==
    [Blank EXCEPT !.via = via, !.parent = f, !.exec = e, !.cur = frame[f].cur,
                  !.dl = dl, !.one = frame[f].one, !.state = s]

\* SyncToAsync.__call__ up to the await, thread_sensitive; submit() included.
CallSensitive(f) ==
    /\ frame[f].kind = "async" /\ frame[f].state = "running"
    /\ "s2a" \in Usage
    /\ New <= MaxFrames
    /\ LET e == ChooseExecutor(f)
           own == e \notin {None, Single}
                  /\ LoopThread(frame[f].loop) = frame[frame[e].parent].thread
           refusal == CASE e = None -> "deadlock"
                        [] own -> "ownthread"
                        [] OTHER -> "quit"
           at == IF e = None \/ own THEN None ELSE IF e = Single THEN Single ELSE Closest(e)
           dl == IF e = Single THEN TRUE ELSE frame[f].dl
       IN IF at = None
          THEN frame' = Append(frame, SyncCall(f, "s2a", None, refusal, dl))
          ELSE frame' = Append([frame EXCEPT ![f].state = "blocked", ![f].dl = dl],
                               SyncCall(f, "s2a", at, "queued", dl))
    /\ UNCHANGED tl

\* thread_sensitive=False: a thread of the loop's default executor.
CallInsensitive(f) ==
    /\ frame[f].kind = "async" /\ frame[f].state = "running"
    /\ "pool" \in Usage
    /\ New <= MaxFrames
    /\ frame' = Append([frame EXCEPT ![f].state = "blocked"],
                       SyncCall(f, "pool", New, "queued", frame[f].dl))
    /\ UNCHANGED tl

\* MUTANT: a blocked thread pumps every executor of its thread, not the last.
ServesAll(t, e) ==
    IF e = Single THEN t = Single /\ OnThread(Single) = {}
    ELSE IF frame[e].via = "pool" THEN t = e
    ELSE t = frame[frame[e].parent].thread

\* The thread serves the executor: the single thread is free, or the thread's
\* innermost frame is blocked in the AsyncToSync call that owns the executor.
Serves(t, e) ==
    IF e = Single THEN t = Single /\ OnThread(Single) = {}
    ELSE IF frame[e].via = "pool" THEN t = e
    ELSE t = frame[frame[e].parent].thread /\ Innermost(frame[e].parent)

\* MUTANT: thread_handler does not set the threadlocal.
StartSyncBare(t, g) ==
    /\ frame[g].state = "queued"
    /\ \A h \in Queued(frame[g].exec) : g <= h
    /\ Serves(t, frame[g].exec)
    /\ frame' = [frame EXCEPT ![g].state = "running", ![g].thread = t]
    /\ UNCHANGED tl

\* thread_handler: the thread takes the work and notes the caller's loop.
StartSync(t, g) ==
    /\ frame[g].state = "queued"
    /\ \A h \in Queued(frame[g].exec) : g <= h
    /\ Serves(t, frame[g].exec)
    /\ frame' = [frame EXCEPT ![g].state = "running", ![g].thread = t]
    /\ tl' = [tl EXCEPT ![t] = frame[frame[g].parent].loop]

\* MUTANT: deadlock_context is not cleared.
ReturnSyncMarked(f, g) ==
    /\ frame[g].via \in {"s2a", "pool"} /\ frame[g].parent = f
    /\ frame[g].state = "returned"
    /\ frame' = [frame EXCEPT ![g].state = "done", ![f].state = "running",
                              ![f].cur = frame[g].cur]
    /\ UNCHANGED tl

\* SyncToAsync.__call__ after the await: the context comes back, and
\* deadlock_context is cleared whatever it was.
ReturnSync(f, g) ==
    /\ frame[g].via \in {"s2a", "pool"} /\ frame[g].parent = f
    /\ frame[g].state = "returned"
    /\ frame' = [frame EXCEPT ![g].state = "done", ![f].state = "running",
                              ![f].cur = frame[g].cur, ![f].dl = FALSE]
    /\ UNCHANGED tl

-----------------------------------------------------------------------------
(* User code, and asyncio as the code uses it.                              *)

\* create_task: in a copy of the current context, or in a fresh one.
CreateTask(f, via) ==
    /\ frame[f].kind = "async" /\ frame[f].state = "running"
    /\ via \in {"task", "fresh"} \intersect Usage
    /\ New <= MaxFrames
    /\ frame' = Append(frame,
          [Blank EXCEPT !.kind = "async", !.via = via, !.parent = f,
                        !.loop = frame[f].loop,
                        !.cur = IF via = "task" THEN frame[f].cur ELSE None,
                        !.dl = via = "task" /\ frame[f].dl,
                        !.one = via = "task" /\ frame[f].one])
    /\ UNCHANGED tl

Tasks(f) == {d \in Frames : frame[d].via \in {"task", "fresh"} /\ frame[d].parent = f}

\* The coroutine awaits the tasks it created.
Join(f) ==
    /\ frame[f].kind = "async" /\ frame[f].state = "running"
    /\ \E d \in Tasks(f) : Live(d)
    /\ frame' = [frame EXCEPT ![f].state = "joining"]
    /\ UNCHANGED tl

Joined(f) ==
    /\ frame[f].state = "joining"
    /\ \A d \in Tasks(f) : ~ Live(d)
    /\ frame' = [frame EXCEPT ![f].state = "running"]
    /\ UNCHANGED tl

\* asyncio.run in a sync frame: a loop in the same thread, the same context.
RunLoop(f) ==
    /\ frame[f].kind = "sync" /\ frame[f].state = "running"
    /\ "run" \in Usage
    /\ New <= MaxFrames
    /\ frame' = Append([frame EXCEPT ![f].state = "blocked"],
          [Blank EXCEPT !.kind = "async", !.via = "run", !.parent = f, !.loop = New,
                        !.cur = frame[f].cur, !.dl = frame[f].dl, !.one = frame[f].one])
    /\ UNCHANGED tl

ReturnLoop(f, c) ==
    /\ frame[c].via = "run" /\ frame[c].parent = f
    /\ frame[c].state = "returned"
    /\ frame' = [frame EXCEPT ![c].state = "done", ![f].state = "running"]
    /\ UNCHANGED tl

\* User code returns, or raises.  The root of a loop ends after the other
\* coroutines of the loop (leftover tasks are the user's to await).
Return(f) ==
    /\ frame[f].state = "running"
    /\ frame[f].loop = f => \A g \in Frames \ {f} : frame[g].loop = f => ~ Live(g)
    /\ frame' = [frame EXCEPT ![f].state =
                    IF frame[f].via \in {"outer", "task", "fresh"} THEN "done" ELSE "returned"]
    /\ UNCHANGED tl

Finished == \A f \in Frames : ~ Live(f)

\* The program has ended; nothing more happens.
Ended == Finished /\ UNCHANGED vars

Next ==
    \/ \E f \in Frames :
          \/ \E via \in {"a2s", "force"} : CallAsync(f, via)
          \/ StartLoop(f)
          \/ CallSensitive(f) \/ CallInsensitive(f)
          \/ \E via \in {"task", "fresh"} : CreateTask(f, via)
          \/ Join(f) \/ Joined(f) \/ RunLoop(f) \/ Return(f)
    \/ \E f, c \in Frames : ReturnAsync(f, c) \/ ReturnSync(f, c) \/ ReturnLoop(f, c)
    \/ \E t \in Threads, g \in Frames : StartSync(t, g)
    \/ Ended

Spec == Init /\ [][Next]_vars

\* Threads and loops do not stop while there is a step to take, and user code
\* returns.  Every step but Ended lengthens a finite program, so fairness of
\* the whole is as good as fairness of each part.
FairSpec == Spec /\ WF_vars(Next)

-----------------------------------------------------------------------------
(* What makes it correct.                                                   *)

\* A frame, and the frames it was called, or its task created, from.
Lineage[x \in 0 .. Len(frame)] ==
    IF x = None THEN {} ELSE {x} \union Lineage[frame[x].parent]

Ancestors(f) == Lineage[frame[f].parent]

Started(f) ==
    frame[f].kind = "sync" /\ frame[f].state \notin {"queued"} \union Refusals

Sensitive(f) == frame[f].via = "s2a" /\ Started(f)

\* The program has made use of a way to call.
Uses(S) == \E f \in Frames : frame[f].via \in S

\* What the README and the docstring of SyncToAsync say: all thread-sensitive
\* code runs in one thread, the main one if the outermost program is sync.
SameThreadAlways ==
    \A f, g \in Frames : Sensitive(f) /\ Sensitive(g) =>
        /\ frame[f].thread = frame[g].thread
        /\ frame[1].kind = "sync" => frame[f].thread = Main

\* It is so, in whatever loops, nested calls and tasks the code is called,
\* until the program leaves a thread by thread_sensitive=False or runs a loop
\* of its own.
SensitiveAffinity == Uses({"pool", "run"}) \/ SameThreadAlways

\* Sync code that finds itself above other unfinished sync code in a thread was
\* called, through whatever loops, threads and tasks, by that code: a blocked
\* sync function never sees unrelated code run in its thread.  (A task in a
\* fresh context calls the executor of its loop, whoever its caller is.)
CallNesting == Uses({"fresh"}) \/
    \A t \in Threads : \A f, g \in OnThread(t) : f < g => f \in Ancestors(g)

\* In a sync program the outermost executor outlives all the others, so no
\* task of its context, however late, has its thread-sensitive call refused.
SyncNeverRefused ==
    frame[1].kind = "sync" /\ ~ Uses({"run", "fresh"}) =>
        \A f \in Frames : frame[f].state # "quit"

\* The loop of the closest coroutine among the callers of f.
CallingLoop(f) ==
    LET a == {x \in Ancestors(f) : frame[x].kind = "async"}
    IN IF a = {} THEN None ELSE frame[CHOOSE x \in a : \A y \in a : y <= x].loop

\* "If the call stack contains an async loop, the code runs there": the
\* docstring of AsyncToSync, of a call without force_new_loop.
LoopAlways ==
    \A f \in Frames :
        frame[f].via = "a2s" /\ CallingLoop(f) # None => frame[f].loop = CallingLoop(f)

\* It is so until a call forces a new loop, or sync code runs one by hand.
LoopOfCallStack == Uses({"force", "run"}) \/ LoopAlways

\* A call is refused as a deadlock only below code that was given to the single
\* thread, which would have to run it.
DeadlockErrorIsReal ==
    \A g \in Frames : frame[g].state = "deadlock" =>
        \E a \in Ancestors(g) : frame[a].exec = Single

\* A new loop is forced in an AsyncSingleThreadContext, below one of its loops.
LoopInLoop == \E c \in Frames : OfContext(c) /\ \E a \in Ancestors(c) : OfContext(a)

\* Every call returns in the end, unless the program put a task in a fresh
\* context or ran a loop by hand, and so hid from asgiref what called what, or
\* asked for a loop that waits for the thread of its own caller.
Completion == <> [] (Finished \/ Uses({"fresh", "run"}) \/ LoopInLoop)
=============================================================================
