----------------------- MODULE CurrentThreadExecutor -----------------------
(***************************************************************************)
(* src/asgiref/current_thread_executor.py, one lock region per action.      *)
(*                                                                         *)
(* AsyncToSync makes a CurrentThreadExecutor for every blocking call.  The  *)
(* calling thread pumps it (run_until_future) until the future it waits for *)
(* is done and the queue is empty; meanwhile other threads submit work.  A  *)
(* submission to an executor that has quit walks up _old_executor to the    *)
(* closest one still running.  The calls of one thread nest: the work an    *)
(* executor runs may itself block in AsyncToSync, with a new executor on    *)
(* top of it, and an executor under another one does not move.              *)
(***************************************************************************)
EXTENDS Naturals, Sequences

CONSTANTS
    Executors,  \* CurrentThreadExecutor objects, one per AsyncToSync call
    Items,      \* _WorkItem objects, one per submit() call
    Threads,    \* operating system threads
    None        \* Python's None

ASSUME NoneAssumption == None \notin Executors \union Items \union Threads

VARIABLES
    pc,         \* where the call that owns the executor is
    thread,     \* _work_thread
    old,        \* _old_executor
    queue,      \* _work_items
    broken,     \* _broken
    done,       \* the future passed to run_until_future is done
    work,       \* the item popped from the queue, None between items
    outer,      \* the executor this one is nested in, on the same thread
    innermost,  \* the innermost live executor of a thread
    status,     \* the life of a work item and of its future
    target,     \* the executor submit() was called on
    at,         \* the executor the walk of submit() has reached
    submitter   \* the thread that called submit()

execVars == <<pc, thread, old, queue, broken, done, work, outer, innermost>>
itemVars == <<status, target, at, submitter>>
vars == <<execVars, itemVars>>

Phases == {"unborn", "created", "ready", "waiting", "taken", "running", "exited"}

Statuses ==
    {"idle", "walking", "queued", "running", "finished", "cancelled", "refused"}

TypeOK ==
    /\ pc \in [Executors -> Phases]
    /\ thread \in [Executors -> Threads \union {None}]
    /\ old \in [Executors -> Executors \union {None}]
    /\ queue \in [Executors -> Seq(Items)]
    /\ broken \in [Executors -> BOOLEAN]
    /\ done \in [Executors -> BOOLEAN]
    /\ work \in [Executors -> Items \union {None}]
    /\ outer \in [Executors -> Executors \union {None}]
    /\ innermost \in [Threads -> Executors \union {None}]
    /\ status \in [Items -> Statuses]
    /\ target \in [Items -> Executors \union {None}]
    /\ at \in [Items -> Executors \union {None}]
    /\ submitter \in [Items -> Threads \union {None}]
    /\ \A e \in Executors : pc[e] # "unborn" => thread[e] \in Threads
    /\ \A e \in Executors : (pc[e] \in {"taken", "running"}) <=> (work[e] # None)
    /\ \A i \in Items : status[i] = "walking" => at[i] # None /\ target[i] # None

Init ==
    /\ pc = [e \in Executors |-> "unborn"]
    /\ thread = [e \in Executors |-> None]
    /\ old = [e \in Executors |-> None]
    /\ queue = [e \in Executors |-> <<>>]
    /\ broken = [e \in Executors |-> FALSE]
    /\ done = [e \in Executors |-> FALSE]
    /\ work = [e \in Executors |-> None]
    /\ outer = [e \in Executors |-> None]
    /\ innermost = [t \in Threads |-> None]
    /\ status = [i \in Items |-> "idle"]
    /\ target = [i \in Items |-> None]
    /\ at = [i \in Items |-> None]
    /\ submitter = [i \in Items |-> None]

Created == {e \in Executors : pc[e] # "unborn"}

\* The thread is inside submit().
Submitting(t) == \E i \in Items : status[i] = "walking" /\ submitter[i] = t

\* The thread runs user code: no call of it blocks, and it is not in submit().
InUserCode(t) ==
    /\ innermost[t] # None => pc[innermost[t]] = "running"
    /\ ~ Submitting(t)

\* MUTANT: the notify() is missing.
NotifyLost(e) == pc[e]

\* Condition.notify(): a thread parked in wait() goes back for the lock.
Notified(e) == IF pc[e] = "waiting" THEN "ready" ELSE pc[e]

-----------------------------------------------------------------------------
(* The blocking call: __init__ and run_until_future.                        *)

\* AsyncToSync.__call__ makes an executor in this thread, on top of whatever
\* executor its context held, and gives the loop the work to wait for.
Create(t, e, o) ==
    /\ pc[e] = "unborn"
    /\ InUserCode(t)
    /\ pc' = [pc EXCEPT ![e] = "created"]
    /\ thread' = [thread EXCEPT ![e] = t]
    /\ old' = [old EXCEPT ![e] = o]
    /\ outer' = [outer EXCEPT ![e] = innermost[t]]
    /\ innermost' = [innermost EXCEPT ![t] = e]
    /\ UNCHANGED <<queue, broken, done, work, itemVars>>

\* add_done_callback: a future that is done already calls back at once.
StartPumping(e) ==
    /\ pc[e] = "created"
    /\ pc' = [pc EXCEPT ![e] = "ready"]
    /\ broken' = [broken EXCEPT ![e] = done[e]]
    /\ UNCHANGED <<thread, old, queue, done, work, outer, innermost, itemVars>>

\* The loop's thread sets the future's result...
FutureDone(e) ==
    /\ pc[e] \notin {"unborn", "exited"}
    /\ ~ done[e]
    /\ done' = [done EXCEPT ![e] = TRUE]
    /\ UNCHANGED <<pc, thread, old, queue, broken, work, outer, innermost, itemVars>>

\* MUTANT: the callback sets _broken and forgets to notify.
DoneCallbackSilent(e) ==
    /\ pc[e] \notin {"unborn", "created"}
    /\ done[e] /\ ~ broken[e]
    /\ broken' = [broken EXCEPT ![e] = TRUE]
    /\ UNCHANGED <<pc, thread, old, queue, done, work, outer, innermost, itemVars>>

\* ...and then runs its callbacks: the closure done() of run_until_future.
DoneCallback(e) ==
    /\ pc[e] \notin {"unborn", "created"}
    /\ done[e] /\ ~ broken[e]
    /\ broken' = [broken EXCEPT ![e] = TRUE]
    /\ pc' = [pc EXCEPT ![e] = Notified(e)]
    /\ UNCHANGED <<thread, old, queue, done, work, outer, innermost, itemVars>>

\* while not _work_items and not _broken: wait()
PumpWait(e) ==
    /\ pc[e] = "ready"
    /\ queue[e] = <<>> /\ ~ broken[e]
    /\ pc' = [pc EXCEPT ![e] = "waiting"]
    /\ UNCHANGED <<thread, old, queue, broken, done, work, outer, innermost, itemVars>>

\* MUTANT: pop() instead of popleft().
PumpTakeLast(e) ==
    /\ pc[e] = "ready"
    /\ queue[e] # <<>>
    /\ work' = [work EXCEPT ![e] = queue[e][Len(queue[e])]]
    /\ queue' = [queue EXCEPT ![e] = SubSeq(@, 1, Len(@) - 1)]
    /\ pc' = [pc EXCEPT ![e] = "taken"]
    /\ UNCHANGED <<thread, old, broken, done, outer, innermost, itemVars>>

\* work_item = self._work_items.popleft()
PumpTake(e) ==
    /\ pc[e] = "ready"
    /\ queue[e] # <<>>
    /\ work' = [work EXCEPT ![e] = Head(queue[e])]
    /\ queue' = [queue EXCEPT ![e] = Tail(@)]
    /\ pc' = [pc EXCEPT ![e] = "taken"]
    /\ UNCHANGED <<thread, old, broken, done, outer, innermost, itemVars>>

\* MUTANT: the loop ends as soon as the future is done.
PumpExitEarly(e) ==
    /\ pc[e] = "ready"
    /\ broken[e]
    /\ pc' = [pc EXCEPT ![e] = "exited"]
    /\ innermost' = [innermost EXCEPT ![thread[e]] = outer[e]]
    /\ UNCHANGED <<thread, old, queue, broken, done, work, outer, itemVars>>

\* if not _work_items: break -- and the call returns to what it is nested in.
PumpExit(e) ==
    /\ pc[e] = "ready"
    /\ queue[e] = <<>> /\ broken[e]
    /\ pc' = [pc EXCEPT ![e] = "exited"]
    /\ innermost' = [innermost EXCEPT ![thread[e]] = outer[e]]
    /\ UNCHANGED <<thread, old, queue, broken, done, work, outer, itemVars>>

\* _WorkItem.run: set_running_or_notify_cancel() skips a cancelled item.
RunSkip(e) ==
    /\ pc[e] = "taken"
    /\ status[work[e]] = "cancelled"
    /\ pc' = [pc EXCEPT ![e] = "ready"]
    /\ work' = [work EXCEPT ![e] = None]
    /\ UNCHANGED <<thread, old, queue, broken, done, outer, innermost, itemVars>>

RunStart(e) ==
    /\ pc[e] = "taken"
    /\ status[work[e]] = "queued"
    /\ pc' = [pc EXCEPT ![e] = "running"]
    /\ status' = [status EXCEPT ![work[e]] = "running"]
    /\ UNCHANGED <<thread, old, queue, broken, done, work, outer, innermost,
                   target, at, submitter>>

\* The function returned or raised; either way its future is resolved.
RunEnd(e) ==
    /\ pc[e] = "running"
    /\ innermost[thread[e]] = e
    /\ ~ Submitting(thread[e])
    /\ pc' = [pc EXCEPT ![e] = "ready"]
    /\ status' = [status EXCEPT ![work[e]] = "finished"]
    /\ work' = [work EXCEPT ![e] = None]
    /\ UNCHANGED <<thread, old, queue, broken, done, outer, innermost,
                   target, at, submitter>>

-----------------------------------------------------------------------------
(* submit(), called by a thread that runs an event loop.                    *)

\* Only the executor submit() is called on is checked for its own thread.
SubmitBegin(t, i, e) ==
    /\ status[i] = "idle"
    /\ InUserCode(t)
    /\ e \in Created
    /\ thread[e] # t
    /\ status' = [status EXCEPT ![i] = "walking"]
    /\ target' = [target EXCEPT ![i] = e]
    /\ at' = [at EXCEPT ![i] = e]
    /\ submitter' = [submitter EXCEPT ![i] = t]
    /\ UNCHANGED execVars

SubmitAccept(i) ==
    LET e == at[i] IN
    /\ status[i] = "walking"
    /\ ~ broken[e]
    /\ queue' = [queue EXCEPT ![e] = Append(@, i)]
    /\ pc' = [pc EXCEPT ![e] = Notified(e)]
    /\ status' = [status EXCEPT ![i] = "queued"]
    /\ UNCHANGED <<thread, old, broken, done, work, outer, innermost,
                   target, at, submitter>>

\* MUTANT: the end of the stack is not looked for.
SubmitWalkOff(i) ==
    LET e == at[i] IN
    /\ status[i] = "walking"
    /\ broken[e]
    /\ at' = [at EXCEPT ![i] = old[e]]
    /\ UNCHANGED <<execVars, status, target, submitter>>

\* MUTANT: an executor whose future is done is passed over before it has quit.
SubmitWalkSoon(i) ==
    LET e == at[i] IN
    /\ status[i] = "walking"
    /\ done[e] /\ old[e] # None
    /\ at' = [at EXCEPT ![i] = old[e]]
    /\ UNCHANGED <<execVars, status, target, submitter>>

SubmitWalk(i) ==
    LET e == at[i] IN
    /\ status[i] = "walking"
    /\ broken[e] /\ old[e] # None
    /\ at' = [at EXCEPT ![i] = old[e]]
    /\ UNCHANGED <<execVars, status, target, submitter>>

\* raise RuntimeError("CurrentThreadExecutor already quit or is broken")
SubmitRefuse(i) ==
    LET e == at[i] IN
    /\ status[i] = "walking"
    /\ broken[e] /\ old[e] = None
    /\ at' = [at EXCEPT ![i] = None]
    /\ status' = [status EXCEPT ![i] = "refused"]
    /\ UNCHANGED <<execVars, target, submitter>>

\* SyncToAsync cancels the future of work that has not started.
Cancel(i) ==
    /\ status[i] = "queued"
    /\ status' = [status EXCEPT ![i] = "cancelled"]
    /\ UNCHANGED <<execVars, target, at, submitter>>

-----------------------------------------------------------------------------
Pump(e) ==
    \/ StartPumping(e) \/ PumpWait(e) \/ PumpTake(e) \/ PumpExit(e)
    \/ RunSkip(e) \/ RunStart(e) \/ RunEnd(e)

Submit(i) == SubmitAccept(i) \/ SubmitWalk(i) \/ SubmitRefuse(i)

Next ==
    \/ \E t \in Threads, e \in Executors :
          \E o \in Created \union {None} : Create(t, e, o)
    \/ \E e \in Executors : Pump(e) \/ FutureDone(e) \/ DoneCallback(e)
    \/ \E t \in Threads, i \in Items, e \in Executors : SubmitBegin(t, i, e)
    \/ \E i \in Items : Submit(i) \/ Cancel(i)

Spec == Init /\ [][Next]_vars

\* A thread that can take a step takes it, user code returns, and the loop
\* finishes the coroutine each blocking call waits for.
Fairness ==
    /\ \A e \in Executors :
          WF_vars(Pump(e)) /\ WF_vars(FutureDone(e)) /\ WF_vars(DoneCallback(e))
    /\ \A i \in Items : WF_vars(Submit(i))

FairSpec == Spec /\ Fairness

-----------------------------------------------------------------------------
(* What makes it correct.                                                   *)

\* Work accepted by an executor is never left behind: the pump returns to its
\* caller only with an empty queue, whatever was submitted while it quit.
NoStrandedWork ==
    \A e \in Executors : pc[e] = "exited" => queue[e] = <<>> /\ broken[e]

\* A pump sleeps only when there is nothing for it to do: no interleaving of
\* submit(), of the future's callback and of the pump loses a notify().
NoLostWakeup ==
    \A e \in Executors : pc[e] = "waiting" => queue[e] = <<>> /\ ~ broken[e]

\* submit() passes over an executor only if it has quit, and refuses the work
\* only if every executor up the stack has: C is the part of the stack that
\* was passed over, from the target to the place reached.
PassesOnlyQuitExecutors ==
    \A i \in Items : target[i] # None =>
        \E C \in SUBSET Executors :
            /\ target[i] \in C \union {at[i]}
            /\ \A c \in C : broken[c] /\ old[c] \in C \union {at[i]}

\* The executors implement the mailboxes of WorkHandoff: however submit()'s
\* walk interleaves with executors that quit, it is one atomic post to the
\* closest open one, or one refusal, and nothing is reordered.
MailboxState(e) ==
    CASE pc[e] = "unborn" -> "none"
      [] pc[e] = "exited" -> "gone"
      [] OTHER -> IF broken[e] THEN "closed" ELSE "open"

JobState ==
    [idle |-> "new", walking |-> "aimed", queued |-> "posted", running |-> "started",
     finished |-> "finished", cancelled |-> "cancelled", refused |-> "refused"]

Handoff == INSTANCE WorkHandoff WITH
    Mailboxes <- Executors,
    Jobs <- Items,
    state <- [e \in Executors |-> MailboxState(e)],
    parent <- old,
    box <- queue,
    hands <- work,
    job <- [i \in Items |-> JobState[status[i]]],
    aim <- target

ImplementsHandoff == Handoff!Spec

\* Accepted work is run, or was cancelled before it started.
AcceptedWorkRuns ==
    \A i \in Items : status[i] = "queued" ~> status[i] \in {"finished", "cancelled"}

\* A blocked caller is released once its future is done, whatever is queued
\* on it or nested above it in its thread.
CallerReleased ==
    \A e \in Executors : done[e] ~> pc[e] = "exited"
=============================================================================
