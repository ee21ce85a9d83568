----------------------------- MODULE Cancellation -----------------------------
(***************************************************************************)
(* Cancellation across the bridge, src/asgiref/sync.py.                     *)
(*                                                                         *)
(* A cancelled task that waits for sync code cannot stop the thread; it     *)
(* cancels the coroutine that thread waits for, in turn, and then waits for *)
(* both.  Which coroutine that is, it reads in task_context, a list it      *)
(* shared with the thread through a thread-local.                           *)
(*                                                                         *)
(* Tasks and calls of SyncToAsync are numbered as they are made.  A task    *)
(* is either made by AsyncToSync (main_wrap) or by user code; task 1 and    *)
(* what user code makes run in loop 1, which stays open.  A forced new loop *)
(* is named after its task.  Thread 0 is the single thread; the thread of a *)
(* call with thread_sensitive=False is named after the call.                *)
(***************************************************************************)
EXTENDS Naturals, Sequences, FiniteSets

CONSTANTS
    MaxTasks,   \* bound on the tasks made
    MaxCalls,   \* bound on the calls of SyncToAsync
    MaxWork     \* bound on the tasks made and the cancellations from outside

ASSUME CancellationAssumption ==
    /\ MaxTasks \in Nat \ {0} /\ MaxCalls \in Nat \ {0}
    /\ MaxWork \in Nat \ {0}

VARIABLES
    task, call,
    tls,        \* threadlocal, per thread: the call that last set it
    cancels     \* cancellations from outside so far

vars == <<task, call, tls, cancels>>

None == 0
Threads == 0 .. MaxCalls
Outcomes == {"none", "value", "cancelled", "error"}

TaskType ==
    [from : 0 .. MaxCalls,  \* the call whose function called async_to_sync
     exec : 0 .. MaxTasks,  \* context: the AsyncToSync call that pumps
     loop : 1 .. MaxTasks,
     list : 0 .. MaxCalls,  \* the call whose task_context main_wrap was given
     st : {"scheduled", "live", "done"},
     ask : BOOLEAN,         \* a CancelledError waits to be thrown into it
     kept : BOOLEAN,        \* its user code caught one
     res : Outcomes]

CallType ==
    [by : 1 .. MaxTasks,    \* the task that awaits it
     exec : 0 .. MaxTasks,  \* the executor, 0 for one with a thread of its own
     thread : Threads,
     fn : {"queued", "running", "blocked", "done", "dropped"},
     on : 0 .. MaxTasks,    \* the coroutine its function is blocked on
     kept : BOOLEAN,        \* its function caught a CancelledError
     res : Outcomes,        \* what its function came to
     fut : {"pending", "done", "cancelled"},        \* exec_coro
     pc : {"shield", "task", "exec", "ended"},      \* the await it is at
     victim : 0 .. MaxTasks,    \* task_context[0], once cancelled
     out : Outcomes]

Tasks == DOMAIN task
Calls == DOMAIN call
NewTask == Len(task) + 1
NewCall == Len(call) + 1
Room == Len(task) + cancels < MaxWork

\* The tasks in the task_context of a call.
TaskContext(c) == {k \in Tasks : task[k].list = c /\ task[k].st = "live"}

\* Besides the types: one thread appends to a list at a time.
TypeOK ==
    /\ task \in Seq(TaskType) /\ Len(task) \in 1 .. MaxTasks
    /\ call \in Seq(CallType) /\ Len(call) \in 0 .. MaxCalls
    /\ tls \in [Threads -> 0 .. MaxCalls]
    /\ cancels \in 0 .. MaxWork
    /\ \A c \in Calls : Cardinality(TaskContext(c)) <= 1

Awaited(t) == {c \in Calls : call[c].by = t /\ call[c].pc # "ended"}
UserTasks == {t \in Tasks : task[t].from = None}
InUserCode(t) == task[t].st = "live" /\ Awaited(t) = {}

OnThread(h) == {c \in Calls : call[c].thread = h /\ call[c].fn \in {"running", "blocked"}}
Innermost(c) == \A d \in OnThread(call[c].thread) : d <= c

NewTaskOf(from, exec, loop, list) ==
    [from |-> from, exec |-> exec, loop |-> loop, list |-> list, st |-> "scheduled",
     ask |-> FALSE, kept |-> FALSE, res |-> "none"]

Init ==
    /\ task = <<[NewTaskOf(None, None, 1, None) EXCEPT !.st = "live"]>>
    /\ call = <<>>
    /\ tls = [h \in Threads |-> None]
    /\ cancels = 0

-----------------------------------------------------------------------------
(* Cancelling a task                                                        *)

\* Task.cancel() passes on to the task that is awaited, and so on down.
AwaitsTask(t) ==
    {c \in Calls : call[c].by = t /\ call[c].pc = "task" /\ task[call[c].victim].st # "done"}

Deepest[t \in Tasks] ==
    IF AwaitsTask(t) = {} THEN t
    ELSE Deepest[call[CHOOSE c \in AwaitsTask(t) : TRUE].victim]

\* The tasks after cancel() of task t.
Cancelled(t) == [task EXCEPT ![Deepest[t]].ask = TRUE]

\* An exception in the user code of a task ends it, or is caught (only below
\* AsyncToSync: what a task of user code does next makes no difference).
Thrown(tasks, t, how) ==
    LET ended == [tasks EXCEPT ![t].ask = FALSE, ![t].st = "done", ![t].res = how]
        caught == [tasks EXCEPT ![t].ask = FALSE, ![t].kept = TRUE]
    IN IF t \in UserTasks THEN {ended} ELSE {ended, caught}

CancelFromOutside(t) ==
    /\ t \in UserTasks /\ task[t].st # "done"
    /\ Room
    /\ task' = Cancelled(t)
    /\ cancels' = cancels + 1
    /\ UNCHANGED <<call, tls>>

-----------------------------------------------------------------------------
(* Tasks                                                                    *)

Spawn(t) ==
    /\ InUserCode(t) /\ ~task[t].ask /\ task[t].loop = 1
    /\ NewTask <= MaxTasks /\ Room
    /\ task' = Append(task, NewTaskOf(None, task[t].exec, 1, None))
    /\ UNCHANGED <<call, tls, cancels>>

\* What the thread of a call posted to the loop before, the loop does before.
Begin(t) ==
    /\ task[t].st = "scheduled"
    /\ task[t].list # None =>
          LET c == call[task[t].list] IN
          task[c.by].loop = task[t].loop /\ c.fn = "done" => c.fut # "pending"
    /\ task' = [task EXCEPT ![t].st = IF task[t].ask THEN "done" ELSE "live",
                            ![t].res = IF task[t].ask THEN "cancelled" ELSE @]
    /\ UNCHANGED <<call, tls, cancels>>

\* MUTANT: the exception is taken for a result.
EndTaskSilent(t) ==
    /\ InUserCode(t)
    /\ task' = [task EXCEPT ![t].st = "done", ![t].res = "value", ![t].ask = FALSE]
    /\ UNCHANGED <<call, tls, cancels>>

\* main_wrap takes itself off the list as it ends, in either way.
EndTask(t) ==
    /\ InUserCode(t)
    /\ IF task[t].ask THEN task' \in Thrown(task, t, "cancelled")
                      ELSE task' = [task EXCEPT ![t].st = "done", ![t].res = "value"]
    /\ UNCHANGED <<call, tls, cancels>>

-----------------------------------------------------------------------------
(* SyncToAsync                                                              *)

\* The executor of an AsyncToSync call pumps until that call returns.  (Later
\* calls of tasks left below it are AsyncBridge's subject.)
Pumps(e) == e # None /\ call[task[e].from].on = e

CallSync(t, sensitive) ==
    /\ InUserCode(t) /\ ~task[t].ask
    /\ NewCall <= MaxCalls
    /\ sensitive => task[t].exec = None \/ Pumps(task[t].exec)
    /\ LET e == IF sensitive THEN task[t].exec ELSE None IN
       call' = Append(call,
          [by |-> t, exec |-> e,
           thread |-> IF ~sensitive THEN NewCall
                      ELSE IF e = None THEN 0 ELSE call[task[e].from].thread,
           fn |-> "queued", on |-> None, kept |-> FALSE, res |-> "none",
           fut |-> "pending", pc |-> "shield", victim |-> None, out |-> "none"])
    /\ UNCHANGED <<task, tls, cancels>>

\* The work starts, in an idle thread or in one that pumps, and leaves the
\* thread-locals as given.
Starts(c, locals) ==
    /\ call[c].fn = "queued"
    /\ IF call[c].exec = None THEN OnThread(call[c].thread) = {}
       ELSE \E d \in OnThread(call[c].thread) : Innermost(d) /\ call[d].on = call[c].exec
    /\ \A d \in Calls : (d < c /\ call[d].fn = "queued") =>
          <<call[d].thread, call[d].exec>> # <<call[c].thread, call[c].exec>>
    /\ call' = [call EXCEPT ![c].fn = "running"]
    /\ tls' = locals
    /\ UNCHANGED <<task, cancels>>

\* MUTANTS: one global instead of thread-locals; set once per thread.
StartFnGlobal(c) == Starts(c, [h \in Threads |-> c])
StartFnOnce(c) == Starts(c, [tls EXCEPT ![call[c].thread] = IF @ = None THEN c ELSE @])

\* thread_handler.
StartFn(c) == Starts(c, [tls EXCEPT ![call[c].thread] = c])

\* The executor's future follows exec_coro, one round of the loop later.
DropFn(c) ==
    /\ call[c].fn = "queued" /\ call[c].fut = "cancelled"
    /\ call' = [call EXCEPT ![c].fn = "dropped"]
    /\ UNCHANGED <<task, tls, cancels>>

ReturnFn(c) ==
    /\ call[c].fn = "running"
    /\ call' = [call EXCEPT ![c].fn = "done", ![c].res = "value"]
    /\ UNCHANGED <<task, tls, cancels>>

FnDone(c) ==
    /\ call[c].fn = "done" /\ call[c].fut = "pending"
    /\ call' = [call EXCEPT ![c].fut = "done"]
    /\ UNCHANGED <<task, tls, cancels>>

\* The call ends with an outcome, given the other effects on the tasks.
EndCall(c, out, tasks) ==
    /\ call' = [call EXCEPT ![c].pc = "ended", ![c].out = out,
                   ![c].fut = IF out = "cancelled" /\ @ = "pending" THEN "cancelled" ELSE @]
    /\ IF out = "value" THEN task' = tasks ELSE task' \in Thrown(tasks, call[c].by, out)
    /\ UNCHANGED <<tls, cancels>>

Returns(c) ==
    /\ call[c].pc \in {"shield", "exec"} /\ call[c].fut = "done" /\ ~task[call[c].by].ask
    /\ EndCall(c, call[c].res, task)

\* MUTANT: it cancels the future of the work, and then waits for the work.
GiveUpWaiting(c) ==
    /\ call[c].pc = "shield" /\ task[call[c].by].ask /\ TaskContext(c) = {}
    /\ call' = [call EXCEPT ![c].pc = "exec",
                            ![c].fut = IF @ = "done" THEN @ ELSE "cancelled"]
    /\ task' = [task EXCEPT ![call[c].by].ask = FALSE]
    /\ UNCHANGED <<tls, cancels>>

\* CancelledError, and no task to pass it to: the thread is left to itself.
GiveUp(c) ==
    /\ call[c].pc = "shield" /\ task[call[c].by].ask
    /\ TaskContext(c) = {}
    /\ EndCall(c, "cancelled", task)

\* CancelledError: cancel the task and wait for it.  A task of another loop
\* cannot be awaited.
CancelTask(c) ==
    /\ call[c].pc = "shield" /\ task[call[c].by].ask
    /\ \E k \in TaskContext(c) :
          LET tasks == [Cancelled(k) EXCEPT ![call[c].by].ask = FALSE] IN
          IF task[k].loop = task[call[c].by].loop
          THEN /\ call' = [call EXCEPT ![c].pc = "task", ![c].victim = k]
               /\ task' = tasks
               /\ UNCHANGED <<tls, cancels>>
          ELSE EndCall(c, "error", tasks)

\* That task is done: wait for the function too, unless it is done as well or
\* this task was cancelled again.
TaskDone(c) ==
    /\ call[c].pc = "task" /\ task[call[c].victim].st = "done"
    /\ IF call[c].fut = "done" \/ task[call[c].by].ask
       THEN EndCall(c, "cancelled", task)
       ELSE /\ call' = [call EXCEPT ![c].pc = "exec"]
            /\ UNCHANGED <<task, tls, cancels>>

CancelledAgain(c) ==
    /\ call[c].pc = "exec" /\ task[call[c].by].ask
    /\ EndCall(c, "cancelled", task)

-----------------------------------------------------------------------------
(* AsyncToSync                                                              *)

\* The loop of the call that last set the thread-local, if it is open.
CallAsync(c, force) ==
    /\ call[c].fn = "running" /\ NewTask <= MaxTasks /\ Room
    /\ LET list == tls[call[c].thread]
           main == task[call[list].by].loop
           loop == IF force \/ (main # 1 /\ task[main].st = "done") THEN NewTask ELSE main
       IN task' = Append(task, NewTaskOf(c, NewTask, loop, list))
    /\ call' = [call EXCEPT ![c].fn = "blocked", ![c].on = NewTask]
    /\ UNCHANGED <<tls, cancels>>

\* The result is there and the queue drained; a CancelledError may be caught.
ReturnAsync(c) ==
    /\ call[c].fn = "blocked" /\ Innermost(c)
    /\ task[call[c].on].st = "done"
    /\ \A d \in Calls : call[d].exec = call[c].on => call[d].fn # "queued"
    /\ LET back == [call EXCEPT ![c].on = None] IN
       IF task[call[c].on].res = "value"
       THEN call' = [back EXCEPT ![c].fn = "running"]
       ELSE \/ call' = [back EXCEPT ![c].fn = "running", ![c].kept = TRUE]
            \/ call' = [back EXCEPT ![c].fn = "done", ![c].res = task[call[c].on].res]
    /\ UNCHANGED <<task, tls, cancels>>

-----------------------------------------------------------------------------
LoopStep(c) == FnDone(c) \/ Returns(c) \/ GiveUp(c) \/ CancelTask(c) \/ TaskDone(c)
                  \/ CancelledAgain(c)

ThreadStep(c) == StartFn(c) \/ ReturnFn(c) \/ ReturnAsync(c)

Next ==
    \/ \E t \in Tasks : \/ Spawn(t) \/ Begin(t) \/ EndTask(t) \/ CancelFromOutside(t)
                        \/ \E sensitive \in BOOLEAN : CallSync(t, sensitive)
    \/ \E c \in Calls : \/ LoopStep(c) \/ ThreadStep(c) \/ DropFn(c)
                        \/ \E force \in BOOLEAN : CallAsync(c, force)

\* Loops and threads make progress, user code ends.
Fairness ==
    /\ \A t \in 1 .. MaxTasks : WF_vars(t \in Tasks /\ (Begin(t) \/ EndTask(t)))
    /\ \A c \in 1 .. MaxCalls :
          /\ WF_vars(c \in Calls /\ LoopStep(c))
          /\ WF_vars(c \in Calls /\ ThreadStep(c))

Spec == Init /\ [][Next]_vars
FairSpec == Spec /\ Fairness

-----------------------------------------------------------------------------
(* Properties                                                               *)

\* The calls that a task is below: the one whose function made it, and those
\* that call is below.
Above[t \in Tasks] ==
    IF task[t].from = None THEN {}
    ELSE {task[t].from} \union Above[call[task[t].from].by]

Below(t, c) == c \in Above[t]

\* Other code ran in the thread of a call while its function was blocked.
Nested(c) ==
    \E d \in Calls : /\ d > c /\ call[d].thread = call[c].thread
                     /\ call[d].fn \notin {"queued", "dropped"}

\* A cancellation is passed to work of the call that was cancelled: the task
\* that SyncToAsync.__call__ takes from task_context was made below it.  The
\* list of a pumped call whose function has returned is an exception: the
\* code below it in the thread goes on using the list.
CancelsOwn ==
    \A c \in Calls : call[c].victim # None =>
        Below(call[c].victim, c) \/ (call[c].exec # None /\ call[c].fn = "done")

\* A call is not given up while its function waits for a coroutine that runs.
CancelReachesAlways ==
    [][\A c \in Calls : GiveUp(c) /\ call[c].on # None => task[call[c].on].st # "live"]_vars

CancelReaches ==
    [][\A c \in Calls : GiveUp(c) /\ call[c].on # None /\ ~Nested(c)
          => task[call[c].on].st # "live"]_vars

\* A call whose task was cancelled does not return a value, unless user code
\* below it caught the exception.
CancelReported ==
    \A c \in Calls : call[c].out = "value" /\ call[c].victim # None =>
        \/ \E d \in Calls : call[d].kept /\ (d = c \/ Below(call[d].by, c))
        \/ \E t \in Tasks : task[t].kept /\ Below(t, c)

\* A call whose task was cancelled ends, whatever its thread is doing.
CancelEnds ==
    \A c \in 1 .. MaxCalls :
        (c \in Calls /\ task[call[c].by].ask) ~> (c \in Calls /\ call[c].pc = "ended")
=============================================================================
