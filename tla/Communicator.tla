---------------------------- MODULE Communicator ----------------------------
(***************************************************************************)
(* ApplicationCommunicator of src/asgiref/testing.py and the timeout()      *)
(* block of src/asgiref/timeout.py that its operations wait in.             *)
(*                                                                         *)
(* A test task calls one operation after the other; the application is a    *)
(* task of the same loop, and the timer of a timeout() block, or anybody    *)
(* else, may cancel the test task while it waits.  asyncio's part: a        *)
(* cancelled task cancels what it awaits, and is woken by CancelledError;   *)
(* if what it awaits is done and its wake-up already scheduled, it is woken *)
(* by CancelledError instead of the result.                                 *)
(***************************************************************************)
EXTENDS Naturals

CONSTANTS
    MaxMessages,  \* bound on the messages sent each way
    MaxCancels,   \* bound on cancellations of the test task from outside
    NoTimeout,    \* operations may be given timeout=None
    Stubborn      \* the application may suppress its cancellation

ASSUME CommunicatorAssumption ==
    MaxMessages \in Nat /\ MaxCancels \in Nat /\ NoTimeout \in BOOLEAN
    /\ Stubborn \in BOOLEAN

VARIABLES
    app,       \* the application's task, _future
    input,     \* messages in _input_queue
    output,    \* messages in _output_queue
    sent,      \* messages the application has sent
    received,  \* messages receive_output() has returned
    pc,        \* where the test task is suspended; "user": in no operation
    wake,      \* why it is about to resume: "no", "value", "cancel"
    timer,     \* the timeout() block: "off", "armed", "expired" (_cancelled)
    outcome,   \* how the last operation ended
    cancels    \* cancellations from outside so far

testVars == <<pc, wake, timer, outcome>>
vars == <<app, input, output, sent, received, testVars, cancels>>

\* Besides the types: no timer is left behind by an operation that would cancel
\* the test later, in code that has nothing to do with it.
TypeOK ==
    /\ app \in {"none", "running", "cancelling", "returned", "raised", "cancelled"}
    /\ input \in 0 .. MaxMessages /\ output \in 0 .. MaxMessages
    /\ sent \in 0 .. MaxMessages /\ received \in 0 .. MaxMessages
    /\ pc \in {"user", "waitApp", "getOutput", "killApp", "sleep"}
    /\ wake \in {"no", "value", "cancel"}
    /\ timer \in {"off", "armed", "expired"}
    /\ outcome \in {"none", "stopped", "message", "sent", "nothing", "something",
                    "error", "timeout", "cancelled"}
    /\ cancels \in 0 .. MaxCancels
    /\ pc = "user" => wake = "no" /\ timer = "off"
    /\ pc # "user" => app # "none"

Init ==
    /\ app = "none" /\ input = 0 /\ output = 0 /\ sent = 0 /\ received = 0
    /\ pc = "user" /\ wake = "no" /\ timer = "off" /\ outcome = "none"
    /\ cancels = 0

Done == app \in {"returned", "raised", "cancelled"}

\* self.future: the task is created when it is first asked for.
Started == IF app = "none" THEN "running" ELSE app

\* future.cancel() of the application, not done.
AppCancelled == IF Done THEN app ELSE "cancelling"

\* self.future.result() of a task that is done.
Result == CASE app = "raised" -> "error" [] app = "cancelled" -> "cancelled"
            [] OTHER -> "stopped"

\* MUTANT: _do_exit leaves the timer's handle alone.
LeaveOpen(o) == pc' = "user" /\ wake' = "no" /\ outcome' = o /\ UNCHANGED timer

\* The operation ends; __aexit__ has cancelled the timer's handle.
Leave(o) == pc' = "user" /\ wake' = "no" /\ outcome' = o /\ timer' = "off"

\* The test task is suspended at p, in a timeout() block or in none.
Suspend(p, t) == pc' = p /\ wake' = "no" /\ timer' = t /\ outcome' = "none"

\* timeout._do_enter: call_at(), or call_soon() if the time is up already.
Entered == {"armed"} \union (IF NoTimeout THEN {"off"} ELSE {})

-----------------------------------------------------------------------------
(* The operations, up to where they suspend.                                *)

\* wait(): what is done already is not waited for; a cancelled application is
\* one that has stopped.
WaitDone ==
    /\ pc = "user" /\ Done
    /\ Leave(IF app = "raised" THEN "error" ELSE "stopped")
    /\ UNCHANGED <<app, input, output, sent, received, cancels>>

Wait ==
    /\ pc = "user" /\ ~ Done
    /\ app' = Started
    /\ \E t \in Entered : Suspend("waitApp", t)
    /\ UNCHANGED <<input, output, sent, received, cancels>>

\* "Make sure there's not an exception to raise from the task": the first
\* lines of send_input(), receive_output() and receive_nothing().
RaiseFromTask ==
    /\ pc = "user" /\ app \in {"raised", "cancelled"}
    /\ Leave(Result)
    /\ UNCHANGED <<app, input, output, sent, received, cancels>>

NothingToRaise == pc = "user" /\ app \notin {"raised", "cancelled"}

SendInput ==
    /\ NothingToRaise /\ input < MaxMessages
    /\ app' = Started
    /\ input' = input + 1
    /\ Leave("sent")
    /\ UNCHANGED <<output, sent, received, cancels>>

ReceiveReady ==
    /\ NothingToRaise /\ output > 0
    /\ output' = output - 1 /\ received' = received + 1
    /\ Leave("message")
    /\ UNCHANGED <<app, input, sent, cancels>>

Receive ==
    /\ NothingToRaise /\ output = 0
    /\ app' = Started
    /\ \E t \in Entered : Suspend("getOutput", t)
    /\ UNCHANGED <<input, output, sent, received, cancels>>

ReceiveNothing ==
    /\ NothingToRaise
    /\ app' = Started
    /\ \/ output > 0 /\ Leave("something")
       \/ output = 0 /\ Suspend("sleep", "off")
    /\ UNCHANGED <<input, output, sent, received, cancels>>

\* stop(), also called by __del__: cancels, or raises what the task raised.
Stop ==
    /\ pc = "user" /\ app # "none"
    /\ IF Done THEN Leave(Result) /\ UNCHANGED app
       ELSE app' = "cancelling" /\ UNCHANGED testVars
    /\ UNCHANGED <<input, output, sent, received, cancels>>

-----------------------------------------------------------------------------
(* The operations, when the test task resumes.                              *)

\* wait() after its await.  CancelledError is taken for the application's and
\* swallowed inside the timeout() block, whoever was cancelled.  The finally
\* clause finds the application done: the test task was not woken before.
WaitResumes ==
    /\ pc = "waitApp" /\ wake # "no"
    /\ Leave(IF wake = "value" /\ app = "raised" THEN "error" ELSE "stopped")
    /\ UNCHANGED <<app, input, output, sent, received, cancels>>

\* MUTANT: the message is taken before the cancellation is noticed.
ReceiveTakes ==
    /\ pc = "getOutput" /\ wake # "no" /\ output > 0
    /\ output' = output - 1
    /\ IF wake = "value" THEN Leave("message") /\ received' = received + 1
       ELSE Leave("cancelled") /\ UNCHANGED received
    /\ UNCHANGED <<app, input, sent, cancels>>

ReceiveResumes ==
    /\ pc = "getOutput" /\ wake = "value"
    /\ output' = output - 1 /\ received' = received + 1
    /\ Leave("message")
    /\ UNCHANGED <<app, input, sent, cancels>>

\* MUTANT: the application is cancelled and not awaited.
ReceiveAbandons ==
    /\ pc = "getOutput" /\ wake = "cancel"
    /\ IF timer = "expired" THEN app' = AppCancelled /\ Leave("timeout")
       ELSE Leave("cancelled") /\ UNCHANGED app
    /\ UNCHANGED <<input, output, sent, received, cancels>>

\* _do_exit: CancelledError after the timer fired becomes TimeoutError, and
\* the application is stopped before it is raised.
ReceiveCancelled ==
    /\ pc = "getOutput" /\ wake = "cancel"
    /\ CASE timer # "expired" -> Leave("cancelled") /\ UNCHANGED app
         [] timer = "expired" /\ Done ->
               Leave(IF app = "returned" THEN "timeout" ELSE Result) /\ UNCHANGED app
         [] OTHER -> app' = "cancelling" /\ Suspend("killApp", "off")
    /\ UNCHANGED <<input, output, sent, received, cancels>>

KillResumes ==
    /\ pc = "killApp" /\ wake # "no"
    /\ Leave(IF wake = "value" /\ app = "raised" THEN "error" ELSE "timeout")
    /\ UNCHANGED <<app, input, output, sent, received, cancels>>

\* receive_nothing(): after an interval, again or at the end of the timeout.
NothingPolls ==
    /\ pc = "sleep"
    /\ \/ wake = "cancel" /\ Leave("cancelled")
       \/ wake = "no" /\ output > 0 /\ Leave("something")
       \/ wake = "no" /\ output = 0 /\ Leave("nothing")
    /\ UNCHANGED <<app, input, output, sent, received, cancels>>

-----------------------------------------------------------------------------
(* Around the operations: the timer, cancellations, the application.        *)

\* Task.cancel() of the test task.
CancelTest ==
    IF wake = "no" /\ pc \in {"waitApp", "killApp"}
    THEN app' = AppCancelled /\ UNCHANGED wake
    ELSE wake' = "cancel" /\ UNCHANGED app

\* MUTANT: the timer only sets _cancelled.
TimerIdle ==
    /\ timer = "armed"
    /\ timer' = "expired"
    /\ UNCHANGED <<app, input, output, sent, received, pc, wake, outcome, cancels>>

\* timeout._cancel_task
TimerFires ==
    /\ timer = "armed"
    /\ timer' = "expired"
    /\ CancelTest
    /\ UNCHANGED <<input, output, sent, received, pc, outcome, cancels>>

CancelFromOutside ==
    /\ pc # "user" /\ cancels < MaxCancels
    /\ cancels' = cancels + 1
    /\ CancelTest
    /\ UNCHANGED <<input, output, sent, received, pc, timer, outcome>>

AppReceives ==
    /\ app = "running" /\ input > 0
    /\ input' = input - 1
    /\ UNCHANGED <<app, output, sent, received, testVars, cancels>>

AppSends ==
    /\ app = "running" /\ sent < MaxMessages
    /\ sent' = sent + 1 /\ output' = output + 1
    /\ wake' = IF pc = "getOutput" /\ wake = "no" THEN "value" ELSE wake
    /\ UNCHANGED <<app, input, received, pc, timer, outcome, cancels>>

\* The application ends; only a cancellation ends it as cancelled.
AppEnds ==
    /\ app \in {"running", "cancelling"}
    /\ \E r \in {"returned", "raised"} \union (IF app = "cancelling" THEN {"cancelled"} ELSE {}) :
          /\ app' = r
          /\ wake' = IF pc \in {"waitApp", "killApp"}
                     THEN IF r = "cancelled" THEN "cancel" ELSE "value"
                     ELSE wake
    /\ UNCHANGED <<input, output, sent, received, pc, timer, outcome, cancels>>

AppSuppresses ==
    /\ Stubborn /\ app = "cancelling"
    /\ app' = "running"
    /\ UNCHANGED <<input, output, sent, received, testVars, cancels>>

Operation ==
    \/ WaitDone \/ Wait \/ RaiseFromTask \/ SendInput
    \/ ReceiveReady \/ Receive \/ ReceiveNothing \/ Stop

Resume ==
    WaitResumes \/ ReceiveResumes \/ ReceiveCancelled \/ KillResumes \/ NothingPolls

Next ==
    \/ Operation \/ Resume
    \/ TimerFires \/ CancelFromOutside
    \/ AppReceives \/ AppSends \/ AppEnds \/ AppSuppresses

Spec == Init /\ [][Next]_vars

\* The loop runs what is ready and its timers; a cancelled application ends,
\* unless it suppresses the cancellation.
FairSpec ==
    /\ Spec
    /\ WF_vars(Resume) /\ WF_vars(TimerFires)
    /\ WF_vars(app = "cancelling" /\ AppEnds)

-----------------------------------------------------------------------------
(* What makes it correct.                                                   *)

\* Every message of the application is returned once or is still there: a
\* cancellation that races with a message does not lose it.
NoOutputLost == sent = received + output

\* An operation that timed out, or waited for the application to stop, leaves
\* no application running behind the test's back.
AppStopped == pc = "user" /\ outcome \in {"timeout", "stopped"} => Done

\* wait() returns any exceptions of the application (its docstring).
WaitReturnsErrors ==
    [][pc = "waitApp" /\ app = "raised" /\ pc' = "user" => outcome' = "error"]_vars

\* An operation with a timeout ends once the time is up, unless it is left
\* waiting for an application that suppressed its cancellation.
OperationsEnd ==
    timer = "armed" ~> \/ pc = "user"
                       \/ pc \in {"waitApp", "killApp"} /\ app = "running" /\ timer # "armed"
=============================================================================
