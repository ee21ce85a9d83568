-------------------------- MODULE CommunicatorProofs --------------------------
(***************************************************************************)
(* Theorems of Communicator, for any bounds on messages and cancellations,  *)
(* with and without timeouts, whether or not the application is stubborn.   *)
(***************************************************************************)
EXTENDS Communicator, TLAPS

\* A test task that is about to resume in receive_output() with a value has a
\* message to take: nobody else takes one meanwhile.
ValueIsThere == pc = "getOutput" /\ wake = "value" => output > 0

\* A test task that waits for the application resumes only once it is done: a
\* cancellation before is passed on to the application.
WokenWhenDone == pc \in {"waitApp", "killApp"} /\ wake # "no" => Done

Inv == TypeOK /\ NoOutputLost /\ AppStopped /\ ValueIsThere /\ WokenWhenDone

-----------------------------------------------------------------------------
\* An operation, up to where it suspends or ends, keeps the invariant.
LEMMA OperationKeeps == ASSUME Inv, Operation PROVE Inv'
<1> USE CommunicatorAssumption
       DEF Inv, TypeOK, NoOutputLost, AppStopped, ValueIsThere, WokenWhenDone, Done, testVars
<1>1. CASE WaitDone
  BY <1>1 DEF WaitDone, Leave
<1>2. CASE Wait
  BY <1>2 DEF Wait, Started, Suspend, Entered
<1>3. CASE RaiseFromTask
  BY <1>3 DEF RaiseFromTask, Leave, Result
<1>4. CASE SendInput
  BY <1>4 DEF SendInput, NothingToRaise, Started, Leave
<1>5. CASE ReceiveReady
  BY <1>5 DEF ReceiveReady, NothingToRaise, Leave
<1>6. CASE Receive
  BY <1>6 DEF Receive, NothingToRaise, Started, Suspend, Entered
<1>7. CASE ReceiveNothing
  BY <1>7 DEF ReceiveNothing, NothingToRaise, Started, Leave, Suspend
<1>8. CASE Stop
  BY <1>8 DEF Stop, Leave, Result
<1> QED
  BY <1>1, <1>2, <1>3, <1>4, <1>5, <1>6, <1>7, <1>8 DEF Operation

\* So does the rest of it, when the test task resumes.
LEMMA ResumeKeeps == ASSUME Inv, Resume PROVE Inv'
<1> USE CommunicatorAssumption
       DEF Inv, TypeOK, NoOutputLost, AppStopped, ValueIsThere, WokenWhenDone, Done, testVars
<1>1. CASE WaitResumes
  BY <1>1 DEF WaitResumes, Leave
<1>2. CASE ReceiveResumes
  BY <1>2 DEF ReceiveResumes, Leave
<1>3. CASE ReceiveCancelled
  BY <1>3 DEF ReceiveCancelled, Leave, Suspend, Result
<1>4. CASE KillResumes
  BY <1>4 DEF KillResumes, Leave
<1>5. CASE NothingPolls
  BY <1>5 DEF NothingPolls, Leave
<1> QED
  BY <1>1, <1>2, <1>3, <1>4, <1>5 DEF Resume

\* So do the timer, cancellations and the application.
LEMMA OthersKeep ==
    ASSUME Inv, TimerFires \/ CancelFromOutside \/ AppReceives \/ AppSends \/ AppEnds
                  \/ AppSuppresses
    PROVE  Inv'
<1> USE CommunicatorAssumption
       DEF Inv, TypeOK, NoOutputLost, AppStopped, ValueIsThere, WokenWhenDone, Done, testVars
<1>1. CASE TimerFires
  BY <1>1 DEF TimerFires, CancelTest, AppCancelled
<1>2. CASE CancelFromOutside
  BY <1>2 DEF CancelFromOutside, CancelTest, AppCancelled
<1>3. CASE AppReceives
  BY <1>3 DEF AppReceives
<1>4. CASE AppSends
  BY <1>4 DEF AppSends
<1>5. CASE AppEnds
  BY <1>5 DEF AppEnds
<1>6. CASE AppSuppresses
  BY <1>6 DEF AppSuppresses
<1> QED
  BY <1>1, <1>2, <1>3, <1>4, <1>5, <1>6

LEMMA Invariant == Spec => []Inv
<1>1. Init => Inv
  BY CommunicatorAssumption
     DEF Init, Inv, TypeOK, NoOutputLost, AppStopped, ValueIsThere, WokenWhenDone, Done
<1>2. Inv /\ [Next]_vars => Inv'
  <2> SUFFICES ASSUME Inv, [Next]_vars PROVE Inv'
    OBVIOUS
  <2>1. CASE UNCHANGED vars
    BY <2>1 DEF vars, testVars, Inv, TypeOK, NoOutputLost, AppStopped, ValueIsThere,
                WokenWhenDone, Done
  <2> QED
    BY <2>1, OperationKeeps, ResumeKeeps, OthersKeep DEF Next
<1> QED
  BY <1>1, <1>2, PTL DEF Spec

-----------------------------------------------------------------------------
\* The cells of ApplicationCommunicator keep their types, and no timer is armed
\* when the test is in no operation.
THEOREM TypeCorrect == Spec => []TypeOK
<1>1. Inv => TypeOK
  BY DEF Inv
<1> QED
  BY <1>1, Invariant, PTL

\* A message of the application is returned once or still in its queue, however
\* timers and cancellations race with it in receive_output().
THEOREM OutputKept == Spec => []NoOutputLost
<1>1. Inv => NoOutputLost
  BY DEF Inv
<1> QED
  BY <1>1, Invariant, PTL

\* When an operation reports that the time is up, or returns because the
\* application stopped, the application is done.
THEOREM ApplicationStopped == Spec => []AppStopped
<1>1. Inv => AppStopped
  BY DEF Inv
<1> QED
  BY <1>1, Invariant, PTL
=============================================================================
