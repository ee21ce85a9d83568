-------------------- MODULE CurrentThreadExecutorProofs --------------------
(***************************************************************************)
(* Theorems of CurrentThreadExecutor, for any number of executors, items    *)
(* and threads.                                                            *)
(***************************************************************************)
EXTENDS CurrentThreadExecutor, TLAPS

(***************************************************************************)
(* Type correctness.  The cases of Next are kept apart by actor: the pump   *)
(* and its future, and the submitting thread.                               *)
(***************************************************************************)

\* Every step of a pump, and of the future it waits for, keeps the types.
LEMMA PumpType ==
    ASSUME TypeOK, NEW e \in Executors,
           Pump(e) \/ FutureDone(e) \/ DoneCallback(e)
    PROVE  TypeOK'
<1> USE NoneAssumption DEF TypeOK, Phases, Statuses, execVars, itemVars
<1>1. CASE StartPumping(e)  BY <1>1 DEF StartPumping
<1>2. CASE PumpWait(e)      BY <1>2 DEF PumpWait
<1>3. CASE PumpTake(e)
  <2>1. queue[e] \in Seq(Items) /\ queue[e] # <<>>  BY <1>3 DEF PumpTake
  <2>2. Head(queue[e]) \in Items /\ Tail(queue[e]) \in Seq(Items)  BY <2>1
  <2> QED  BY <1>3, <2>2 DEF PumpTake
<1>4. CASE PumpExit(e)      BY <1>4 DEF PumpExit
<1>5. CASE RunSkip(e)       BY <1>5 DEF RunSkip
<1>6. CASE RunStart(e)      BY <1>6 DEF RunStart
<1>7. CASE RunEnd(e)        BY <1>7 DEF RunEnd
<1>8. CASE FutureDone(e)    BY <1>8 DEF FutureDone
<1>9. CASE DoneCallback(e)  BY <1>9 DEF DoneCallback, Notified
<1> QED  BY <1>1, <1>2, <1>3, <1>4, <1>5, <1>6, <1>7, <1>8, <1>9 DEF Pump

\* Every step of a call of submit(), and of a cancellation, keeps the types.
LEMMA SubmitType ==
    ASSUME TypeOK, NEW i \in Items, Submit(i) \/ Cancel(i)
    PROVE  TypeOK'
<1> USE NoneAssumption DEF TypeOK, Phases, Statuses, execVars, itemVars
<1>1. CASE SubmitAccept(i)
  <2>1. at[i] \in Executors  BY <1>1 DEF SubmitAccept
  <2>2. Append(queue[at[i]], i) \in Seq(Items)  BY <2>1
  <2> QED  BY <1>1, <2>1, <2>2 DEF SubmitAccept, Notified
<1>2. CASE SubmitWalk(i)    BY <1>2 DEF SubmitWalk
<1>3. CASE SubmitRefuse(i)  BY <1>3 DEF SubmitRefuse
<1>4. CASE Cancel(i)        BY <1>4 DEF Cancel
<1> QED  BY <1>1, <1>2, <1>3, <1>4 DEF Submit

\* The cells of every object keep their types: an executor always knows its
\* thread, holds an item exactly while it runs one, and a walk has a place.
THEOREM TypeCorrect == Spec => []TypeOK
<1>1. Init => TypeOK
  BY NoneAssumption DEF Init, TypeOK, Phases, Statuses
<1>2. TypeOK /\ [Next]_vars => TypeOK'
  <2> SUFFICES ASSUME TypeOK, [Next]_vars PROVE TypeOK'
    OBVIOUS
  <2> USE NoneAssumption
  <2>1. ASSUME NEW t \in Threads, NEW e \in Executors,
               NEW o \in Created \union {None}, Create(t, e, o)
        PROVE  TypeOK'
    BY <2>1 DEF Create, TypeOK, Phases, Created, itemVars
  <2>2. ASSUME NEW e \in Executors, Pump(e) \/ FutureDone(e) \/ DoneCallback(e)
        PROVE  TypeOK'
    BY <2>2, PumpType
  <2>3. ASSUME NEW t \in Threads, NEW i \in Items, NEW e \in Executors,
               SubmitBegin(t, i, e)
        PROVE  TypeOK'
    BY <2>3 DEF SubmitBegin, TypeOK, Statuses, execVars
  <2>4. ASSUME NEW i \in Items, Submit(i) \/ Cancel(i)
        PROVE  TypeOK'
    BY <2>4, SubmitType
  <2>5. CASE UNCHANGED vars
    BY <2>5 DEF vars, execVars, itemVars, TypeOK
  <2> QED  BY <2>1, <2>2, <2>3, <2>4, <2>5 DEF Next
<1> QED  BY <1>1, <1>2, PTL DEF Spec

-----------------------------------------------------------------------------
(***************************************************************************)
(* No work is left behind.  NoStrandedWork is inductive with the types:     *)
(* broken is never reset once the executor pumps, and only an executor that *)
(* is not broken is given work, under the lock that a quitting pump holds.  *)
(***************************************************************************)

\* An executor that has returned to its caller is closed and empty for good.
THEOREM NothingStranded == Spec => []NoStrandedWork
<1>1. Init => NoStrandedWork
  BY DEF Init, NoStrandedWork
<1>2. TypeOK /\ NoStrandedWork /\ [Next]_vars => NoStrandedWork'
  <2> SUFFICES ASSUME TypeOK, NoStrandedWork, [Next]_vars PROVE NoStrandedWork'
    OBVIOUS
  <2> USE DEF TypeOK, NoStrandedWork
  <2>1. ASSUME NEW t \in Threads, NEW e \in Executors,
               NEW o \in Created \union {None}, Create(t, e, o)
        PROVE  NoStrandedWork'
    BY <2>1 DEF Create
  <2>2. ASSUME NEW e \in Executors, Pump(e)
        PROVE  NoStrandedWork'
    BY <2>2 DEF Pump, StartPumping, PumpWait, PumpTake, PumpExit,
                RunSkip, RunStart, RunEnd
  <2>3. ASSUME NEW e \in Executors, FutureDone(e) \/ DoneCallback(e)
        PROVE  NoStrandedWork'
    BY <2>3 DEF FutureDone, DoneCallback, Notified
  <2>4. ASSUME NEW t \in Threads, NEW i \in Items, NEW e \in Executors,
               SubmitBegin(t, i, e)
        PROVE  NoStrandedWork'
    BY <2>4 DEF SubmitBegin, execVars
  <2>5. ASSUME NEW i \in Items, SubmitAccept(i)
        PROVE  NoStrandedWork'
    BY <2>5 DEF SubmitAccept, Notified
  <2>6. ASSUME NEW i \in Items, SubmitWalk(i) \/ SubmitRefuse(i) \/ Cancel(i)
        PROVE  NoStrandedWork'
    BY <2>6 DEF SubmitWalk, SubmitRefuse, Cancel, execVars
  <2>7. CASE UNCHANGED vars
    BY <2>7 DEF vars, execVars
  <2> QED  BY <2>1, <2>2, <2>3, <2>4, <2>5, <2>6, <2>7 DEF Next, Submit
<1> QED  BY <1>1, <1>2, TypeCorrect, PTL DEF Spec

(***************************************************************************)
(* No wake-up is lost.  A pump goes to sleep under the lock, having seen an *)
(* empty queue and an open executor; the only steps that change either one, *)
(* SubmitAccept and DoneCallback, notify in the same critical section.      *)
(***************************************************************************)

\* A sleeping pump has nothing to do.
THEOREM NoWakeupLost == Spec => []NoLostWakeup
<1>1. Init => NoLostWakeup
  BY DEF Init, NoLostWakeup
<1>2. TypeOK /\ NoLostWakeup /\ [Next]_vars => NoLostWakeup'
  <2> SUFFICES ASSUME TypeOK, NoLostWakeup, [Next]_vars PROVE NoLostWakeup'
    OBVIOUS
  <2> USE DEF TypeOK, NoLostWakeup
  <2>1. ASSUME NEW t \in Threads, NEW e \in Executors,
               NEW o \in Created \union {None}, Create(t, e, o)
        PROVE  NoLostWakeup'
    BY <2>1 DEF Create
  <2>2. ASSUME NEW e \in Executors, Pump(e)
        PROVE  NoLostWakeup'
    BY <2>2 DEF Pump, StartPumping, PumpWait, PumpTake, PumpExit,
                RunSkip, RunStart, RunEnd
  <2>3. ASSUME NEW e \in Executors, FutureDone(e) \/ DoneCallback(e)
        PROVE  NoLostWakeup'
    BY <2>3 DEF FutureDone, DoneCallback, Notified
  <2>4. ASSUME NEW t \in Threads, NEW i \in Items, NEW e \in Executors,
               SubmitBegin(t, i, e)
        PROVE  NoLostWakeup'
    BY <2>4 DEF SubmitBegin, execVars
  <2>5. ASSUME NEW i \in Items, SubmitAccept(i)
        PROVE  NoLostWakeup'
    BY <2>5 DEF SubmitAccept, Notified
  <2>6. ASSUME NEW i \in Items, SubmitWalk(i) \/ SubmitRefuse(i) \/ Cancel(i)
        PROVE  NoLostWakeup'
    BY <2>6 DEF SubmitWalk, SubmitRefuse, Cancel, execVars
  <2>7. CASE UNCHANGED vars
    BY <2>7 DEF vars, execVars
  <2> QED  BY <2>1, <2>2, <2>3, <2>4, <2>5, <2>6, <2>7 DEF Next, Submit
<1> QED  BY <1>1, <1>2, TypeCorrect, PTL DEF Spec

(***************************************************************************)
(* Submissions pass over nothing but executors that have quit.  The         *)
(* property is inductive together with BrokenPumps: an executor that is       *)
(* broken has begun to pump, so its _old_executor is fixed and _broken stays.*)
(***************************************************************************)

BrokenPumps == \A e \in Executors : broken[e] => pc[e] \notin {"unborn", "created"}

SkipInv == BrokenPumps /\ PassesOnlyQuitExecutors

\* A step after which whatever was passed over is still broken and in place.
StackKept == \A c \in Executors : broken[c] => broken'[c] /\ old'[c] = old[c]

LEMMA PassedStays ==
    ASSUME PassesOnlyQuitExecutors, StackKept, NEW i \in Items, target[i] # None,
           target'[i] = target[i], at'[i] = at[i]
    PROVE  \E C \in SUBSET Executors :
              /\ target'[i] \in C \union {at'[i]}
              /\ \A c \in C : broken'[c] /\ old'[c] \in C \union {at'[i]}
<1>1. PICK C \in SUBSET Executors :
         /\ target[i] \in C \union {at[i]}
         /\ \A c \in C : broken[c] /\ old[c] \in C \union {at[i]}
  BY DEF PassesOnlyQuitExecutors
<1>2. \A c \in C : broken'[c] /\ old'[c] \in C \union {at'[i]}
  BY <1>1 DEF StackKept
<1>3. target'[i] \in C \union {at'[i]}
  BY <1>1
<1> QED  BY <1>2, <1>3

\* The step of the walk: the executor left behind joins the ones passed over.
LEMMA WalkPasses ==
    ASSUME TypeOK, PassesOnlyQuitExecutors, NEW i \in Items,
           SubmitWalk(i) \/ SubmitRefuse(i)
    PROVE  PassesOnlyQuitExecutors'
<1>1. /\ at[i] \in Executors /\ broken[at[i]] /\ target[i] # None
      /\ at' = [at EXCEPT ![i] = old[at[i]]]
      /\ UNCHANGED <<broken, old, target>>
  BY NoneAssumption DEF SubmitWalk, SubmitRefuse, execVars, TypeOK
<1>2. at'[i] = old[at[i]] /\ \A j \in Items : j # i => at'[j] = at[j]
  BY <1>1 DEF TypeOK
<1> SUFFICES ASSUME NEW j \in Items, target'[j] # None
             PROVE  \E C \in SUBSET Executors :
                       /\ target'[j] \in C \union {at'[j]}
                       /\ \A c \in C : broken'[c] /\ old'[c] \in C \union {at'[j]}
  BY DEF PassesOnlyQuitExecutors
<1>3. CASE j # i
  BY <1>1, <1>2, <1>3, PassedStays DEF StackKept
<1>4. CASE j = i
  <2>1. PICK C \in SUBSET Executors :
           /\ target[i] \in C \union {at[i]}
           /\ \A c \in C : broken[c] /\ old[c] \in C \union {at[i]}
    BY <1>1 DEF PassesOnlyQuitExecutors
  <2> DEFINE D == C \union {at[i]}
  <2>2. D \in SUBSET Executors /\ target'[i] \in D
    BY <1>1, <2>1
  <2>3. ASSUME NEW c \in D PROVE broken'[c] /\ old'[c] \in D \union {at'[i]}
    BY <1>1, <1>2, <2>1
  <2> HIDE DEF D
  <2>4. D \in SUBSET Executors /\ \A c \in D : broken'[c] /\ old'[c] \in D \union {at'[i]}
    BY <2>2, <2>3
  <2> QED  BY <1>4, <2>2, <2>4
<1> QED  BY <1>3, <1>4

LEMMA SkipInvariant == Spec => []SkipInv
<1>1. Init => SkipInv
  BY DEF Init, SkipInv, BrokenPumps, PassesOnlyQuitExecutors
<1>2. TypeOK /\ SkipInv /\ [Next]_vars => SkipInv'
  <2> SUFFICES ASSUME TypeOK, SkipInv, [Next]_vars PROVE SkipInv'
    OBVIOUS
  <2> USE DEF SkipInv
  <2>1. ASSUME NEW t \in Threads, NEW e \in Executors,
               NEW o \in Created \union {None}, Create(t, e, o)
        PROVE  SkipInv'
    <3>1. StackKept /\ BrokenPumps'
      BY <2>1 DEF TypeOK, Create, BrokenPumps, StackKept
    <3>2. PassesOnlyQuitExecutors'
      BY <2>1, <3>1, PassedStays DEF Create, itemVars, PassesOnlyQuitExecutors
    <3> QED  BY <3>1, <3>2
  <2>2. ASSUME NEW e \in Executors, Pump(e) \/ FutureDone(e) \/ DoneCallback(e)
        PROVE  SkipInv'
    <3>1. CASE StartPumping(e)
      <4>1. StackKept /\ BrokenPumps'
        BY <3>1 DEF StartPumping, TypeOK, BrokenPumps, StackKept
      <4> QED  BY <3>1, <4>1, PassedStays
               DEF StartPumping, itemVars, PassesOnlyQuitExecutors
    <3>2. CASE PumpWait(e) \/ PumpTake(e) \/ PumpExit(e) \/ RunSkip(e)
                 \/ RunStart(e) \/ RunEnd(e) \/ FutureDone(e)
      <4>1. StackKept /\ BrokenPumps'
        BY <3>2 DEF PumpWait, PumpTake, PumpExit, RunSkip, RunStart, RunEnd,
                    FutureDone, TypeOK, BrokenPumps, StackKept
      <4>2. UNCHANGED <<target, at>>
        BY <3>2 DEF PumpWait, PumpTake, PumpExit, RunSkip, RunStart, RunEnd,
                    FutureDone, itemVars
      <4> QED  BY <4>1, <4>2, PassedStays DEF PassesOnlyQuitExecutors
    <3>3. CASE DoneCallback(e)
      <4>1. StackKept /\ BrokenPumps'
        BY <3>3 DEF DoneCallback, Notified, TypeOK, BrokenPumps, StackKept
      <4> QED  BY <3>3, <4>1, PassedStays
               DEF DoneCallback, itemVars, PassesOnlyQuitExecutors
    <3> QED  BY <2>2, <3>1, <3>2, <3>3 DEF Pump
  <2>3. ASSUME NEW t \in Threads, NEW i \in Items, NEW e \in Executors,
               SubmitBegin(t, i, e)
        PROVE  SkipInv'
    <3>1. StackKept /\ BrokenPumps'
      BY <2>3 DEF SubmitBegin, execVars, BrokenPumps, StackKept
    <3>2. target'[i] = e /\ at'[i] = e
      BY <2>3 DEF SubmitBegin, TypeOK
    <3>3. \A j \in Items : j # i => /\ target'[j] = target[j] /\ at'[j] = at[j]
      BY <2>3 DEF SubmitBegin, TypeOK
    <3>4. \E C \in SUBSET Executors :
             /\ target'[i] \in C \union {at'[i]}
             /\ \A c \in C : broken'[c] /\ old'[c] \in C \union {at'[i]}
      <4>1. {} \in SUBSET Executors /\ target'[i] \in {} \union {at'[i]}
        BY <3>2
      <4> QED  BY <4>1
    <3>5. PassesOnlyQuitExecutors'
      BY <3>1, <3>3, <3>4, PassedStays DEF PassesOnlyQuitExecutors
    <3> QED  BY <3>1, <3>5
  <2>4. ASSUME NEW i \in Items, SubmitAccept(i) \/ Cancel(i)
        PROVE  SkipInv'
    <3>1. StackKept /\ BrokenPumps'
      BY <2>4 DEF SubmitAccept, Cancel, Notified, execVars, TypeOK, BrokenPumps,
                  StackKept
    <3>2. UNCHANGED <<target, at>>
      BY <2>4 DEF SubmitAccept, Cancel, TypeOK
    <3>3. PassesOnlyQuitExecutors'
      BY <3>1, <3>2, PassedStays DEF PassesOnlyQuitExecutors
    <3> QED  BY <3>1, <3>3
  <2>5. ASSUME NEW i \in Items, SubmitWalk(i) \/ SubmitRefuse(i)
        PROVE  SkipInv'
    <3>1. BrokenPumps'
      BY <2>5 DEF SubmitWalk, SubmitRefuse, execVars, BrokenPumps
    <3> QED  BY <2>5, <3>1, WalkPasses
  <2>6. CASE UNCHANGED vars
    BY <2>6 DEF vars, execVars, itemVars, BrokenPumps,
                PassesOnlyQuitExecutors
  <2> QED  BY <2>1, <2>2, <2>3, <2>4, <2>5, <2>6 DEF Next, Submit
<1> QED  BY <1>1, <1>2, TypeCorrect, PTL DEF Spec

\* Work is never placed further up the stack than the closest executor still
\* running, and never refused while there is one.
THEOREM OnlyQuitPassed == Spec => []PassesOnlyQuitExecutors
<1>1. SkipInv => PassesOnlyQuitExecutors
  BY DEF SkipInv
<1> QED  BY <1>1, SkipInvariant, PTL

-----------------------------------------------------------------------------
(***************************************************************************)
(* The executors implement the mailboxes of WorkHandoff.  Each action is a  *)
(* step of it or a stutter, given two more facts: executors that calls and  *)
(* other executors refer to have been created (Grounded), and an item is    *)
(* run once (Working).                                                      *)
(***************************************************************************)

Grounded ==
    /\ \A e \in Executors : old[e] # None => old[e] \in Created
    /\ \A i \in Items : status[i] = "walking" => at[i] \in Created

Working ==
    /\ \A e \in Executors : pc[e] = "running" => status[work[e]] = "running"
    /\ \A e, f \in Executors :
          pc[e] = "running" /\ pc[f] = "running" /\ work[e] = work[f] => e = f

PlacedInv == Grounded /\ Working

\* A walk is always at an executor that was created, and no item is run twice
\* at once, however submit() and the pumps interleave.
LEMMA PlacedInvariant == Spec => []PlacedInv
<1>1. Init => PlacedInv
  BY DEF Init, PlacedInv, Grounded, Working
<1>2. TypeOK /\ PlacedInv /\ [Next]_vars => PlacedInv'
  <2> SUFFICES ASSUME TypeOK, PlacedInv, [Next]_vars PROVE PlacedInv'
    OBVIOUS
  <2> USE NoneAssumption DEF TypeOK, PlacedInv, Grounded, Working, Created
  <2>1. ASSUME NEW t \in Threads, NEW e \in Executors,
               NEW o \in Created \union {None}, Create(t, e, o)
        PROVE  PlacedInv'
    BY <2>1 DEF Create, itemVars
  <2>2. ASSUME NEW e \in Executors, Pump(e)
        PROVE  PlacedInv'
    <3>1. CASE StartPumping(e)
      BY <3>1 DEF StartPumping, itemVars
    <3>2. CASE PumpWait(e)
      BY <3>2 DEF PumpWait, itemVars
    <3>3. CASE PumpExit(e)
      BY <3>3 DEF PumpExit, itemVars
    <3>4. CASE PumpTake(e)
      BY <3>4 DEF PumpTake, itemVars
    <3>5. CASE RunSkip(e)
      BY <3>5 DEF RunSkip, itemVars
    <3>6. CASE RunStart(e)
      BY <3>6 DEF RunStart, Statuses
    <3>7. CASE RunEnd(e)
      BY <3>7 DEF RunEnd, Statuses
    <3> QED  BY <2>2, <3>1, <3>2, <3>3, <3>4, <3>5, <3>6, <3>7 DEF Pump
  <2>3. ASSUME NEW e \in Executors, FutureDone(e) \/ DoneCallback(e)
        PROVE  PlacedInv'
    <3>1. CASE FutureDone(e)
      BY <3>1 DEF FutureDone, itemVars
    <3>2. CASE DoneCallback(e)
      BY <3>2 DEF DoneCallback, Notified, itemVars
    <3> QED  BY <2>3, <3>1, <3>2
  <2>4. ASSUME NEW t \in Threads, NEW i \in Items, NEW e \in Executors,
               SubmitBegin(t, i, e)
        PROVE  PlacedInv'
    BY <2>4 DEF SubmitBegin, execVars
  <2>5. ASSUME NEW i \in Items, SubmitAccept(i)
        PROVE  PlacedInv'
    BY <2>5 DEF SubmitAccept, Notified
  <2>6. ASSUME NEW i \in Items, SubmitWalk(i) \/ SubmitRefuse(i) \/ Cancel(i)
        PROVE  PlacedInv'
    <3>1. CASE SubmitWalk(i)
      BY <3>1 DEF SubmitWalk, execVars
    <3>2. CASE SubmitRefuse(i)
      BY <3>2 DEF SubmitRefuse, execVars
    <3>3. CASE Cancel(i)
      BY <3>3 DEF Cancel, execVars
    <3> QED  BY <2>6, <3>1, <3>2, <3>3
  <2>7. CASE UNCHANGED vars
    BY <2>7 DEF vars, execVars, itemVars
  <2> QED  BY <2>1, <2>2, <2>3, <2>4, <2>5, <2>6, <2>7 DEF Next, Submit
<1> QED  BY <1>1, <1>2, TypeCorrect, PTL DEF Spec

\* All that is known of the executors.
Known == TypeOK /\ NoStrandedWork /\ BrokenPumps /\ PassesOnlyQuitExecutors /\ PlacedInv

\* What the mailboxes and the jobs stand for.
States == [e \in Executors |-> MailboxState(e)]
Jobs == [i \in Items |-> JobState[status[i]]]

LEMMA StatesAre ==
    ASSUME Known, NEW e \in Executors
    PROVE  /\ States[e] \in {"none", "open", "closed", "gone"}
           /\ States[e] = "none" <=> pc[e] = "unborn"
           /\ States[e] = "gone" <=> pc[e] = "exited"
           /\ States[e] = "closed" <=> broken[e] /\ pc[e] # "exited"
  BY DEF Known, TypeOK, States, MailboxState, Phases, BrokenPumps

LEMMA JobsAre ==
    ASSUME TypeOK, NEW i \in Items
    PROVE  /\ status[i] = "idle" => Jobs[i] = "new"
           /\ status[i] = "walking" => Jobs[i] = "aimed"
           /\ status[i] = "queued" => Jobs[i] = "posted"
           /\ status[i] = "running" => Jobs[i] = "started"
           /\ status[i] = "finished" => Jobs[i] = "finished"
           /\ status[i] = "cancelled" => Jobs[i] = "cancelled"
           /\ status[i] = "refused" => Jobs[i] = "refused"
  BY DEF Jobs, JobState

\* A step in which only e changes its phase, and broken, changes its mailbox only.
LEMMA StatesStep ==
    ASSUME NEW e \in Executors,
           \A f \in Executors \ {e} : pc'[f] = pc[f] /\ broken'[f] = broken[f]
    PROVE  States' = [States EXCEPT ![e] = MailboxState(e)']
  BY DEF States, MailboxState

\* The jobs follow the items.
LEMMA JobsStep ==
    ASSUME NEW i \in Items, NEW s \in Statuses, status' = [status EXCEPT ![i] = s], TypeOK
    PROVE  Jobs' = [Jobs EXCEPT ![i] = JobState[s]]
  BY DEF Jobs, TypeOK

\* The steps of the blocking call, in the mailbox of its executor.
LEMMA CreateOpens ==
    ASSUME Known, NEW t \in Threads, NEW e \in Executors,
           NEW o \in Created \union {None}, Create(t, e, o)
    PROVE  Handoff!Open(e, o)
<1> USE DEF Create, itemVars
<1>1. States[e] = "none" /\ ~ broken[e]
  BY StatesAre DEF Known, BrokenPumps
<1>2. o # None => States[o] # "none"
  BY StatesAre, NoneAssumption DEF Created
<1>3. States' = [States EXCEPT ![e] = "open"]
  <2>1. pc'[e] = "created" /\ \A f \in Executors \ {e} : pc'[f] = pc[f] /\ broken'[f] = broken[f]
    BY DEF Known, TypeOK
  <2>2. MailboxState(e)' = "open"
    BY <1>1, <2>1 DEF MailboxState
  <2> QED  BY <2>1, <2>2, StatesStep
<1>4. Jobs' = Jobs /\ UNCHANGED <<queue, work, target>> /\ old' = [old EXCEPT ![e] = o]
  BY DEF Jobs
<1> QED  BY <1>1, <1>2, <1>3, <1>4 DEF Handoff!Open, States, Jobs

\* broken is set: in StartPumping or in the future's callback.
LEMMA BreakingCloses ==
    ASSUME Known, NEW e \in Executors, pc[e] \notin {"unborn", "exited"}, ~ broken[e],
           broken' = [broken EXCEPT ![e] = TRUE], pc'[e] \notin {"unborn", "exited"},
           \A f \in Executors \ {e} : pc'[f] = pc[f],
           UNCHANGED <<old, queue, work, status, target>>
    PROVE  Handoff!Close(e)
<1>1. States[e] = "open"
  BY StatesAre
<1>2. States' = [States EXCEPT ![e] = "closed"]
  <2>1. broken'[e] /\ \A f \in Executors \ {e} : broken'[f] = broken[f]
    BY DEF Known, TypeOK
  <2>2. MailboxState(e)' = "closed"
    BY <2>1 DEF MailboxState
  <2> QED  BY <2>1, <2>2, StatesStep
<1>3. Jobs' = Jobs
  BY DEF Jobs
<1> QED  BY <1>1, <1>2, <1>3 DEF Handoff!Close, States, Jobs

\* Phases other than those mailboxes tell apart.
LEMMA StatesSame ==
    ASSUME NEW e \in Executors, broken' = broken, \A f \in Executors \ {e} : pc'[f] = pc[f],
           pc[e] \notin {"unborn", "exited"}, pc'[e] \notin {"unborn", "exited"}
    PROVE  States' = States
  BY DEF States, MailboxState

LEMMA PumpSteps ==
    ASSUME Known, NEW e \in Executors, Pump(e) \/ FutureDone(e) \/ DoneCallback(e)
    PROVE  [Handoff!Next]_(Handoff!vars)
<1> USE DEF itemVars
<1>1. CASE StartPumping(e)
  <2>1. pc[e] = "created" /\ pc'[e] = "ready" /\ \A f \in Executors \ {e} : pc'[f] = pc[f]
    BY <1>1 DEF StartPumping, Known, TypeOK
  <2>2. ~ broken[e] /\ broken' = [broken EXCEPT ![e] = done[e]]
    BY <1>1, <2>1 DEF StartPumping, Known, BrokenPumps
  <2>3. CASE done[e]
    <3>1. done[e] = TRUE
      BY <2>3 DEF Known, TypeOK
    <3>2. Handoff!Close(e)
      BY <1>1, <2>1, <2>2, <3>1, BreakingCloses DEF StartPumping
    <3> QED  BY <3>2 DEF Handoff!Next
  <2>4. CASE ~ done[e]
    <3>1. broken' = broken
      BY <2>2, <2>4 DEF Known, TypeOK
    <3>2. States' = States /\ Jobs' = Jobs
      BY <1>1, <2>1, <3>1, StatesSame DEF StartPumping, Jobs
    <3> QED  BY <1>1, <3>2 DEF StartPumping, States, Jobs, Handoff!vars, Handoff!mailVars
  <2> QED  BY <2>3, <2>4
<1>2. CASE PumpWait(e)
  <2>1. States' = States /\ Jobs' = Jobs
    <3>1. pc[e] = "ready" /\ pc'[e] = "waiting" /\ \A f \in Executors \ {e} : pc'[f] = pc[f]
      BY <1>2 DEF PumpWait, Known, TypeOK
    <3> QED  BY <1>2, <3>1, StatesSame DEF PumpWait, Jobs
  <2> QED  BY <1>2, <2>1 DEF PumpWait, States, Jobs, Handoff!vars, Handoff!mailVars
<1>3. CASE PumpTake(e)
  <2>1. pc[e] = "ready" /\ pc'[e] = "taken" /\ \A f \in Executors \ {e} : pc'[f] = pc[f]
    BY <1>3 DEF PumpTake, Known, TypeOK
  <2>2. States' = States /\ Jobs' = Jobs
    BY <1>3, <2>1, StatesSame DEF PumpTake, Jobs
  <2>3. States[e] \in {"open", "closed"} /\ work[e] = None
    BY <2>1, StatesAre DEF Known, TypeOK
  <2>4. Handoff!Take(e)
    BY <1>3, <2>2, <2>3 DEF PumpTake, States, Jobs, Handoff!Take
  <2> QED  BY <2>4 DEF Handoff!Next
<1>4. CASE PumpExit(e)
  <2>1. pc[e] = "ready" /\ pc'[e] = "exited" /\ \A f \in Executors \ {e} : pc'[f] = pc[f]
    BY <1>4 DEF PumpExit, Known, TypeOK
  <2>2. States[e] = "closed" /\ work[e] = None /\ queue[e] = <<>>
    BY <1>4, <2>1, StatesAre DEF PumpExit, Known, TypeOK
  <2>3. States' = [States EXCEPT ![e] = "gone"] /\ Jobs' = Jobs
    <3>1. MailboxState(e)' = "gone"
      BY <2>1 DEF MailboxState
    <3> QED  BY <1>4, <2>1, <3>1, StatesStep DEF PumpExit, Jobs
  <2>4. Handoff!Leave(e)
    BY <1>4, <2>2, <2>3 DEF PumpExit, States, Jobs, Handoff!Leave
  <2> QED  BY <2>4 DEF Handoff!Next
<1>5. CASE RunSkip(e)
  <2>1. pc[e] = "taken" /\ pc'[e] = "ready" /\ \A f \in Executors \ {e} : pc'[f] = pc[f]
    BY <1>5 DEF RunSkip, Known, TypeOK
  <2>2. States' = States /\ Jobs' = Jobs
    BY <1>5, <2>1, StatesSame DEF RunSkip, Jobs
  <2>3. work[e] # None /\ Jobs[work[e]] = "cancelled"
    BY <1>5, <2>1, JobsAre DEF RunSkip, Known, TypeOK
  <2>4. Handoff!PutDown(e)
    BY <1>5, <2>2, <2>3 DEF RunSkip, States, Jobs, Handoff!PutDown
  <2> QED  BY <2>4 DEF Handoff!Next
<1>6. CASE RunStart(e)
  <2>1. pc[e] = "taken" /\ pc'[e] = "running" /\ \A f \in Executors \ {e} : pc'[f] = pc[f]
    BY <1>6 DEF RunStart, Known, TypeOK
  <2>2. work[e] # None /\ work[e] \in Items /\ Jobs[work[e]] = "posted"
    BY <1>6, <2>1, JobsAre DEF RunStart, Known, TypeOK
  <2>3. States' = States
    BY <1>6, <2>1, StatesSame DEF RunStart
  <2>4. Jobs' = [Jobs EXCEPT ![work[e]] = "started"]
    <3>1. "running" \in Statuses /\ JobState["running"] = "started"
      BY DEF Statuses, JobState
    <3> QED  BY <1>6, <2>2, <3>1, JobsStep DEF RunStart, Known
  <2>5. Handoff!StartJob(e)
    BY <1>6, <2>2, <2>3, <2>4 DEF RunStart, States, Jobs, Handoff!StartJob, Handoff!mailVars
  <2> QED  BY <2>5 DEF Handoff!Next
<1>7. CASE RunEnd(e)
  <2>1. pc[e] = "running" /\ pc'[e] = "ready" /\ \A f \in Executors \ {e} : pc'[f] = pc[f]
    BY <1>7 DEF RunEnd, Known, TypeOK
  <2>2. work[e] # None /\ work[e] \in Items /\ Jobs[work[e]] = "started"
    BY <2>1, JobsAre DEF Known, TypeOK, PlacedInv, Working
  <2>3. States' = States
    BY <1>7, <2>1, StatesSame DEF RunEnd
  <2>4. Jobs' = [Jobs EXCEPT ![work[e]] = "finished"]
    <3>1. "finished" \in Statuses /\ JobState["finished"] = "finished"
      BY DEF Statuses, JobState
    <3> QED  BY <1>7, <2>2, <3>1, JobsStep DEF RunEnd, Known
  <2>5. Handoff!PutDown(e)
    BY <1>7, <2>2, <2>3, <2>4 DEF RunEnd, States, Jobs, Handoff!PutDown
  <2> QED  BY <2>5 DEF Handoff!Next
<1>8. CASE FutureDone(e)
  BY <1>8 DEF FutureDone, MailboxState, Handoff!vars, Handoff!mailVars
<1>9. CASE DoneCallback(e)
  <2>1. pc[e] \notin {"unborn", "exited"} /\ ~ broken[e]
    BY <1>9 DEF DoneCallback, Known, NoStrandedWork
  <2>2. pc'[e] \notin {"unborn", "exited"} /\ \A f \in Executors \ {e} : pc'[f] = pc[f]
    BY <1>9, <2>1 DEF DoneCallback, Notified, Known, TypeOK
  <2>3. Handoff!Close(e)
    BY <1>9, <2>1, <2>2, BreakingCloses DEF DoneCallback
  <2> QED  BY <2>3 DEF Handoff!Next
<1> QED  BY <1>1, <1>2, <1>3, <1>4, <1>5, <1>6, <1>7, <1>8, <1>9 DEF Pump

\* The executors passed over lead from the target to the place of the walk.
LEMMA WalkLeads ==
    ASSUME Known, NEW i \in Items, status[i] = "walking"
    PROVE  /\ ~ broken[at[i]] => Handoff!Leads(target[i], at[i])
           /\ broken[at[i]] /\ old[at[i]] = None => Handoff!Leads(target[i], None)
<1>1. target[i] # None /\ at[i] \in Executors
  BY NoneAssumption DEF Known, TypeOK
<1>2. PICK C \in SUBSET Executors :
         /\ target[i] \in C \union {at[i]}
         /\ \A c \in C : broken[c] /\ old[c] \in C \union {at[i]}
  BY <1>1 DEF Known, PassesOnlyQuitExecutors
<1>3. \A c \in Executors : broken[c] => States[c] \in {"closed", "gone"}
  BY StatesAre
<1>4. CASE ~ broken[at[i]]
  <2>1. at[i] \notin C
    BY <1>2, <1>4
  <2>2. \A c \in C : States[c] \in {"closed", "gone"} /\ old[c] \in C \union {at[i]}
    BY <1>2, <1>3
  <2> QED  BY <1>2, <1>4, <2>1, <2>2 DEF Handoff!Leads, States
<1>5. CASE broken[at[i]] /\ old[at[i]] = None
  <2> DEFINE D == C \union {at[i]}
  <2>1. D \in SUBSET Executors /\ target[i] \in D \union {None} /\ None \notin D
    BY <1>1, <1>2, NoneAssumption
  <2>2. \A c \in D : States[c] \in {"closed", "gone"} /\ old[c] \in D \union {None}
    BY <1>1, <1>2, <1>3, <1>5
  <2> HIDE DEF D
  <2> QED  BY <1>5, <2>1, <2>2 DEF Handoff!Leads, States
<1> QED  BY <1>4, <1>5

LEMMA SubmitSteps ==
    ASSUME Known, NEW i \in Items, Submit(i) \/ Cancel(i)
    PROVE  [Handoff!Next]_(Handoff!vars)
<1>1. CASE SubmitAccept(i)
  <2>1. /\ status[i] = "walking" /\ at[i] \in Executors /\ pc[at[i]] # "unborn"
        /\ ~ broken[at[i]]
    BY <1>1, NoneAssumption DEF SubmitAccept, Known, TypeOK, PlacedInv, Grounded, Created
  <2>2. PICK e \in Executors : e = at[i]
    BY <2>1
  <2>3. pc[e] # "exited"
    BY <2>1, <2>2 DEF Known, NoStrandedWork
  <2>4. States[e] = "open" /\ Jobs[i] = "aimed"
    BY <2>1, <2>3, <2>2, StatesAre, JobsAre DEF Known
  <2>5. Handoff!Leads(target[i], e)
    BY <2>1, <2>2, WalkLeads
  <2>6. States' = States
    <3>1. pc'[e] \notin {"unborn", "exited"} /\ \A f \in Executors \ {e} : pc'[f] = pc[f]
      BY <1>1, <2>1, <2>3, <2>2 DEF SubmitAccept, Notified, Known, TypeOK
    <3>2. broken' = broken
      BY <1>1 DEF SubmitAccept
    <3> QED  BY <2>1, <2>3, <2>2, <3>1, <3>2, StatesSame
  <2>7. Jobs' = [Jobs EXCEPT ![i] = "posted"]
    <3>1. "queued" \in Statuses /\ JobState["queued"] = "posted"
      BY DEF Statuses, JobState
    <3> QED  BY <1>1, <3>1, JobsStep DEF SubmitAccept, Known
  <2>8. Handoff!Post(i, e)
    BY <1>1, <2>4, <2>5, <2>6, <2>7, <2>2 DEF SubmitAccept, States, Jobs, Handoff!Post
  <2> QED  BY <2>8 DEF Handoff!Next
<1>2. CASE SubmitWalk(i)
  BY <1>2 DEF SubmitWalk, execVars, MailboxState, Handoff!vars, Handoff!mailVars
<1>3. CASE SubmitRefuse(i)
  <2>1. Jobs[i] = "aimed" /\ Handoff!Leads(target[i], None)
    BY <1>3, WalkLeads, JobsAre DEF SubmitRefuse, Known
  <2>2. Jobs' = [Jobs EXCEPT ![i] = "refused"]
    <3>1. "refused" \in Statuses /\ JobState["refused"] = "refused"
      BY DEF Statuses, JobState
    <3> QED  BY <1>3, <3>1, JobsStep DEF SubmitRefuse, Known
  <2>3. States' = States
    BY <1>3 DEF SubmitRefuse, execVars, States, MailboxState
  <2>4. Handoff!Refuse(i)
    BY <1>3, <2>1, <2>2, <2>3 DEF SubmitRefuse, execVars, States, Jobs, Handoff!Refuse, Handoff!mailVars
  <2> QED  BY <2>4 DEF Handoff!Next
<1>4. CASE Cancel(i)
  <2>1. Jobs[i] = "posted"
    BY <1>4, JobsAre DEF Cancel, Known
  <2>2. Jobs' = [Jobs EXCEPT ![i] = "cancelled"]
    <3>1. "cancelled" \in Statuses /\ JobState["cancelled"] = "cancelled"
      BY DEF Statuses, JobState
    <3> QED  BY <1>4, <3>1, JobsStep DEF Cancel, Known
  <2>3. States' = States
    BY <1>4 DEF Cancel, execVars, States, MailboxState
  <2>4. Handoff!Cancel(i)
    BY <1>4, <2>1, <2>2, <2>3 DEF Cancel, execVars, States, Jobs, Handoff!Cancel, Handoff!mailVars
  <2> QED  BY <2>4 DEF Handoff!Next
<1> QED  BY <1>1, <1>2, <1>3, <1>4 DEF Submit

LEMMA SubmitBeginAims ==
    ASSUME Known, NEW t \in Threads, NEW i \in Items, NEW e \in Executors,
           SubmitBegin(t, i, e)
    PROVE  Handoff!Aim(i, e)
<1>1. Jobs[i] = "new" /\ States[e] # "none"
  BY JobsAre, StatesAre DEF SubmitBegin, Known, Created
<1>2. Jobs' = [Jobs EXCEPT ![i] = "aimed"]
  <2>1. "walking" \in Statuses /\ JobState["walking"] = "aimed"
    BY DEF Statuses, JobState
  <2> QED  BY <2>1, JobsStep DEF SubmitBegin, Known
<1>3. States' = States
  BY DEF SubmitBegin, execVars, States, MailboxState
<1> QED  BY <1>1, <1>2, <1>3 DEF SubmitBegin, execVars, States, Jobs, Handoff!Aim, Handoff!mailVars

\* However submit()'s walk over several locks interleaves with executors that
\* quit, the callers of CurrentThreadExecutor see atomic mailboxes: work goes to
\* the closest open one, or is refused when none is, and is run in its order.
THEOREM Implements == Spec => ImplementsHandoff
<1>1. Init => Handoff!Init
  BY DEF Init, Handoff!Init, MailboxState, JobState
<1>2. Known /\ [Next]_vars => [Handoff!Next]_(Handoff!vars)
  <2> SUFFICES ASSUME Known, [Next]_vars PROVE [Handoff!Next]_(Handoff!vars)
    OBVIOUS
  <2>1. ASSUME NEW t \in Threads, NEW e \in Executors,
               NEW o \in Created \union {None}, Create(t, e, o)
        PROVE  Handoff!Next
    <3>1. Handoff!Open(e, o)
      BY <2>1, CreateOpens
    <3>2. o \in Executors \union {None}
      BY DEF Created
    <3> QED  BY <3>1, <3>2 DEF Handoff!Next
  <2>2. ASSUME NEW t \in Threads, NEW i \in Items, NEW e \in Executors, SubmitBegin(t, i, e)
        PROVE  Handoff!Next
    BY <2>2, SubmitBeginAims DEF Handoff!Next
  <2>3. CASE UNCHANGED vars
    BY <2>3 DEF vars, execVars, itemVars, MailboxState, Handoff!vars, Handoff!mailVars
  <2> QED  BY <2>1, <2>2, <2>3, PumpSteps, SubmitSteps DEF Next
<1>3. TypeOK /\ NoStrandedWork /\ SkipInv /\ PlacedInv => Known
  BY DEF Known, SkipInv
<1> QED
  BY <1>1, <1>2, <1>3, TypeCorrect, NothingStranded, SkipInvariant, PlacedInvariant, PTL
  DEF Spec, ImplementsHandoff, Handoff!Spec
=============================================================================
