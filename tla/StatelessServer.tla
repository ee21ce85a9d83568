--------------------------- MODULE StatelessServer ---------------------------
(***************************************************************************)
(* src/asgiref/server.py: a table of application instances, one per scope,  *)
(* filled by the server's handler, emptied by eviction of the least         *)
(* recently used one and by a checker that wakes up periodically.  All of   *)
(* it runs in one event loop: code is interrupted only where it awaits.     *)
(*                                                                         *)
(* Instances are numbered in the order they are made.  A dict lists its     *)
(* entries in the order they were inserted, here that of their numbers.     *)
(***************************************************************************)
EXTENDS Naturals, FiniteSets

CONSTANTS
    Scopes,           \* scope ids
    MaxInstances,     \* bound on the application instances created
    MaxApplications,  \* max_applications
    MaxTime,          \* bound on the clock time.time() reads
    HookAwaits,       \* may application_exception() be overridden and await
    SelfCancel,       \* may an application end cancelled by itself
    None

ASSUME ServerAssumption ==
    /\ MaxApplications \in Nat \ {0} /\ MaxTime \in Nat
    /\ HookAwaits \subseteq BOOLEAN /\ SelfCancel \in BOOLEAN
    /\ MaxInstances \in Nat /\ None \notin Scopes

VARIABLES
    table,     \* the instances in application_instances
    scope,     \* the scope_id an instance was made for
    used,      \* last_used, 0 for what is not in the table
    task,      \* the state of the instance's future
    now,       \* the latest time read
    server,    \* "up", "stopped" by the end of handle(), or "crashed"
    checker,   \* "sleeping", "scanning", or "hook": awaiting the override
    hook,      \* application_exception() awaits, in this server
    todo,      \* what is left of the checker's list(items())
    reported   \* instances whose exception application_exception() was given

appVars == <<table, scope, used, task, now>>
vars == <<appVars, server, checker, hook, todo, reported>>

Instances == 1 .. MaxInstances

TaskStates == {"none", "live", "cancelling", "returned", "raised", "cancelled"}

Done(i) == task[i] \in {"returned", "raised", "cancelled"}

\* Besides the types: the table has one entry per scope, of a task that was
\* started, and the list the checker works on was taken from the table.
TypeOK ==
    /\ table \subseteq Instances /\ todo \subseteq Instances
    /\ scope \in [Instances -> Scopes \union {None}]
    /\ used \in [Instances -> 0 .. MaxTime]
    /\ task \in [Instances -> TaskStates]
    /\ now \in 0 .. MaxTime
    /\ server \in {"up", "stopped", "crashed"}
    /\ checker \in {"sleeping", "scanning", "hook"}
    /\ reported \subseteq Instances /\ hook \in BOOLEAN
    /\ \A i, j \in table : scope[i] = scope[j] => i = j
    /\ \A i \in Instances : task[i] = "none" <=> scope[i] = None
    /\ \A i \in table \union todo : task[i] # "none"

Init ==
    /\ table = {} /\ todo = {}
    /\ scope = [i \in Instances |-> None]
    /\ used = [i \in Instances |-> 0]
    /\ task = [i \in Instances |-> "none"]
    /\ now = 0
    /\ server = "up"
    /\ checker = "sleeping"
    /\ reported = {}
    /\ hook \in HookAwaits

\* The event loop may run something else than the checker's pass.
LoopFree == server = "up" /\ checker # "scanning"

-----------------------------------------------------------------------------
(* get_or_create_application_instance                                       *)

\* time.time(): the clock may or may not have moved since it was last read.
ReadClock(t) == t \in {now, now + 1} \intersect 0 .. MaxTime /\ now' = t

\* scope_id in self.application_instances
Reuse(s) ==
    /\ LoopFree
    /\ \E i \in table, t \in 0 .. MaxTime :
          /\ scope[i] = s
          /\ ReadClock(t)
          /\ used' = [used EXCEPT ![i] = t]
    /\ UNCHANGED <<table, scope, task, server, checker, todo, reported, hook>>

\* min(last_used), and the first such entry of the dict.
Older(i, j) ==
    \/ used[i] < used[j]
    \/ used[i] = used[j] /\ i < j

\* MUTANT: the bound is one too high.
ReclaimedLate ==
    {i \in table :
        Cardinality({j \in table : Older(j, i)}) + MaxApplications + 1 < Cardinality(table)}

\* while len(application_instances) > max_applications: delete the oldest.
Reclaimed ==
    {i \in table :
        Cardinality({j \in table : Older(j, i)}) + MaxApplications < Cardinality(table)}

\* MUTANT: delete_application_instance leaves the entry in the table.
WithoutNot(S) == table

\* del self.application_instances[scope_id]
Without(S) == table \ S

\* MUTANT: the task of a reclaimed instance is left running.
CancelledNot(i) == task[i]

\* delete_application_instance: if not future.done(): future.cancel()
Cancelled(i) == IF task[i] = "live" /\ i \in Reclaimed THEN "cancelling" ELSE task[i]

\* The next instance to be created.
Fresh(i) == task[i] = "none" /\ \A j \in 1 .. i - 1 : task[j] # "none"

\* MUTANT: the scope is not looked for first.
CreateAlways(s) ==
    /\ LoopFree
    /\ \E i \in Instances, t \in 0 .. MaxTime :
          /\ Fresh(i)
          /\ ReadClock(t)
          /\ table' = Without(Reclaimed) \union {i}
          /\ task' = [j \in Instances |-> IF j = i THEN "live" ELSE Cancelled(j)]
          /\ scope' = [scope EXCEPT ![i] = s]
          /\ used' = [j \in Instances |->
                         IF j = i THEN t ELSE IF j \in Reclaimed THEN 0 ELSE used[j]]
    /\ UNCHANGED <<server, checker, todo, reported, hook>>

\* Make room, then make an instance of the application and run it.
Create(s) ==
    /\ LoopFree
    /\ \A i \in table : scope[i] # s
    /\ \E i \in Instances, t \in 0 .. MaxTime :
          /\ Fresh(i)
          /\ ReadClock(t)
          /\ table' = Without(Reclaimed) \union {i}
          /\ task' = [j \in Instances |-> IF j = i THEN "live" ELSE Cancelled(j)]
          /\ scope' = [scope EXCEPT ![i] = s]
          /\ used' = [j \in Instances |->
                         IF j = i THEN t ELSE IF j \in Reclaimed THEN 0 ELSE used[j]]
    /\ UNCHANGED <<server, checker, todo, reported, hook>>

-----------------------------------------------------------------------------
(* The applications.                                                        *)

\* An application ends: by itself, or because its cancellation reached it.
AppEnds(i) ==
    /\ LoopFree
    /\ \/ task[i] = "live"
          /\ \E r \in {"returned", "raised"} \union (IF SelfCancel THEN {"cancelled"} ELSE {}) :
                task' = [task EXCEPT ![i] = r]
       \/ task[i] = "cancelling"
          /\ \E r \in {"cancelled", "returned", "raised"} : task' = [task EXCEPT ![i] = r]
    /\ UNCHANGED <<table, scope, used, now, server, checker, todo, reported, hook>>

-----------------------------------------------------------------------------
(* application_checker                                                      *)

CheckerWakes ==
    /\ server = "up" /\ checker = "sleeping"
    /\ checker' = "scanning"
    /\ todo' = table
    /\ UNCHANGED <<appVars, server, reported, hook>>

\* MUTANT: instances that are done stay in the table.
ForgetNot(i) == UNCHANGED <<table, used>>

\* del application_instances[scope_id], whatever instance is there now.
Forget(i) ==
    /\ table' = {j \in table : scope[j] # scope[i]}
    /\ used' = [j \in Instances |-> IF scope[j] = scope[i] THEN 0 ELSE used[j]]

\* The checker's pass has come to i.
Turn(i) ==
    /\ server = "up" /\ checker = "scanning"
    /\ i \in todo /\ \A j \in todo : i <= j

CheckSkips(i) ==
    /\ Turn(i)
    /\ ~ Done(i)
    /\ todo' = todo \ {i}
    /\ UNCHANGED <<appVars, server, checker, reported, hook>>

CheckReturned(i) ==
    /\ Turn(i)
    /\ task[i] = "returned"
    /\ Forget(i)
    /\ todo' = todo \ {i}
    /\ UNCHANGED <<scope, task, now, server, checker, reported, hook>>

\* MUTANT: the entry goes without application_exception() being called.
CheckRaisedSilent(i) ==
    /\ Turn(i)
    /\ task[i] = "raised"
    /\ Forget(i) /\ todo' = todo \ {i}
    /\ UNCHANGED <<scope, task, now, server, checker, reported, hook>>

\* await application_exception(): the default one does not suspend.
CheckRaised(i) ==
    /\ Turn(i)
    /\ task[i] = "raised"
    /\ reported' = reported \union {i}
    /\ IF hook
       THEN checker' = "hook" /\ UNCHANGED <<table, used, todo>>
       ELSE Forget(i) /\ todo' = todo \ {i} /\ UNCHANGED checker
    /\ UNCHANGED <<scope, task, now, server, hook>>

HookReturns(i) ==
    /\ server = "up" /\ checker = "hook"
    /\ i \in todo /\ \A j \in todo : i <= j
    /\ checker' = "scanning"
    /\ Forget(i)
    /\ todo' = todo \ {i}
    /\ UNCHANGED <<scope, task, now, server, reported, hook>>

\* future.exception() of a cancelled future raises CancelledError: it ends the
\* checker, the gather() of arun() and with it the server.
CheckCancelled(i) ==
    /\ Turn(i)
    /\ task[i] = "cancelled"
    /\ server' = "crashed"
    /\ UNCHANGED <<appVars, checker, todo, reported, hook>>

CheckerSleeps ==
    /\ server = "up" /\ checker = "scanning" /\ todo = {}
    /\ checker' = "sleeping"
    /\ UNCHANGED <<appVars, server, todo, reported, hook>>

\* handle() returns, Done ends arun(), and asyncio.run cancels what is left.
HandleEnds ==
    /\ LoopFree
    /\ server' = "stopped"
    /\ task' = [i \in Instances |->
                  IF task[i] \in {"live", "cancelling"} THEN "cancelled" ELSE task[i]]
    /\ UNCHANGED <<table, scope, used, now, checker, todo, reported, hook>>

Checker ==
    \/ CheckerWakes \/ CheckerSleeps
    \/ \E i \in Instances :
          CheckSkips(i) \/ CheckReturned(i) \/ CheckRaised(i) \/ HookReturns(i) \/ CheckCancelled(i)

Next ==
    \/ \E s \in Scopes : Reuse(s) \/ Create(s)
    \/ \E i \in Instances : AppEnds(i)
    \/ Checker
    \/ HandleEnds

Spec == Init /\ [][Next]_vars

\* The loop's timer wakes the checker, the loop runs it to its next await, and
\* an override of application_exception() returns.
FairSpec == Spec /\ WF_vars(Checker)

-----------------------------------------------------------------------------
(* What makes it correct.                                                   *)

\* What the loop in get_or_create_application_instance achieves.
AtMostOneOver == Cardinality(table) <= MaxApplications + 1

\* A scope never has two applications running that nobody has cancelled.
OneLivePerScopeAlways ==
    \A i, j \in Instances :
        task[i] = "live" /\ task[j] = "live" /\ scope[i] = scope[j] => i = j

\* It is so while the checker's pass is atomic: what leaves the table is done
\* or was told to stop.  An override that awaits lets the handler replace an
\* instance behind the checker's back, which then forgets the new one.
OneLivePerScope == hook \/ OneLivePerScopeAlways

\* The errors of applications are found, and the server lives on (docstring).
ServerSurvivesAlways == server # "crashed"

\* The checker, and the server with it, outlives every application that does
\* not end cancelled, if its pass is atomic.
ServerSurvives == hook \/ SelfCancel \/ ServerSurvivesAlways

\* The entry of an application that raised leaves the table only after
\* application_exception() was given the exception, or to make room.
NoErrorDropped ==
    [][\A i \in table : task[i] = "raised" /\ i \notin table' =>
          hook \/ i \in reported' \/ table' \ table # {}]_vars

\* What is done does not occupy a place for ever.
DoneForgotten ==
    \A i \in Instances :
        (Done(i) /\ i \in table) ~> (i \notin table \/ server # "up")
=============================================================================
