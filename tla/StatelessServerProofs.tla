------------------------ MODULE StatelessServerProofs ------------------------
(***************************************************************************)
(* The safety of StatelessServer, for any scopes, any bound on instances,   *)
(* any max_applications and any clock.                                      *)
(***************************************************************************)
EXTENDS StatelessServer, FiniteSetTheorems, WellFoundedInduction, TLAPS

\* While application_exception() does not await, the checker's list holds only
\* what is in the table: no other code runs during its pass.
PassAtomic ==
    /\ checker = "sleeping" => todo = {}
    /\ checker = "hook" => hook
    /\ hook \/ todo \subseteq table

\* Then a running application that nobody told to stop is in the table ...
LiveInTable == hook \/ \A i \in Instances : task[i] = "live" => i \in table

\* ... and what is in the table was not told to stop.
NoneCancelled ==
    hook \/ SelfCancel \/ server # "up"
    \/ \A i \in table : task[i] \notin {"cancelling", "cancelled"}

Inv ==
    /\ TypeOK /\ AtMostOneOver /\ ServerSurvives
    /\ PassAtomic /\ LiveInTable /\ NoneCancelled

-----------------------------------------------------------------------------
\* A set of numbers that is not empty has a least one.
LEMMA LeastNumber ==
    ASSUME NEW S \in SUBSET Nat, S # {}
    PROVE  \E m \in S : \A n \in S : m <= n
<1> DEFINE R == OpToRel(<, Nat)
<1>1. PICK m \in S : \A n \in S : ~ (<<n, m>> \in R)
  BY NatLessThanWellFounded, WFMin
<1>2. \A n \in S : ~ (n < m)
  BY <1>1 DEF OpToRel
<1> QED
  BY <1>2

\* Tables are finite, so they can be counted.
LEMMA TablesFinite == \A T \in SUBSET Instances : IsFiniteSet(T) /\ Cardinality(T) \in Nat
<1>1. IsFiniteSet(Instances)
  BY ServerAssumption, FS_Interval DEF Instances
<1> QED
  BY <1>1, FS_Subset, FS_CardinalityType

\* A table that is not empty has an entry older than all others.
LEMMA OldestExists ==
    ASSUME TypeOK, table # {}
    PROVE  \E o \in table : \A i \in table : ~ Older(i, o)
<1>1. PICK t \in {used[i] : i \in table} : \A u \in {used[i] : i \in table} : t <= u
  <2>1. {used[i] : i \in table} \in SUBSET Nat
    BY ServerAssumption DEF TypeOK
  <2> QED
    BY <2>1, LeastNumber
<1>2. PICK o \in {i \in table : used[i] = t} : \A i \in {i \in table : used[i] = t} : o <= i
  <2>1. table \subseteq Nat
    BY ServerAssumption DEF TypeOK, Instances
  <2>2. {i \in table : used[i] = t} # {}
    BY <1>1
  <2> QED
    BY <2>1, <2>2, LeastNumber
<1>3. ASSUME NEW i \in table PROVE ~ Older(i, o)
  <2>1. used[i] \in Nat /\ used[o] \in Nat /\ i \in Nat /\ o \in Nat
    BY ServerAssumption DEF TypeOK, Instances
  <2> QED
    BY <1>1, <1>2, <2>1 DEF Older
<1> QED
  BY <1>2, <1>3

\* The loop in get_or_create_application_instance makes room for one.
LEMMA RoomMade ==
    ASSUME TypeOK, AtMostOneOver
    PROVE  Cardinality(table \ Reclaimed) <= MaxApplications
<1> USE ServerAssumption
<1>1. /\ table \in SUBSET Instances /\ IsFiniteSet(table) /\ Cardinality(table) \in Nat
      /\ Cardinality(table \ Reclaimed) \in Nat
  BY TablesFinite DEF TypeOK
<1>2. CASE Cardinality(table) <= MaxApplications
  <2>1. Cardinality(table \ Reclaimed) <= Cardinality(table)
    BY <1>1, FS_Subset
  <2> QED
    BY <1>1, <1>2, <2>1
<1>3. CASE Cardinality(table) = MaxApplications + 1
  <2>1. PICK o \in table : \A i \in table : ~ Older(i, o)
    <3>1. table # {}
      BY <1>3, FS_EmptySet
    <3> QED
      BY <3>1, OldestExists
  <2>2. Cardinality({j \in table : Older(j, o)}) = 0
    <3>1. {j \in table : Older(j, o)} = {}
      BY <2>1
    <3> QED
      BY <3>1, FS_EmptySet
  <2>3. o \in Reclaimed
    BY <1>3, <2>1, <2>2 DEF Reclaimed
  <2>4. /\ IsFiniteSet(table \ {o})
        /\ Cardinality(table \ {o}) = Cardinality(table) - 1
    BY <1>1, <2>1, FS_RemoveElement
  <2>5. Cardinality(table \ Reclaimed) <= Cardinality(table \ {o})
    <3>1. table \ Reclaimed \in SUBSET (table \ {o})
      BY <2>3
    <3> QED
      BY <2>4, <3>1, FS_Subset
  <2> QED
    BY <1>1, <1>3, <2>4, <2>5
<1> QED
  BY <1>1, <1>2, <1>3 DEF AtMostOneOver

-----------------------------------------------------------------------------
\* Making an instance keeps the bound, the scopes apart, and leaves a task
\* uncancelled only in the table.
LEMMA CreateKeeps == ASSUME Inv, NEW s \in Scopes, Create(s) PROVE Inv'
<1> USE ServerAssumption
<1>1. PICK i \in Instances, t \in 0 .. MaxTime :
          /\ Fresh(i) /\ ReadClock(t)
          /\ table' = (table \ Reclaimed) \union {i}
          /\ task' = [j \in Instances |-> IF j = i THEN "live" ELSE Cancelled(j)]
          /\ scope' = [scope EXCEPT ![i] = s]
          /\ used' = [j \in Instances |->
                         IF j = i THEN t ELSE IF j \in Reclaimed THEN 0 ELSE used[j]]
  BY DEF Create, Without
<1>2. /\ \A j \in table : scope[j] # s
      /\ LoopFree /\ UNCHANGED <<server, checker, todo, reported, hook>>
  BY DEF Create
<1>3. Reclaimed \subseteq table
  BY DEF Reclaimed
<1>4. TypeOK'
  <2>1. task' \in [Instances -> TaskStates] /\ used' \in [Instances -> 0 .. MaxTime]
    BY <1>1 DEF Inv, TypeOK, TaskStates, Cancelled
  <2>2. scope' \in [Instances -> Scopes \union {None}] /\ now' \in 0 .. MaxTime
    BY <1>1 DEF Inv, TypeOK, ReadClock
  <2>3. \A j, k \in table' : scope'[j] = scope'[k] => j = k
    BY <1>1, <1>2 DEF Inv, TypeOK, Fresh
  <2>4. \A j \in Instances : task'[j] = "none" <=> scope'[j] = None
    BY <1>1 DEF Inv, TypeOK, Cancelled
  <2>5. \A j \in (table \union todo)' : task'[j] # "none"
    BY <1>1, <1>2 DEF Inv, TypeOK, Cancelled
  <2> QED
    BY <1>1, <1>2, <2>1, <2>2, <2>3, <2>4, <2>5 DEF Inv, TypeOK
<1>5. AtMostOneOver'
  <2>1. IsFiniteSet(table \ Reclaimed) /\ Cardinality(table \ Reclaimed) \in Nat
    BY TablesFinite DEF Inv, TypeOK
  <2>2. Cardinality(table') <= Cardinality(table \ Reclaimed) + 1
    <3>1. Cardinality((table \ Reclaimed) \union {i}) = Cardinality(table \ Reclaimed)
          \/ Cardinality((table \ Reclaimed) \union {i}) = Cardinality(table \ Reclaimed) + 1
      BY <2>1, FS_AddElement
    <3> QED
      BY <1>1, <2>1, <3>1
  <2>3. Cardinality(table') \in Nat
    BY <1>4, TablesFinite DEF TypeOK
  <2> QED
    BY <2>1, <2>2, <2>3, RoomMade DEF Inv, AtMostOneOver
<1>6. ServerSurvives' /\ PassAtomic' /\ LiveInTable' /\ NoneCancelled'
  <2>1. ServerSurvives'
    BY <1>2 DEF Inv, ServerSurvives, ServerSurvivesAlways
  <2>2. hook \/ todo = {}
    BY <1>2 DEF Inv, PassAtomic, LoopFree, TypeOK
  <2>3. PassAtomic'
    BY <1>2, <2>2 DEF Inv, PassAtomic
  <2>4. LiveInTable'
    BY <1>1, <1>2 DEF Inv, LiveInTable, Cancelled
  <2>5. NoneCancelled'
    BY <1>1, <1>2 DEF Inv, NoneCancelled, Cancelled, TypeOK
  <2> QED
    BY <2>1, <2>3, <2>4, <2>5
<1> QED
  BY <1>4, <1>5, <1>6 DEF Inv

\* Forgetting an instance that is done: its entry, if the pass is atomic.
LEMMA ForgetKeeps ==
    ASSUME Inv, NEW i \in Instances, i \in todo,
           hook \/ task[i] \in {"returned", "raised"}, server = "up", Forget(i), todo' = todo \ {i}, checker' = "scanning",
           UNCHANGED <<scope, task, now, server, hook>>, reported' \subseteq Instances
    PROVE  Inv'
<1> USE ServerAssumption
<1>1. table' \subseteq table /\ (hook \/ table' = table \ {i})
  BY DEF Forget, Inv, PassAtomic, TypeOK
<1>2. TypeOK'
  <2>1. used' \in [Instances -> 0 .. MaxTime]
    BY DEF Forget, Inv, TypeOK
  <2> QED
    BY <1>1, <2>1 DEF Inv, TypeOK
<1>3. AtMostOneOver'
  <2>1. Cardinality(table') <= Cardinality(table) /\ Cardinality(table) \in Nat /\ Cardinality(table') \in Nat
    <3>1. table \in SUBSET Instances
      BY DEF Inv, TypeOK
    <3> QED
      BY <1>1, <3>1, TablesFinite, FS_Subset
  <2> QED
    BY <2>1 DEF Inv, AtMostOneOver
<1>4. ServerSurvives'
  BY DEF Inv, ServerSurvives, ServerSurvivesAlways
<1>5. PassAtomic'
  BY <1>1 DEF Inv, PassAtomic
<1>6. LiveInTable' /\ NoneCancelled'
  BY <1>1 DEF Inv, LiveInTable, NoneCancelled, TypeOK
<1> QED
  BY <1>2, <1>3, <1>4, <1>5, <1>6 DEF Inv

\* A step of the checker.
LEMMA CheckerKeeps == ASSUME Inv, Checker PROVE Inv'
<1> USE DEF Inv, TypeOK, AtMostOneOver, ServerSurvives, ServerSurvivesAlways, PassAtomic,
            LiveInTable, NoneCancelled, appVars
<1>1. CASE CheckerWakes
  BY <1>1 DEF CheckerWakes
<1>2. CASE CheckerSleeps
  BY <1>2 DEF CheckerSleeps
<1>3. ASSUME NEW i \in Instances, CheckSkips(i) PROVE Inv'
  BY <1>3 DEF CheckSkips, Turn
<1>4. ASSUME NEW i \in Instances, CheckReturned(i) PROVE Inv'
  BY <1>4, ForgetKeeps DEF CheckReturned, Turn
<1>5. ASSUME NEW i \in Instances, CheckRaised(i) PROVE Inv'
  <2>1. CASE hook
    BY <1>5, <2>1 DEF CheckRaised, Turn
  <2>2. CASE ~ hook
    BY <1>5, <2>2, ForgetKeeps DEF CheckRaised, Turn
  <2> QED
    BY <2>1, <2>2
<1>6. ASSUME NEW i \in Instances, HookReturns(i) PROVE Inv'
  <2>1. hook
    BY <1>6 DEF HookReturns
  <2> QED
    BY <1>6, <2>1, ForgetKeeps DEF HookReturns
<1>7. ASSUME NEW i \in Instances, CheckCancelled(i) PROVE Inv'
  BY <1>7 DEF CheckCancelled, Turn
<1> QED
  BY <1>1, <1>2, <1>3, <1>4, <1>5, <1>6, <1>7 DEF Checker

\* The other steps leave the table as it is.
LEMMA OthersKeep ==
    ASSUME Inv, (\E s \in Scopes : Reuse(s)) \/ (\E i \in Instances : AppEnds(i)) \/ HandleEnds
    PROVE  Inv'
<1> USE ServerAssumption
    DEF Inv, TypeOK, AtMostOneOver, ServerSurvives, ServerSurvivesAlways, PassAtomic,
        LiveInTable, NoneCancelled, LoopFree
<1>1. ASSUME NEW s \in Scopes, Reuse(s) PROVE Inv'
  BY <1>1 DEF Reuse, ReadClock
<1>2. ASSUME NEW i \in Instances, AppEnds(i) PROVE Inv'
  BY <1>2 DEF AppEnds, TaskStates
<1>3. CASE HandleEnds
  BY <1>3 DEF HandleEnds, TaskStates
<1> QED
  BY <1>1, <1>2, <1>3

LEMMA Invariant == Spec => []Inv
<1>1. Init => Inv
  BY ServerAssumption, FS_EmptySet
     DEF Init, Inv, TypeOK, TaskStates, AtMostOneOver, ServerSurvives, ServerSurvivesAlways,
         PassAtomic, LiveInTable, NoneCancelled
<1>2. Inv /\ [Next]_vars => Inv'
  <2> SUFFICES ASSUME Inv, [Next]_vars PROVE Inv'
    OBVIOUS
  <2>1. CASE UNCHANGED vars
    BY <2>1 DEF vars, appVars, Inv, TypeOK, AtMostOneOver, ServerSurvives,
                ServerSurvivesAlways, PassAtomic, LiveInTable, NoneCancelled
  <2> QED
    BY <2>1, CreateKeeps, CheckerKeeps, OthersKeep DEF Next
<1> QED
  BY <1>1, <1>2, PTL DEF Spec

-----------------------------------------------------------------------------
\* The cells of the server keep their types, the table has one entry per scope,
\* and the checker's list names instances that were started.
THEOREM TypeCorrect == Spec => []TypeOK
<1>1. Inv => TypeOK
  BY DEF Inv
<1> QED
  BY <1>1, Invariant, PTL

\* get_or_create_application_instance never leaves more than one entry over
\* max_applications, however instances come, end and are used.
THEOREM Bounded == Spec => []AtMostOneOver
<1>1. Inv => AtMostOneOver
  BY DEF Inv
<1> QED
  BY <1>1, Invariant, PTL

\* Unless application_exception() awaits, a scope has one application running
\* that nobody told to stop, across evictions, passes of the checker and ends.
THEOREM OneLive == Spec => []OneLivePerScope
<1>1. Inv => OneLivePerScope
  BY DEF Inv, TypeOK, LiveInTable, OneLivePerScope, OneLivePerScopeAlways
<1> QED
  BY <1>1, Invariant, PTL

\* Unless application_exception() awaits or an application ends cancelled by
\* itself, the checker does not meet a future whose exception() raises.
THEOREM Survives == Spec => []ServerSurvives
<1>1. Inv => ServerSurvives
  BY DEF Inv
<1> QED
  BY <1>1, Invariant, PTL

\* Unless application_exception() awaits, the exception of an application is
\* reported before its entry goes, or the entry went to make room.
THEOREM ErrorsReported == Spec => NoErrorDropped
<1> DEFINE Kept == \A i \in table : task[i] = "raised" /\ i \notin table' =>
                      hook \/ i \in reported' \/ table' \ table # {}
<1>1. ASSUME Inv, [Next]_vars PROVE Kept
  <2> USE <1>1
  <2>1. ASSUME NEW s \in Scopes, Create(s) PROVE Kept
    <3>1. PICK i \in Instances : Fresh(i) /\ i \in table'
      BY <2>1 DEF Create
    <3>2. i \notin table
      BY <3>1 DEF Fresh, Inv, TypeOK
    <3> QED
      BY <3>1, <3>2
  <2>2. ASSUME NEW i \in Instances, CheckReturned(i) PROVE Kept
    BY <2>2 DEF CheckReturned, Turn, Forget, Inv, TypeOK, PassAtomic
  <2>3. ASSUME NEW i \in Instances, CheckRaised(i) PROVE Kept
    BY <2>3 DEF CheckRaised, Turn, Forget, Inv, TypeOK, PassAtomic
  <2>4. ASSUME NEW i \in Instances, HookReturns(i) PROVE Kept
    BY <2>4 DEF HookReturns, Inv, PassAtomic
  <2>5. CASE UNCHANGED table
    BY <2>5
  <2> QED
    BY <2>1, <2>2, <2>3, <2>4, <2>5
       DEF Next, vars, appVars, Reuse, AppEnds, HandleEnds, Checker, CheckerWakes,
           CheckerSleeps, CheckSkips, CheckCancelled
<1>2. ASSUME Inv, [Next]_vars PROVE [Kept]_vars
  BY <1>1, <1>2
<1> QED
  BY <1>2, Invariant, PTL DEF Spec, NoErrorDropped

=============================================================================
