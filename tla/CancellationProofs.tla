-------------------------- MODULE CancellationProofs --------------------------
(***************************************************************************)
(* The safety of Cancellation, for any number of tasks, calls and           *)
(* cancellations.                                                           *)
(***************************************************************************)
EXTENDS Cancellation, FiniteSetTheorems, WellFoundedInduction, TLAPS

-----------------------------------------------------------------------------
(* Numbers and recursion                                                    *)

\* A set of numbers that is not empty has a least one.
LEMMA LeastNumber ==
    ASSUME NEW S \in SUBSET Nat, S # {}
    PROVE  \E m \in S : \A n \in S : m <= n
<1> DEFINE R == OpToRel(<, Nat)
<1>1. PICK m \in S : \A n \in S : ~ (<<n, m>> \in R)
  BY NatLessThanWellFounded, WFMin
<1>2. \A n \in S : ~ (n < m)
  BY <1>1 DEF OpToRel
<1> QED
  BY <1>2


\* g is the recursion from the numbers up to n, each going down to a smaller
\* one, by step from base.
Descends(n, down) == down \in [1 .. n -> Nat] /\ \A x \in 1 .. n : down[x] < x

Steps(n, V, base, step) == base \in V /\ step \in [(1 .. n) \X V -> V]

Recurs(n, V, g, down, base, step) ==
    /\ g \in [0 .. n -> V] /\ g[0] = base
    /\ \A x \in 1 .. n : g[x] = step[<<x, g[down[x]]>>]

\* Such a recursion exists: it does up to every k, by induction.
LEMMA Recursion ==
    ASSUME NEW n \in Nat, NEW down, Descends(n, down),
           NEW V, NEW base, NEW step, Steps(n, V, base, step)
    PROVE  \E g : Recurs(n, V, g, down, base, step)
<1> USE DEF Descends, Steps
<1> DEFINE Solves(k, g) ==
              /\ g \in [0 .. k -> V] /\ g[0] = base
              /\ \A x \in 1 .. k : g[x] = step[<<x, g[down[x]]>>]
           Lacking == {k \in 0 .. n : ~ \E g : Solves(k, g)}
<1>1. \E g : Solves(0, g)
  <2>1. Solves(0, [x \in 0 .. 0 |-> base])
    OBVIOUS
  <2> QED
    BY <2>1
<1>2. ASSUME NEW k \in 1 .. n, NEW g, Solves(k - 1, g)
      PROVE  \E h : Solves(k, h)
  <2> DEFINE h == [x \in 0 .. k |-> IF x = k THEN step[<<k, g[down[k]]>>] ELSE g[x]]
  <2>1. down[k] \in 0 .. k - 1 /\ g[down[k]] \in V
    BY <1>2
  <2>2. step[<<k, g[down[k]]>>] \in V
    BY <2>1
  <2>3. h \in [0 .. k -> V] /\ h[0] = base
    <3>1. ASSUME NEW x \in 0 .. k PROVE h[x] \in V
      <4>1. x = k \/ x \in 0 .. k - 1
        OBVIOUS
      <4> QED
        BY <1>2, <2>2, <4>1
    <3>2. 0 \in 0 .. k /\ 0 # k
      OBVIOUS
    <3> QED
      BY <1>2, <3>1, <3>2
  <2>4. ASSUME NEW x \in 1 .. k PROVE h[x] = step[<<x, h[down[x]]>>]
    <3>1. down[x] \in 0 .. k - 1
      OBVIOUS
    <3>2. h[down[x]] = g[down[x]]
      BY <3>1
    <3>3. CASE x = k
      <4>1. h[k] = step[<<k, g[down[k]]>>]
        OBVIOUS
      <4> QED
        BY <3>2, <3>3, <4>1
    <3>4. CASE x # k
      <4>1. x \in 1 .. k - 1
        BY <3>4
      <4> QED
        BY <1>2, <3>2, <4>1
    <3> QED
      BY <3>3, <3>4
  <2>5. Solves(k, h)
    BY <2>3, <2>4
  <2> QED
    BY <2>5
<1> HIDE DEF Solves
<1>3. Lacking = {}
  <2> SUFFICES ASSUME Lacking # {} PROVE FALSE
    OBVIOUS
  <2>1. PICK k \in Lacking : \A j \in Lacking : k <= j
    <3>1. Lacking \in SUBSET Nat
      OBVIOUS
    <3> QED
      BY <3>1, LeastNumber
  <2>2. k \in 1 .. n
    BY <1>1
  <2>3. k - 1 \in 0 .. n /\ ~ k <= k - 1
    BY <2>2
  <2>4. k - 1 \notin Lacking
    BY <2>1, <2>3
  <2> QED
    BY <1>2, <2>2, <2>3, <2>4
<1>4. PICK g : Solves(n, g)
  <2>1. n \in 0 .. n
    OBVIOUS
  <2>2. n \notin Lacking
    BY <1>3
  <2> QED
    BY <2>1, <2>2
<1> QED
  BY <1>4 DEF Solves, Recurs

\* A set of numbers up to n that is not empty has a greatest one.
LEMMA GreatestNumber ==
    ASSUME NEW n \in Nat, NEW S \in SUBSET (1 .. n), S # {}
    PROVE  \E m \in S : \A k \in S : k <= m
<1> DEFINE R == {n - k : k \in S}
<1>1. R \in SUBSET Nat /\ R # {}
  <2>1. \A k \in S : n - k \in Nat
    OBVIOUS
  <2> QED
    BY <2>1
<1>2. PICK m \in R : \A k \in R : m <= k
  BY <1>1, LeastNumber
<1>3. PICK g \in S : m = n - g
  OBVIOUS
<1>4. \A k \in S : k <= g
  <2> SUFFICES ASSUME NEW k \in S PROVE k <= g
    OBVIOUS
  <2>1. n - k \in R /\ k \in 1 .. n /\ g \in 1 .. n
    OBVIOUS
  <2>2. n - g <= n - k
    BY <1>2, <1>3, <2>1
  <2> QED
    BY <2>1, <2>2
<1> QED
  BY <1>4

-----------------------------------------------------------------------------
(* The invariant, part by part                                              *)

Typed ==
    /\ task \in Seq(TaskType) /\ Len(task) \in 1 .. MaxTasks
    /\ call \in Seq(CallType) /\ Len(call) \in 0 .. MaxCalls
    /\ tls \in [Threads -> 0 .. MaxCalls] /\ cancels \in 0 .. MaxWork

From(t) == task[t].from
By(c) == call[c].by
List(t) == task[t].list
Thread(c) == call[c].thread

\* A task of AsyncToSync is newer than the tasks it is below, and joins the list
\* of a call in the same thread, its own or one above.
TaskBorn(t) ==
    /\ From(t) \in {None} \union Calls /\ List(t) \in {None} \union Calls
    /\ From(t) = None => List(t) = None
    /\ From(t) # None => /\ List(t) # None /\ From(t) <= List(t)
                         /\ By(From(t)) < t /\ By(List(t)) < t
                         /\ Thread(List(t)) = Thread(From(t))
                         /\ task[t].exec = t
    /\ task[t].exec # None => task[t].exec \in Tasks /\ From(task[t].exec) # None

\* A call that an executor serves is newer than the call whose list the task of
\* that executor joined, and runs in its thread.
CallBorn(c) ==
    /\ By(c) \in Tasks
    /\ call[c].exec # None => /\ call[c].exec \in Tasks /\ From(call[c].exec) # None
                              /\ List(call[c].exec) < c
                              /\ Thread(c) = Thread(From(call[c].exec))

Born == (\A t \in Tasks : TaskBorn(t)) /\ (\A c \in Calls : CallBorn(c))

\* A function is blocked on a task that it made; what a call cancelled was on
\* its list.
Engaged(c) ==
    /\ call[c].fn = "blocked" => call[c].on \in Tasks /\ From(call[c].on) = c
    /\ call[c].fn # "blocked" => call[c].on = None
    /\ call[c].victim # None => call[c].victim \in Tasks /\ List(call[c].victim) = c
    /\ call[c].pc \in {"task", "exec"} => call[c].victim # None

Engages == \A c \in Calls : Engaged(c)

\* A thread-local names a call whose function started in the thread.
Locals ==
    \A h \in Threads : tls[h] # None =>
        tls[h] \in Calls /\ Thread(tls[h]) = h /\ call[tls[h]].fn \in {"running", "blocked", "done"}

Active(c) == call[c].fn \in {"running", "blocked"}
Open(t) == From(t) # None /\ task[t].st # "done"

\* What made a task is blocked until that task is done.
Blocking == \A t \in Tasks : Open(t) => call[From(t)].on = t /\ call[From(t)].fn = "blocked"

\* The active calls of a thread are a stack: all but the last are blocked.
Stacked ==
    \A c, d \in Calls : Active(c) /\ Active(d) /\ Thread(c) = Thread(d) /\ c < d
                           => call[c].fn = "blocked"

\* The call that set the thread-local last is no older than the active ones; if
\* it is not the only one, it was pumped.
Latest ==
    \A d \in Calls : Active(d) =>
       /\ tls[Thread(d)] # None /\ d <= tls[Thread(d)]
       /\ d # tls[Thread(d)] => call[tls[Thread(d)]].exec # None

\* A task that is not done joined its list before later calls of the thread.
Joined ==
    \A t \in Tasks, d \in Calls :
       (Open(t) /\ Active(d) /\ Thread(d) = Thread(From(t)) /\ From(t) < d) => List(t) < d

\* A call that has not ended is the one thing a live task waits for; the future
\* is done after the function, whose result the call returns.
Awaiting ==
    /\ \A c \in Calls : call[c].pc # "ended" =>
          task[By(c)].st = "live" /\ call[c].fut \in {"pending", "done"} /\ call[c].out = "none"
    /\ \A c, d \in Calls :
          (call[c].pc # "ended" /\ call[d].pc # "ended" /\ By(c) = By(d)) => c = d
    /\ \A c \in Calls : call[c].fut = "done" => call[c].fn = "done"
    /\ \A c \in Calls : call[c].out = "value" => call[c].fn = "done" /\ call[c].res = "value"

Structure ==
    /\ Typed /\ Born /\ Engages /\ Locals
    /\ Blocking /\ Stacked /\ Latest /\ Joined /\ Awaiting

-----------------------------------------------------------------------------
(* Types                                                                    *)

LEMMA Sizes == MaxTasks \in Nat \ {0} /\ MaxCalls \in Nat \ {0} /\ MaxWork \in Nat \ {0}
  BY CancellationAssumption

LEMMA TasksTyped ==
    ASSUME Typed
    PROVE  /\ Len(task) \in Nat /\ Tasks = 1 .. Len(task) /\ Tasks \subseteq 1 .. MaxTasks
           /\ task \in [Tasks -> TaskType] /\ \A t \in Tasks : task[t] \in TaskType
<1>1. Len(task) \in Nat /\ task \in [1 .. Len(task) -> TaskType]
  BY DEF Typed
<1>2. Len(task) \in 1 .. MaxTasks
  BY DEF Typed
<1>3. Tasks = 1 .. Len(task)
  BY <1>1 DEF Tasks
<1> QED
  BY <1>1, <1>2, <1>3, Sizes

LEMMA CallsTyped ==
    ASSUME Typed
    PROVE  /\ Len(call) \in Nat /\ Calls = 1 .. Len(call) /\ Calls \subseteq 1 .. MaxCalls
           /\ call \in [Calls -> CallType] /\ \A c \in Calls : call[c] \in CallType
<1>1. Len(call) \in Nat /\ call \in [1 .. Len(call) -> CallType]
  BY DEF Typed
<1>2. Len(call) \in 0 .. MaxCalls
  BY DEF Typed
<1>3. Calls = 1 .. Len(call)
  BY <1>1 DEF Calls
<1> QED
  BY <1>1, <1>2, <1>3, Sizes

States == {"scheduled", "live", "done"}
Doings == {"queued", "running", "blocked", "done", "dropped"}
Futures == {"pending", "done", "cancelled"}
Places == {"shield", "task", "exec", "ended"}

LEMMA TaskParts ==
    ASSUME NEW r \in TaskType
    PROVE  /\ r.from \in 0 .. MaxCalls /\ r.exec \in 0 .. MaxTasks /\ r.loop \in 1 .. MaxTasks
           /\ r.list \in 0 .. MaxCalls /\ r.st \in States /\ r.ask \in BOOLEAN
           /\ r.kept \in BOOLEAN /\ r.res \in Outcomes
  BY DEF TaskType, States

LEMMA CallParts ==
    ASSUME NEW r \in CallType
    PROVE  /\ r.by \in 1 .. MaxTasks /\ r.exec \in 0 .. MaxTasks /\ r.thread \in Threads
           /\ r.fn \in Doings /\ r.on \in 0 .. MaxTasks /\ r.kept \in BOOLEAN
           /\ r.res \in Outcomes /\ r.fut \in Futures /\ r.pc \in Places
           /\ r.victim \in 0 .. MaxTasks /\ r.out \in Outcomes
  BY DEF CallType, Doings, Futures, Places

LEMMA Finite ==
    ASSUME NEW T, NEW n \in Nat, NEW q \in [1 .. n -> T]
    PROVE  q \in Seq(T) /\ Len(q) = n
  OBVIOUS

-----------------------------------------------------------------------------
(* Changing a task or a call                                                *)

\* What tasks and calls are born with, they keep.
SameTask(q, t) ==
    /\ q[t].from = task[t].from /\ q[t].exec = task[t].exec
    /\ q[t].loop = task[t].loop /\ q[t].list = task[t].list

SameCall(q, c) ==
    q[c].by = call[c].by /\ q[c].exec = call[c].exec /\ q[c].thread = call[c].thread

\* The tasks as they are but for what becomes of them.
LikeTasks(q) ==
    q \in Seq(TaskType) /\ Len(q) = Len(task) /\ \A t \in Tasks : SameTask(q, t)

LikeCalls(q) ==
    q \in Seq(CallType) /\ Len(q) = Len(call) /\ \A c \in Calls : SameCall(q, c)

\* A task in another state, a call whose function or whose await moved on.
Turned(r, s, a, k, o) == [r EXCEPT !.st = s, !.ask = a, !.kept = k, !.res = o]
Worked(r, f, o, k, s) == [r EXCEPT !.fn = f, !.on = o, !.kept = k, !.res = s]
Waited(r, f, p, v, o) == [r EXCEPT !.fut = f, !.pc = p, !.victim = v, !.out = o]

IsTurned(r, s, a, k, o) == r.st = s /\ r.ask = a /\ r.kept = k /\ r.res = o
IsWorked(r, f, o, k, s) == r.fn = f /\ r.on = o /\ r.kept = k /\ r.res = s
IsWaited(r, f, p, v, o) == r.fut = f /\ r.pc = p /\ r.victim = v /\ r.out = o

\* The same in both respects.
SameWork(r, q) == r.fn = q.fn /\ r.on = q.on /\ r.kept = q.kept /\ r.res = q.res
SameWait(r, q) == r.fut = q.fut /\ r.pc = q.pc /\ r.victim = q.victim /\ r.out = q.out

Turnable(s, a, k, o) == s \in States /\ a \in BOOLEAN /\ k \in BOOLEAN /\ o \in Outcomes
Workable(f, o, k, s) == f \in Doings /\ o \in 0 .. MaxTasks /\ k \in BOOLEAN /\ s \in Outcomes
Waitable(f, p, v, o) ==
    f \in Futures /\ p \in Places /\ v \in 0 .. MaxTasks /\ o \in Outcomes

LEMMA TurnedTyped ==
    ASSUME NEW r \in TaskType, NEW s, NEW a, NEW k, NEW o, Turnable(s, a, k, o)
    PROVE  /\ Turned(r, s, a, k, o) \in TaskType
           /\ IsTurned(Turned(r, s, a, k, o), s, a, k, o)
           /\ Turned(r, s, a, k, o).from = r.from /\ Turned(r, s, a, k, o).exec = r.exec
           /\ Turned(r, s, a, k, o).loop = r.loop /\ Turned(r, s, a, k, o).list = r.list
  BY DEF TaskType, Turned, Turnable, IsTurned, States

LEMMA WorkedTyped ==
    ASSUME NEW r \in CallType, NEW f, NEW o, NEW k, NEW s, Workable(f, o, k, s)
    PROVE  /\ Worked(r, f, o, k, s) \in CallType
           /\ IsWorked(Worked(r, f, o, k, s), f, o, k, s)
           /\ SameWait(Worked(r, f, o, k, s), r)
           /\ Worked(r, f, o, k, s).by = r.by /\ Worked(r, f, o, k, s).exec = r.exec
           /\ Worked(r, f, o, k, s).thread = r.thread
  BY DEF CallType, Worked, Workable, IsWorked, SameWait, Doings

LEMMA WaitedTyped ==
    ASSUME NEW r \in CallType, NEW f, NEW p, NEW v, NEW o, Waitable(f, p, v, o)
    PROVE  /\ Waited(r, f, p, v, o) \in CallType
           /\ IsWaited(Waited(r, f, p, v, o), f, p, v, o)
           /\ SameWork(Waited(r, f, p, v, o), r)
           /\ Waited(r, f, p, v, o).by = r.by /\ Waited(r, f, p, v, o).exec = r.exec
           /\ Waited(r, f, p, v, o).thread = r.thread
  BY DEF CallType, Waited, Waitable, IsWaited, SameWork, Futures, Places

Puts(p, q, x, r) == p = [q EXCEPT ![x] = r]

TaskBecomes(p, q, t, s, a, k, o) ==
    LikeTasks(p) /\ IsTurned(p[t], s, a, k, o) /\ \A u \in Tasks \ {t} : p[u] = q[u]

TaskPut(p, q, t, s, a, k, o) == p = [q EXCEPT ![t] = Turned(q[t], s, a, k, o)]

LEMMA TaskTurns ==
    ASSUME Typed, NEW q, LikeTasks(q), NEW t \in Tasks, NEW s, NEW a, NEW k, NEW o,
           Turnable(s, a, k, o), NEW p, TaskPut(p, q, t, s, a, k, o)
    PROVE  TaskBecomes(p, q, t, s, a, k, o)
<1>1. Tasks = 1 .. Len(task) /\ Len(task) \in Nat
  BY TasksTyped
<1>2. q \in [Tasks -> TaskType] /\ q[t] \in TaskType
  BY <1>1 DEF LikeTasks
<1> DEFINE r == Turned(q[t], s, a, k, o)
<1>3. r \in TaskType /\ IsTurned(r, s, a, k, o)
      /\ r.from = q[t].from /\ r.exec = q[t].exec /\ r.loop = q[t].loop /\ r.list = q[t].list
  BY <1>2, TurnedTyped
<1>4. p = [q EXCEPT ![t] = r]
  BY DEF TaskPut
<1> HIDE DEF r
<1>5. p \in [Tasks -> TaskType] /\ p[t] = r /\ \A u \in Tasks \ {t} : p[u] = q[u]
  BY <1>2, <1>3, <1>4
<1>6. p \in Seq(TaskType) /\ Len(p) = Len(task)
  <2>1. p \in [1 .. Len(task) -> TaskType]
    BY <1>1, <1>5
  <2>2. \A n \in Nat : \A f \in [1 .. n -> TaskType] : f \in Seq(TaskType) /\ Len(f) = n
    BY Finite
  <2> QED
    BY <1>1, <2>1, <2>2
<1>7. \A u \in Tasks : SameTask(p, u)
  BY <1>3, <1>5 DEF SameTask, LikeTasks
<1> QED
  BY <1>3, <1>5, <1>6, <1>7 DEF LikeTasks, TaskBecomes

LEMMA CallTurns ==
    ASSUME Typed, NEW c \in Calls, NEW r \in CallType, NEW p, Puts(p, call, c, r),
           r.by = call[c].by, r.exec = call[c].exec, r.thread = call[c].thread
    PROVE  LikeCalls(p) /\ p[c] = r /\ \A d \in Calls \ {c} : p[d] = call[d]
<1>1. Calls = 1 .. Len(call) /\ Len(call) \in Nat /\ call \in [Calls -> CallType]
  BY CallsTyped
<1>2. p \in [Calls -> CallType] /\ p[c] = r /\ \A d \in Calls \ {c} : p[d] = call[d]
  BY <1>1 DEF Puts
<1>3. p \in Seq(CallType) /\ Len(p) = Len(call)
  BY <1>1, <1>2, Finite
<1> QED
  BY <1>2, <1>3 DEF LikeCalls, SameCall

WorkBecomes(p, c, f, o, k, s) ==
    /\ LikeCalls(p) /\ IsWorked(p[c], f, o, k, s) /\ SameWait(p[c], call[c])
    /\ \A d \in Calls \ {c} : p[d] = call[d]

WorkPut(p, c, f, o, k, s) == p = [call EXCEPT ![c] = Worked(call[c], f, o, k, s)]

LEMMA WorkTurns ==
    ASSUME Typed, NEW c \in Calls, NEW f, NEW o, NEW k, NEW s, Workable(f, o, k, s),
           NEW p, WorkPut(p, c, f, o, k, s)
    PROVE  WorkBecomes(p, c, f, o, k, s)
<1>1. call[c] \in CallType
  BY CallsTyped
<1>2. PICK r : r = Worked(call[c], f, o, k, s)
  OBVIOUS
<1>3. /\ r \in CallType /\ IsWorked(r, f, o, k, s) /\ SameWait(r, call[c])
      /\ r.by = call[c].by /\ r.exec = call[c].exec /\ r.thread = call[c].thread
  BY <1>1, <1>2, WorkedTyped
<1>4. LikeCalls(p) /\ p[c] = r /\ \A d \in Calls \ {c} : p[d] = call[d]
  <2>1. Puts(p, call, c, r)
    BY <1>2 DEF Puts, WorkPut
  <2> QED
    BY <1>3, <2>1, CallTurns
<1> QED
  BY <1>3, <1>4 DEF WorkBecomes

WaitBecomes(p, c, f, l, v, o) ==
    /\ LikeCalls(p) /\ IsWaited(p[c], f, l, v, o) /\ SameWork(p[c], call[c])
    /\ \A d \in Calls \ {c} : p[d] = call[d]

WaitPut(p, c, f, l, v, o) == p = [call EXCEPT ![c] = Waited(call[c], f, l, v, o)]

LEMMA WaitTurns ==
    ASSUME Typed, NEW c \in Calls, NEW f, NEW l, NEW v, NEW o, Waitable(f, l, v, o),
           NEW p, WaitPut(p, c, f, l, v, o)
    PROVE  WaitBecomes(p, c, f, l, v, o)
<1>1. call[c] \in CallType
  BY CallsTyped
<1>2. PICK r : r = Waited(call[c], f, l, v, o)
  OBVIOUS
<1>3. /\ r \in CallType /\ IsWaited(r, f, l, v, o) /\ SameWork(r, call[c])
      /\ r.by = call[c].by /\ r.exec = call[c].exec /\ r.thread = call[c].thread
  BY <1>1, <1>2, WaitedTyped
<1>4. LikeCalls(p) /\ p[c] = r /\ \A d \in Calls \ {c} : p[d] = call[d]
  <2>1. Puts(p, call, c, r)
    BY <1>2 DEF Puts, WaitPut
  <2> QED
    BY <1>3, <2>1, CallTurns
<1> QED
  BY <1>3, <1>4 DEF WaitBecomes

Kept ==
    /\ Tasks \subseteq Tasks' /\ Calls \subseteq Calls'
    /\ \A t \in Tasks : SameTask(task', t)
    /\ \A c \in Calls : SameCall(call', c)

Stays == LikeTasks(task') /\ LikeCalls(call')

LEMMA AsTheyAre == ASSUME Typed PROVE LikeTasks(task) /\ LikeCalls(call)
  BY DEF Typed, LikeTasks, LikeCalls, SameTask, SameCall

LEMMA StaysKept ==
    ASSUME Typed, Stays, tls' \in [Threads -> 0 .. MaxCalls], cancels' \in 0 .. MaxWork
    PROVE  Typed' /\ Kept /\ Tasks' = Tasks /\ Calls' = Calls
<1>1. Tasks' = Tasks /\ Calls' = Calls
  BY DEF Tasks, Calls, Stays, LikeTasks, LikeCalls, Typed
<1> QED
  BY <1>1 DEF Typed, Kept, Stays, LikeTasks, LikeCalls

\* An exception ends a task, or is caught in it.
Hurt(r, q, how) ==
    /\ r.ask = FALSE
    /\ \/ r.st = "done" /\ r.res = how /\ r.kept = q.kept
       \/ r.st = q.st /\ r.res = q.res /\ r.kept = TRUE

LEMMA ThrownDoes ==
    ASSUME Typed, NEW q, LikeTasks(q), NEW t \in Tasks, NEW how \in Outcomes,
           NEW p \in Thrown(q, t, how)
    PROVE  LikeTasks(p) /\ Hurt(p[t], q[t], how) /\ \A u \in Tasks \ {t} : p[u] = q[u]
<1>1. q \in [Tasks -> TaskType] /\ q[t] \in TaskType
  BY TasksTyped DEF LikeTasks
<1>2. /\ q[t].st \in States /\ q[t].kept \in BOOLEAN /\ q[t].res \in Outcomes
      /\ "done" \in States
  BY <1>1, TaskParts DEF States
<1>3. CASE p = [q EXCEPT ![t].ask = FALSE, ![t].st = "done", ![t].res = how]
  <2>1. PICK s, a, k : s = "done" /\ a = FALSE /\ k = q[t].kept
    OBVIOUS
  <2>2. TaskPut(p, q, t, s, a, k, how)
    BY <1>1, <1>3, <2>1 DEF TaskPut, Turned, TaskType
  <2>3. Turnable(s, a, k, how)
    BY <1>2, <2>1 DEF Turnable
  <2>4. TaskBecomes(p, q, t, s, a, k, how)
    BY <2>2, <2>3, TaskTurns
  <2> QED
    BY <2>1, <2>4 DEF IsTurned, Hurt, TaskBecomes
<1>4. CASE p = [q EXCEPT ![t].ask = FALSE, ![t].kept = TRUE]
  <2>1. PICK s, a, k, o : s = q[t].st /\ a = FALSE /\ k = TRUE /\ o = q[t].res
    OBVIOUS
  <2>2. TaskPut(p, q, t, s, a, k, o)
    BY <1>1, <1>4, <2>1 DEF TaskPut, Turned, TaskType
  <2>3. Turnable(s, a, k, o)
    BY <1>2, <2>1 DEF Turnable
  <2>4. TaskBecomes(p, q, t, s, a, k, o)
    BY <2>2, <2>3, TaskTurns
  <2> QED
    BY <2>1, <2>4 DEF IsTurned, Hurt, TaskBecomes
<1> QED
  BY <1>3, <1>4 DEF Thrown

\* A task that has, or has no more, a CancelledError to throw.
Asked(r, q, a) == r.ask = a /\ r.st = q.st /\ r.kept = q.kept /\ r.res = q.res

Asks(p, q, t, a) == p = [q EXCEPT ![t].ask = a]

LEMMA AskDoes ==
    ASSUME Typed, NEW q, LikeTasks(q), NEW t \in Tasks, NEW a \in BOOLEAN,
           NEW p, Asks(p, q, t, a)
    PROVE  LikeTasks(p) /\ Asked(p[t], q[t], a) /\ \A u \in Tasks \ {t} : p[u] = q[u]
<1>1. q \in [Tasks -> TaskType] /\ q[t] \in TaskType
  BY TasksTyped DEF LikeTasks
<1>2. PICK s, k, o : s = q[t].st /\ k = q[t].kept /\ o = q[t].res
  OBVIOUS
<1>3. Turnable(s, a, k, o)
  BY <1>1, <1>2, TaskParts DEF Turnable
<1>4. TaskPut(p, q, t, s, a, k, o)
  BY <1>1, <1>2 DEF TaskPut, Turned, TaskType, Asks
<1>5. TaskBecomes(p, q, t, s, a, k, o)
  BY <1>3, <1>4, TaskTurns
<1> QED
  BY <1>2, <1>5 DEF IsTurned, Asked, TaskBecomes

-----------------------------------------------------------------------------
(* What each action does                                                    *)

\* The other tasks, the other calls.
OtherTasks(S) == \A u \in Tasks \ S : task'[u] = task[u]
OtherCalls(S) == \A d \in Calls \ S : call'[d] = call[d]

LEMMA BeginDoes ==
    ASSUME Typed, NEW t \in Tasks, Begin(t)
    PROVE  /\ Stays /\ Typed' /\ call' = call /\ tls' = tls /\ OtherTasks({t})
           /\ task[t].st = "scheduled"
           /\ task'[t].ask = task[t].ask /\ task'[t].kept = task[t].kept
           /\ IF task[t].ask THEN task'[t].st = "done" /\ task'[t].res = "cancelled"
                             ELSE task'[t].st = "live" /\ task'[t].res = task[t].res
<1>1. call' = call /\ tls' = tls /\ cancels' = cancels /\ task[t].st = "scheduled"
  BY DEF Begin
<1>2. task \in [Tasks -> TaskType] /\ task[t] \in TaskType
  BY TasksTyped
<1>3. PICK s, a, k, o : /\ s = (IF task[t].ask THEN "done" ELSE "live") /\ a = task[t].ask
                        /\ k = task[t].kept
                        /\ o = (IF task[t].ask THEN "cancelled" ELSE task[t].res)
  OBVIOUS
<1>4. Turnable(s, a, k, o)
  <2>1. a \in BOOLEAN /\ k \in BOOLEAN /\ task[t].res \in Outcomes
    BY <1>2, <1>3, TaskParts
  <2> QED
    BY <1>3, <2>1 DEF Turnable, States, Outcomes
<1>5. TaskPut(task', task, t, s, a, k, o)
  BY <1>2, <1>3 DEF TaskPut, Turned, TaskType, Begin
<1>6. PICK p : p = task'
  OBVIOUS
<1>7. LikeTasks(p) /\ IsTurned(p[t], s, a, k, o) /\ \A u \in Tasks \ {t} : p[u] = task[u]
  <2>1. TaskBecomes(p, task, t, s, a, k, o)
    BY <1>4, <1>5, <1>6, AsTheyAre, TaskTurns
  <2> QED
    BY <2>1 DEF TaskBecomes
<1>8. Stays
  BY <1>1, <1>6, <1>7, AsTheyAre DEF Stays
<1>9. Typed'
  BY <1>1, <1>8, StaysKept DEF Typed
<1> QED
  BY <1>1, <1>3, <1>6, <1>7, <1>8, <1>9 DEF IsTurned, OtherTasks

LEMMA EndTaskDoes ==
    ASSUME Typed, NEW t \in Tasks, EndTask(t)
    PROVE  /\ Stays /\ Typed' /\ call' = call /\ tls' = tls /\ OtherTasks({t})
           /\ task[t].st = "live" /\ Awaited(t) = {}
           /\ IF task[t].ask THEN Hurt(task'[t], task[t], "cancelled")
                             ELSE /\ task'[t].st = "done" /\ task'[t].res = "value"
                                  /\ ~ task'[t].ask /\ task'[t].kept = task[t].kept
<1>1. /\ call' = call /\ tls' = tls /\ cancels' = cancels
      /\ task[t].st = "live" /\ Awaited(t) = {}
  BY DEF EndTask, InUserCode
<1>2. task \in [Tasks -> TaskType] /\ task[t] \in TaskType
  BY TasksTyped
<1>3. PICK p : p = task'
  OBVIOUS
<1>4. /\ LikeTasks(p) /\ \A u \in Tasks \ {t} : p[u] = task[u]
      /\ IF task[t].ask THEN Hurt(p[t], task[t], "cancelled")
                        ELSE /\ p[t].st = "done" /\ p[t].res = "value"
                             /\ ~ p[t].ask /\ p[t].kept = task[t].kept
  <2>1. CASE task[t].ask
    <3>1. p \in Thrown(task, t, "cancelled") /\ "cancelled" \in Outcomes
      BY <1>3, <2>1 DEF EndTask, Outcomes
    <3> QED
      BY <2>1, <3>1, ThrownDoes, AsTheyAre
  <2>2. CASE ~ task[t].ask
    <3>1. PICK s, a, k, o : s = "done" /\ a = FALSE /\ k = task[t].kept /\ o = "value"
      OBVIOUS
    <3>2. Turnable(s, a, k, o)
      BY <1>2, <3>1, TaskParts DEF Turnable, States, Outcomes
    <3>3. TaskPut(p, task, t, s, a, k, o)
      <4>1. task[t].ask = FALSE
        BY <1>2, <2>2, TaskParts
      <4>2. p = [task EXCEPT ![t].st = "done", ![t].res = "value"]
        BY <1>3, <2>2 DEF EndTask
      <4> QED
        BY <1>2, <3>1, <4>1, <4>2 DEF TaskPut, Turned, TaskType
    <3>4. TaskBecomes(p, task, t, s, a, k, o)
      BY <3>2, <3>3, AsTheyAre, TaskTurns
    <3> QED
      BY <2>2, <3>1, <3>4 DEF IsTurned, TaskBecomes
  <2> QED
    BY <2>1, <2>2
<1>5. Stays
  BY <1>1, <1>3, <1>4, AsTheyAre DEF Stays
<1>6. Typed'
  BY <1>1, <1>5, StaysKept DEF Typed
<1> QED
  BY <1>1, <1>3, <1>4, <1>5, <1>6 DEF OtherTasks

LEMMA CancelFromOutsideDoes ==
    ASSUME Typed, NEW t \in Tasks, CancelFromOutside(t), Deepest[t] \in Tasks
    PROVE  /\ Stays /\ Typed' /\ call' = call /\ tls' = tls /\ OtherTasks({Deepest[t]})
           /\ task[t].st # "done" /\ Asked(task'[Deepest[t]], task[Deepest[t]], TRUE)
<1>1. /\ call' = call /\ tls' = tls /\ cancels' = cancels + 1 /\ task[t].st # "done" /\ Room
  BY DEF CancelFromOutside
<1>2. PICK p, x : p = task' /\ x = Deepest[t]
  OBVIOUS
<1>3. PICK a \in BOOLEAN : a = TRUE
  OBVIOUS
<1>4. LikeTasks(p) /\ Asked(p[x], task[x], TRUE) /\ \A u \in Tasks \ {x} : p[u] = task[u]
  <2>1. Asks(p, task, x, a)
    BY <1>2, <1>3 DEF CancelFromOutside, Cancelled, Asks
  <2>2. LikeTasks(p) /\ Asked(p[x], task[x], a) /\ \A u \in Tasks \ {x} : p[u] = task[u]
    BY <1>2, <2>1, AsTheyAre, AskDoes
  <2> QED
    BY <1>3, <2>2
<1>5. Stays
  BY <1>1, <1>2, <1>4, AsTheyAre DEF Stays
<1>6. cancels' \in 0 .. MaxWork
  BY <1>1, TasksTyped, Sizes DEF Room, Typed
<1>7. Typed'
  BY <1>1, <1>5, <1>6, StaysKept DEF Typed
<1> QED
  BY <1>1, <1>2, <1>4, <1>5, <1>7 DEF OtherTasks

\* A step of a thread: the work of call c moves on.
Works(c, f, o, k, s) ==
    /\ Stays /\ Typed' /\ task' = task /\ OtherCalls({c})
    /\ IsWorked(call'[c], f, o, k, s) /\ SameWait(call'[c], call[c])

LEMMA WorkDoes ==
    ASSUME Typed, NEW c \in Calls, NEW f, NEW o, NEW k, NEW s, Workable(f, o, k, s),
           WorkPut(call', c, f, o, k, s), task' = task, cancels' = cancels,
           tls' \in [Threads -> 0 .. MaxCalls]
    PROVE  Works(c, f, o, k, s)
<1>1. PICK p : p = call'
  OBVIOUS
<1>2. WorkBecomes(p, c, f, o, k, s)
  BY <1>1, WorkTurns
<1>3. Stays
  BY <1>1, <1>2, AsTheyAre DEF Stays, WorkBecomes
<1>4. Typed'
  BY <1>3, StaysKept DEF Typed
<1> QED
  BY <1>1, <1>2, <1>3, <1>4 DEF WorkBecomes, Works, OtherCalls

LEMMA StartFnDoes ==
    ASSUME Typed, NEW c \in Calls, StartFn(c)
    PROVE  /\ Works(c, "running", call[c].on, call[c].kept, call[c].res)
           /\ call[c].fn = "queued" /\ tls' = [tls EXCEPT ![Thread(c)] = c]
           /\ IF call[c].exec = None THEN OnThread(Thread(c)) = {}
              ELSE \E d \in OnThread(Thread(c)) : Innermost(d) /\ call[d].on = call[c].exec
<1>1. /\ task' = task /\ cancels' = cancels /\ call[c].fn = "queued"
      /\ tls' = [tls EXCEPT ![Thread(c)] = c]
      /\ IF call[c].exec = None THEN OnThread(Thread(c)) = {}
         ELSE \E d \in OnThread(Thread(c)) : Innermost(d) /\ call[d].on = call[c].exec
  BY DEF StartFn, Starts, Thread
<1>2. call[c] \in CallType /\ Calls \subseteq 1 .. MaxCalls /\ call \in [Calls -> CallType]
  BY CallsTyped
<1>3. PICK f, o, k, s : f = "running" /\ o = call[c].on /\ k = call[c].kept /\ s = call[c].res
  OBVIOUS
<1>4. Workable(f, o, k, s)
  BY <1>2, <1>3, CallParts DEF Workable, Doings
<1>5. WorkPut(call', c, f, o, k, s)
  BY <1>2, <1>3 DEF StartFn, Starts, WorkPut, Worked, CallType
<1>6. tls' \in [Threads -> 0 .. MaxCalls]
  <2>1. c \in 0 .. MaxCalls /\ tls \in [Threads -> 0 .. MaxCalls]
    BY <1>2, Sizes DEF Typed
  <2> QED
    BY <1>1, <2>1
<1>7. Works(c, f, o, k, s)
  BY <1>1, <1>4, <1>5, <1>6, WorkDoes
<1> QED
  BY <1>1, <1>3, <1>7

LEMMA DropFnDoes ==
    ASSUME Typed, NEW c \in Calls, DropFn(c)
    PROVE  /\ Works(c, "dropped", call[c].on, call[c].kept, call[c].res)
           /\ call[c].fn = "queued" /\ tls' = tls
<1>1. task' = task /\ cancels' = cancels /\ call[c].fn = "queued" /\ tls' = tls
  BY DEF DropFn
<1>2. call[c] \in CallType /\ call \in [Calls -> CallType]
  BY CallsTyped
<1>3. PICK f, o, k, s : f = "dropped" /\ o = call[c].on /\ k = call[c].kept /\ s = call[c].res
  OBVIOUS
<1>4. Workable(f, o, k, s)
  BY <1>2, <1>3, CallParts DEF Workable, Doings
<1>5. WorkPut(call', c, f, o, k, s)
  BY <1>2, <1>3 DEF DropFn, WorkPut, Worked, CallType
<1>6. tls' \in [Threads -> 0 .. MaxCalls]
  BY <1>1 DEF Typed
<1>7. Works(c, f, o, k, s)
  BY <1>1, <1>4, <1>5, <1>6, WorkDoes
<1> QED
  BY <1>1, <1>3, <1>7

LEMMA ReturnFnDoes ==
    ASSUME Typed, NEW c \in Calls, ReturnFn(c)
    PROVE  /\ Works(c, "done", call[c].on, call[c].kept, "value")
           /\ call[c].fn = "running" /\ tls' = tls
<1>1. task' = task /\ cancels' = cancels /\ call[c].fn = "running" /\ tls' = tls
  BY DEF ReturnFn
<1>2. call[c] \in CallType /\ call \in [Calls -> CallType]
  BY CallsTyped
<1>3. PICK f, o, k, s : f = "done" /\ o = call[c].on /\ k = call[c].kept /\ s = "value"
  OBVIOUS
<1>4. Workable(f, o, k, s)
  BY <1>2, <1>3, CallParts DEF Workable, Doings, Outcomes
<1>5. WorkPut(call', c, f, o, k, s)
  BY <1>2, <1>3 DEF ReturnFn, WorkPut, Worked, CallType
<1>6. tls' \in [Threads -> 0 .. MaxCalls]
  BY <1>1 DEF Typed
<1>7. Works(c, f, o, k, s)
  BY <1>1, <1>4, <1>5, <1>6, WorkDoes
<1> QED
  BY <1>1, <1>3, <1>7

\* What a function that called async_to_sync comes to.
Back(c, f, k, s) ==
    \/ task[call[c].on].res = "value" /\ f = "running" /\ k = call[c].kept /\ s = call[c].res
    \/ task[call[c].on].res # "value" /\ f = "running" /\ k = TRUE /\ s = call[c].res
    \/ /\ task[call[c].on].res # "value" /\ f = "done" /\ k = call[c].kept
       /\ s = task[call[c].on].res

LEMMA ReturnAsyncDoes ==
    ASSUME Typed, NEW c \in Calls, ReturnAsync(c), call[c].on \in Tasks
    PROVE  /\ \E f, k, s : Works(c, f, None, k, s) /\ Back(c, f, k, s)
           /\ call[c].fn = "blocked" /\ Innermost(c) /\ task[call[c].on].st = "done"
           /\ tls' = tls
<1>1. /\ task' = task /\ cancels' = cancels /\ tls' = tls
      /\ call[c].fn = "blocked" /\ Innermost(c) /\ task[call[c].on].st = "done"
  BY DEF ReturnAsync
<1>2. call[c] \in CallType /\ call \in [Calls -> CallType] /\ task[call[c].on] \in TaskType
  BY CallsTyped, TasksTyped
<1>3. PICK f, k, s : /\ Back(c, f, k, s)
                     /\ call' = [call EXCEPT ![c].on = None, ![c].fn = f, ![c].kept = k, ![c].res = s]
  <2> DEFINE back == [call EXCEPT ![c].on = None]
             r == task[call[c].on].res
  <2>1. back \in [Calls -> CallType] /\ back[c] \in CallType /\ back[c].kept = call[c].kept
        /\ back[c].res = call[c].res
    BY <1>2, Sizes DEF CallType, None
  <2>2. CASE r = "value"
    <3>1. call' = [back EXCEPT ![c].fn = "running"]
      BY <2>2 DEF ReturnAsync
    <3>2. call' = [back EXCEPT ![c].fn = "running", ![c].kept = back[c].kept,
                               ![c].res = back[c].res]
      <4> HIDE DEF back
      <4> QED
        BY <2>1, <3>1 DEF CallType
    <3> QED
      BY <2>1, <2>2, <3>2 DEF Back
  <2>3. CASE r # "value" /\ call' = [back EXCEPT ![c].fn = "running", ![c].kept = TRUE]
    <3>1. call' = [back EXCEPT ![c].fn = "running", ![c].kept = TRUE, ![c].res = back[c].res]
      <4> HIDE DEF back
      <4> QED
        BY <2>1, <2>3 DEF CallType
    <3>2. Back(c, "running", TRUE, back[c].res)
      BY <2>1, <2>3 DEF Back
    <3> QED
      BY <3>1, <3>2
  <2>4. CASE r # "value" /\ call' = [back EXCEPT ![c].fn = "done", ![c].res = r]
    <3>1. call' = [back EXCEPT ![c].fn = "done", ![c].kept = back[c].kept, ![c].res = r]
      <4> HIDE DEF back, r
      <4> QED
        BY <2>1, <2>4 DEF CallType
    <3>2. Back(c, "done", back[c].kept, r)
      BY <2>1, <2>4 DEF Back
    <3> QED
      BY <3>1, <3>2
  <2> QED
    BY <2>2, <2>3, <2>4 DEF ReturnAsync
<1>4. PICK o : o = None
  OBVIOUS
<1>5. Workable(f, o, k, s)
  <2>1. task[call[c].on].res \in Outcomes /\ call[c].kept \in BOOLEAN /\ call[c].res \in Outcomes
    BY <1>2, CallParts, TaskParts
  <2> QED
    <3>1. f \in Doings
      BY <1>3 DEF Back, Doings
    <3>2. o \in 0 .. MaxTasks
      BY <1>4, Sizes DEF None
    <3>3. k \in BOOLEAN /\ s \in Outcomes
      BY <1>3, <2>1 DEF Back
    <3> QED
      BY <3>1, <3>2, <3>3 DEF Workable
<1>6. WorkPut(call', c, f, o, k, s)
  BY <1>2, <1>3, <1>4 DEF WorkPut, Worked, CallType
<1>7. tls' \in [Threads -> 0 .. MaxCalls]
  BY <1>1 DEF Typed
<1>8. Works(c, f, o, k, s)
  BY <1>1, <1>5, <1>6, <1>7, WorkDoes
<1> QED
  BY <1>1, <1>3, <1>4, <1>8

\* A step of a loop: the await of call c moves on.
Waits(c, f, p, v, o) ==
    /\ Stays /\ Typed' /\ tls' = tls /\ OtherCalls({c})
    /\ IsWaited(call'[c], f, p, v, o) /\ SameWork(call'[c], call[c])

LEMMA WaitDoes ==
    ASSUME Typed, NEW c \in Calls, NEW f, NEW p, NEW v, NEW o, Waitable(f, p, v, o),
           WaitPut(call', c, f, p, v, o), LikeTasks(task'), cancels' = cancels, tls' = tls
    PROVE  Waits(c, f, p, v, o)
<1>1. PICK q : q = call'
  OBVIOUS
<1>2. WaitBecomes(q, c, f, p, v, o)
  BY <1>1, WaitTurns
<1>3. Stays
  BY <1>1, <1>2 DEF Stays, WaitBecomes
<1>4. Typed'
  BY <1>3, StaysKept DEF Typed
<1> QED
  BY <1>1, <1>2, <1>3, <1>4 DEF WaitBecomes, Waits, OtherCalls

LEMMA FnDoneDoes ==
    ASSUME Typed, NEW c \in Calls, FnDone(c)
    PROVE  /\ Waits(c, "done", call[c].pc, call[c].victim, call[c].out) /\ task' = task
           /\ call[c].fn = "done" /\ call[c].fut = "pending"
<1>1. /\ task' = task /\ cancels' = cancels /\ tls' = tls
      /\ call[c].fn = "done" /\ call[c].fut = "pending"
  BY DEF FnDone
<1>2. call[c] \in CallType /\ call \in [Calls -> CallType]
  BY CallsTyped
<1>3. PICK f, p, v, o : f = "done" /\ p = call[c].pc /\ v = call[c].victim /\ o = call[c].out
  OBVIOUS
<1>4. Waitable(f, p, v, o)
  BY <1>2, <1>3, CallParts DEF Waitable, Futures
<1>5. WaitPut(call', c, f, p, v, o)
  BY <1>2, <1>3 DEF FnDone, WaitPut, Waited, CallType
<1>6. Waits(c, f, p, v, o)
  BY <1>1, <1>4, <1>5, AsTheyAre, WaitDoes
<1> QED
  BY <1>1, <1>3, <1>6

\* Call c has ended with an outcome, the other effects on the tasks being q.
Ended(c, out, q) ==
    /\ Stays /\ Typed' /\ tls' = tls /\ OtherCalls({c}) /\ SameWork(call'[c], call[c])
    /\ call'[c].pc = "ended" /\ call'[c].victim = call[c].victim /\ call'[c].out = out
    /\ call'[c].fut = call[c].fut \/ (call[c].fut = "pending" /\ call'[c].fut = "cancelled")
    /\ IF out = "value" THEN \A u \in Tasks : task'[u] = q[u]
       ELSE /\ Hurt(task'[By(c)], q[By(c)], out)
            /\ \A u \in Tasks \ {By(c)} : task'[u] = q[u]

LEMMA EndCallDoes ==
    ASSUME Typed, NEW c \in Calls, By(c) \in Tasks, NEW out \in Outcomes,
           NEW q, LikeTasks(q), EndCall(c, out, q)
    PROVE  Ended(c, out, q)
<1>1. cancels' = cancels /\ tls' = tls
  BY DEF EndCall
<1>2. call[c] \in CallType /\ call \in [Calls -> CallType]
  BY CallsTyped
<1>3. PICK b, f, p, v : /\ b = By(c) /\ p = "ended" /\ v = call[c].victim
                        /\ f = IF out = "cancelled" /\ call[c].fut = "pending"
                                 THEN "cancelled" ELSE call[c].fut
  OBVIOUS
<1>4. Waitable(f, p, v, out)
  <2>1. call[c].fut \in Futures /\ v \in 0 .. MaxTasks
    BY <1>2, <1>3, CallParts
  <2> QED
    BY <1>3, <2>1 DEF Waitable, Futures, Places
<1>5. WaitPut(call', c, f, p, v, out)
  BY <1>2, <1>3 DEF EndCall, WaitPut, Waited, CallType
<1>6. /\ LikeTasks(task')
      /\ IF out = "value" THEN \A u \in Tasks : task'[u] = q[u]
         ELSE Hurt(task'[b], q[b], out) /\ \A u \in Tasks \ {b} : task'[u] = q[u]
  <2>1. CASE out = "value"
    BY <2>1 DEF EndCall
  <2>2. CASE out # "value"
    <3>1. PICK y : y = task'
      OBVIOUS
    <3>2. y \in Thrown(q, b, out) /\ b \in Tasks
      BY <1>3, <2>2, <3>1 DEF EndCall, By
    <3>3. LikeTasks(y) /\ Hurt(y[b], q[b], out) /\ \A u \in Tasks \ {b} : y[u] = q[u]
      BY <3>2, ThrownDoes
    <3> QED
      BY <2>2, <3>1, <3>3
  <2> QED
    BY <2>1, <2>2
<1>7. Waits(c, f, p, v, out)
  BY <1>1, <1>4, <1>5, <1>6, WaitDoes
<1> QED
  BY <1>3, <1>6, <1>7 DEF Ended, Waits, IsWaited

LEMMA ReturnsDoes ==
    ASSUME Typed, NEW c \in Calls, By(c) \in Tasks, Returns(c)
    PROVE  /\ Ended(c, call[c].res, task)
           /\ call[c].pc \in {"shield", "exec"} /\ call[c].fut = "done" /\ ~ task[By(c)].ask
<1>1. PICK out, q : out = call[c].res /\ q = task
  OBVIOUS
<1>2. /\ EndCall(c, out, q) /\ call[c].pc \in {"shield", "exec"} /\ call[c].fut = "done"
      /\ ~ task[By(c)].ask
  BY <1>1 DEF Returns, By
<1>3. out \in Outcomes
  BY <1>1, CallsTyped, CallParts
<1>4. Ended(c, out, q)
  BY <1>1, <1>2, <1>3, AsTheyAre, EndCallDoes
<1> QED
  BY <1>1, <1>2, <1>4

LEMMA GiveUpDoes ==
    ASSUME Typed, NEW c \in Calls, By(c) \in Tasks, GiveUp(c)
    PROVE  /\ Ended(c, "cancelled", task) /\ TaskContext(c) = {}
           /\ call[c].pc = "shield" /\ task[By(c)].ask
<1>1. PICK out, q : out = "cancelled" /\ q = task
  OBVIOUS
<1>2. /\ EndCall(c, out, q) /\ call[c].pc = "shield" /\ task[By(c)].ask
      /\ TaskContext(c) = {}
  BY <1>1 DEF GiveUp, By
<1>3. Ended(c, out, q)
  <2>1. out \in Outcomes
    BY <1>1 DEF Outcomes
  <2> QED
    BY <1>1, <1>2, <2>1, AsTheyAre, EndCallDoes
<1> QED
  BY <1>1, <1>2, <1>3

LEMMA CancelledAgainDoes ==
    ASSUME Typed, NEW c \in Calls, By(c) \in Tasks, CancelledAgain(c)
    PROVE  /\ Ended(c, "cancelled", task) /\ call[c].pc = "exec" /\ task[By(c)].ask
<1>1. PICK out, q : out = "cancelled" /\ q = task
  OBVIOUS
<1>2. EndCall(c, out, q) /\ call[c].pc = "exec" /\ task[By(c)].ask
  BY <1>1 DEF CancelledAgain, By
<1>3. Ended(c, out, q)
  <2>1. out \in Outcomes
    BY <1>1 DEF Outcomes
  <2> QED
    BY <1>1, <1>2, <2>1, AsTheyAre, EndCallDoes
<1> QED
  BY <1>1, <1>2, <1>3

\* Call c waits for its function, once what it cancelled is done.
LEMMA TaskDoneDoes ==
    ASSUME Typed, NEW c \in Calls, By(c) \in Tasks, TaskDone(c)
    PROVE  /\ call[c].pc = "task" /\ task[call[c].victim].st = "done"
           /\ \/ Ended(c, "cancelled", task)
              \/ /\ Waits(c, call[c].fut, "exec", call[c].victim, call[c].out)
                 /\ task' = task /\ call[c].fut # "done" /\ ~ task[By(c)].ask
<1>1. call[c].pc = "task" /\ task[call[c].victim].st = "done"
  BY DEF TaskDone
<1>2. CASE call[c].fut = "done" \/ task[By(c)].ask
  <2>1. PICK out, q : out = "cancelled" /\ q = task
    OBVIOUS
  <2>2. EndCall(c, out, q) /\ out \in Outcomes
    BY <1>2, <2>1 DEF TaskDone, By, Outcomes
  <2>3. Ended(c, out, q)
    BY <2>1, <2>2, AsTheyAre, EndCallDoes
  <2> QED
    BY <1>1, <2>1, <2>3
<1>3. CASE ~ (call[c].fut = "done" \/ task[By(c)].ask)
  <2>1. task' = task /\ cancels' = cancels /\ tls' = tls /\ call' = [call EXCEPT ![c].pc = "exec"]
    BY <1>3 DEF TaskDone, By
  <2>2. call[c] \in CallType /\ call \in [Calls -> CallType]
    BY CallsTyped
  <2>3. PICK f, p, v, o : /\ f = call[c].fut /\ p = "exec" /\ v = call[c].victim
                          /\ o = call[c].out
    OBVIOUS
  <2>4. Waitable(f, p, v, o)
    BY <2>2, <2>3, CallParts DEF Waitable, Places
  <2>5. WaitPut(call', c, f, p, v, o)
    BY <2>1, <2>2, <2>3 DEF WaitPut, Waited, CallType
  <2>6. Waits(c, f, p, v, o)
    BY <2>1, <2>4, <2>5, AsTheyAre, WaitDoes
  <2> QED
    BY <1>1, <1>3, <2>1, <2>3, <2>6
<1> QED
  BY <1>2, <1>3

\* Call c, cancelled, cancels a task of its list.
Passes(c, k, q) ==
    /\ k \in TaskContext(c) /\ LikeTasks(q)
    /\ Asked(q[Deepest[k]], task[Deepest[k]], TRUE) /\ Asked(q[By(c)], task[By(c)], FALSE)
    /\ \A u \in Tasks \ {Deepest[k], By(c)} : q[u] = task[u]

LEMMA CancelTaskDoes ==
    ASSUME Typed, NEW c \in Calls, By(c) \in Tasks, CancelTask(c),
           \A k \in TaskContext(c) : Deepest[k] \in Tasks \ {By(c)}
    PROVE  /\ call[c].pc = "shield" /\ task[By(c)].ask
           /\ \E k, q :
                 /\ Passes(c, k, q)
                 /\ \/ /\ task[k].loop = task[By(c)].loop
                       /\ Waits(c, call[c].fut, "task", k, call[c].out)
                       /\ \A u \in Tasks : task'[u] = q[u]
                    \/ Ended(c, "error", q)
<1>1. call[c].pc = "shield" /\ task[By(c)].ask
  BY DEF CancelTask, By
<1>2. PICK k \in TaskContext(c) :
         LET tasks == [Cancelled(k) EXCEPT ![By(c)].ask = FALSE] IN
         IF task[k].loop = task[By(c)].loop
         THEN /\ call' = [call EXCEPT ![c].pc = "task", ![c].victim = k]
              /\ task' = tasks
              /\ UNCHANGED <<tls, cancels>>
         ELSE EndCall(c, "error", tasks)
  BY DEF CancelTask, By
<1>3. PICK b, x, y, q : /\ b = By(c) /\ x = Deepest[k] /\ y = Cancelled(k)
                        /\ q = [y EXCEPT ![b].ask = FALSE]
  OBVIOUS
<1>4. x \in Tasks \ {b} /\ b \in Tasks
  BY <1>3
<1>5. LikeTasks(y) /\ Asked(y[x], task[x], TRUE) /\ \A u \in Tasks \ {x} : y[u] = task[u]
  <2>1. PICK a \in BOOLEAN : a = TRUE
    OBVIOUS
  <2>2. Asks(y, task, x, a)
    BY <1>3, <2>1 DEF Cancelled, Asks
  <2>3. LikeTasks(y) /\ Asked(y[x], task[x], a) /\ \A u \in Tasks \ {x} : y[u] = task[u]
    BY <1>4, <2>2, AsTheyAre, AskDoes
  <2> QED
    BY <2>1, <2>3
<1>6. LikeTasks(q) /\ Asked(q[b], y[b], FALSE) /\ \A u \in Tasks \ {b} : q[u] = y[u]
  <2>1. PICK a \in BOOLEAN : a = FALSE
    OBVIOUS
  <2>2. Asks(q, y, b, a)
    BY <1>3, <2>1 DEF Asks
  <2>3. LikeTasks(q) /\ Asked(q[b], y[b], a) /\ \A u \in Tasks \ {b} : q[u] = y[u]
    BY <1>4, <1>5, <2>2, AskDoes
  <2> QED
    BY <2>1, <2>3
<1>7. Passes(c, k, q)
  BY <1>3, <1>4, <1>5, <1>6 DEF Passes
<1>8. CASE task[k].loop = task[By(c)].loop
  <2>1. /\ call' = [call EXCEPT ![c].pc = "task", ![c].victim = k] /\ task' = q
        /\ tls' = tls /\ cancels' = cancels
    BY <1>2, <1>3, <1>8
  <2>2. call[c] \in CallType /\ call \in [Calls -> CallType] /\ k \in 1 .. MaxTasks
    <3>1. k \in Tasks
      BY DEF TaskContext
    <3> QED
      BY <3>1, CallsTyped, TasksTyped
  <2>3. PICK f, p, v, o : f = call[c].fut /\ p = "task" /\ v = k /\ o = call[c].out
    OBVIOUS
  <2>4. Waitable(f, p, v, o)
    <3>1. f \in Futures /\ o \in Outcomes
      BY <2>2, <2>3, CallParts
    <3>2. v \in 0 .. MaxTasks
      BY <2>2, <2>3, Sizes
    <3> QED
      BY <2>3, <3>1, <3>2 DEF Waitable, Places
  <2>5. WaitPut(call', c, f, p, v, o)
    BY <2>1, <2>2, <2>3 DEF WaitPut, Waited, CallType
  <2>6. Waits(c, f, p, v, o)
    BY <1>6, <2>1, <2>4, <2>5, WaitDoes
  <2> QED
    BY <1>1, <1>7, <1>8, <2>1, <2>3, <2>6
<1>9. CASE task[k].loop # task[By(c)].loop
  <2>1. PICK out : out = "error"
    OBVIOUS
  <2>2. EndCall(c, out, q) /\ out \in Outcomes
    BY <1>2, <1>3, <1>9, <2>1 DEF Outcomes
  <2>3. Ended(c, out, q)
    BY <1>6, <2>2, EndCallDoes
  <2> QED
    BY <1>1, <1>7, <2>1, <2>3
<1> QED
  BY <1>8, <1>9

Makes(r, f, e, l, i) == r = NewTaskOf(f, e, l, i)

IsNew(r, f, e, l, i) ==
    /\ r \in TaskType /\ r.from = f /\ r.exec = e /\ r.loop = l /\ r.list = i
    /\ r.st = "scheduled" /\ ~ r.ask /\ r.res = "none"

LEMMA NewTaskTyped ==
    ASSUME NEW f \in 0 .. MaxCalls, NEW e \in 0 .. MaxTasks, NEW l \in 1 .. MaxTasks,
           NEW i \in 0 .. MaxCalls, NEW r, Makes(r, f, e, l, i)
    PROVE  IsNew(r, f, e, l, i)
  BY DEF NewTaskOf, TaskType, Outcomes, Makes, IsNew

\* A new task, the others as they are.
TaskAdded(r) ==
    /\ Tasks' = Tasks \union {NewTask} /\ NewTask \in 1 .. MaxTasks /\ NewTask \notin Tasks
    /\ task'[NewTask] = r /\ OtherTasks({})

LEMMA AddTask ==
    ASSUME Typed, NewTask <= MaxTasks, NEW r \in TaskType, task' = Append(task, r)
    PROVE  TaskAdded(r) /\ task' \in Seq(TaskType) /\ Len(task') \in 1 .. MaxTasks
<1>1. /\ Len(task) \in Nat /\ Tasks = 1 .. Len(task) /\ MaxTasks \in Nat
      /\ task \in Seq(TaskType)
  BY TasksTyped, Sizes DEF Typed
<1>2. /\ task' \in Seq(TaskType) /\ Len(task') = Len(task) + 1
      /\ task'[Len(task) + 1] = r /\ \A u \in 1 .. Len(task) : task'[u] = task[u]
  BY <1>1
<1>3. Tasks' = 1 .. Len(task) + 1
  BY <1>1, <1>2 DEF Tasks
<1> QED
  BY <1>1, <1>2, <1>3 DEF TaskAdded, OtherTasks, NewTask

LEMMA SpawnDoes ==
    ASSUME Typed, NEW t \in Tasks, Spawn(t)
    PROVE  /\ TaskAdded(NewTaskOf(None, task[t].exec, 1, None)) /\ Typed'
           /\ call' = call /\ tls' = tls
           /\ NewTaskOf(None, task[t].exec, 1, None).from = None
           /\ NewTaskOf(None, task[t].exec, 1, None).list = None
           /\ NewTaskOf(None, task[t].exec, 1, None).exec = task[t].exec
           /\ NewTaskOf(None, task[t].exec, 1, None).st = "scheduled"
           /\ NewTaskOf(None, task[t].exec, 1, None).res = "none"
<1>1. PICK f, e, l, r : f = None /\ e = task[t].exec /\ l = 1 /\ r = NewTaskOf(f, e, l, f)
  OBVIOUS
<1>2. call' = call /\ tls' = tls /\ cancels' = cancels /\ NewTask <= MaxTasks
      /\ task' = Append(task, r)
  BY <1>1 DEF Spawn
<1>3. f \in 0 .. MaxCalls /\ e \in 0 .. MaxTasks /\ l \in 1 .. MaxTasks
  BY <1>1, TasksTyped, TaskParts, Sizes DEF None
<1>4. IsNew(r, f, e, l, f)
  <2>1. Makes(r, f, e, l, f)
    BY <1>1 DEF Makes
  <2> QED
    BY <1>3, <2>1, NewTaskTyped
<1>5. TaskAdded(r) /\ task' \in Seq(TaskType) /\ Len(task') \in 1 .. MaxTasks
  BY <1>2, <1>4, AddTask DEF IsNew
<1>6. Typed'
  BY <1>2, <1>5 DEF Typed
<1> QED
  BY <1>1, <1>2, <1>4, <1>5, <1>6 DEF IsNew

\* The list, and the loop, that main_wrap is given by the function of a call.
ListFor(c) == tls[Thread(c)]

\* A task made by the function of a call.
MadeBy(r, c, e, i) ==
    r.from = c /\ r.exec = e /\ r.list = i /\ r.st = "scheduled" /\ ~ r.ask /\ r.res = "none"

LEMMA CallAsyncDoes ==
    ASSUME Typed, NEW c \in Calls, NEW force \in BOOLEAN, CallAsync(c, force),
           ListFor(c) \in Calls, By(ListFor(c)) \in Tasks
    PROVE  /\ \E r : TaskAdded(r) /\ MadeBy(r, c, NewTask, ListFor(c))
           /\ LikeCalls(call') /\ Typed' /\ OtherCalls({c}) /\ tls' = tls
           /\ call[c].fn = "running"
           /\ IsWorked(call'[c], "blocked", NewTask, call[c].kept, call[c].res)
           /\ SameWait(call'[c], call[c])
<1>1. PICK i, main, loop, r :
         /\ i = ListFor(c) /\ main = task[By(i)].loop
         /\ loop = IF force \/ (main # 1 /\ task[main].st = "done") THEN NewTask ELSE main
         /\ r = NewTaskOf(c, NewTask, loop, i)
  OBVIOUS
<1>2. /\ tls' = tls /\ cancels' = cancels /\ NewTask <= MaxTasks /\ call[c].fn = "running"
      /\ task' = Append(task, r)
      /\ call' = [call EXCEPT ![c].fn = "blocked", ![c].on = NewTask]
  BY <1>1 DEF CallAsync, ListFor, Thread, By
<1>3. NewTask \in 1 .. MaxTasks /\ c \in 0 .. MaxCalls /\ i \in 0 .. MaxCalls
  BY <1>1, <1>2, TasksTyped, CallsTyped, Sizes DEF NewTask
<1>4. loop \in 1 .. MaxTasks
  <2>1. By(i) \in Tasks
    BY <1>1
  <2>2. main \in 1 .. MaxTasks
    BY <1>1, <2>1, TasksTyped, TaskParts
  <2> QED
    BY <1>1, <1>3, <2>2
<1>5. IsNew(r, c, NewTask, loop, i)
  <2>1. PICK e \in 0 .. MaxTasks : e = NewTask
    BY <1>3, Sizes
  <2>2. Makes(r, c, e, loop, i)
    BY <1>1, <2>1 DEF Makes
  <2>3. IsNew(r, c, e, loop, i)
    BY <1>3, <1>4, <2>2, NewTaskTyped
  <2> QED
    BY <2>1, <2>3
<1>6. TaskAdded(r) /\ task' \in Seq(TaskType) /\ Len(task') \in 1 .. MaxTasks
  BY <1>2, <1>5, AddTask DEF IsNew
<1>7. call[c] \in CallType /\ call \in [Calls -> CallType]
  BY CallsTyped
<1>8. PICK f, o, k, s : f = "blocked" /\ o = NewTask /\ k = call[c].kept /\ s = call[c].res
  OBVIOUS
<1>9. Workable(f, o, k, s)
  <2>1. o \in 0 .. MaxTasks
    BY <1>3, <1>8, Sizes
  <2> QED
    BY <1>7, <1>8, <2>1, CallParts DEF Workable, Doings
<1>10. WorkPut(call', c, f, o, k, s)
  BY <1>2, <1>7, <1>8 DEF WorkPut, Worked, CallType
<1>11. PICK p : p = call'
  OBVIOUS
<1>12. WorkBecomes(p, c, f, o, k, s)
  BY <1>9, <1>10, <1>11, WorkTurns
<1>13. Typed'
  BY <1>2, <1>6, <1>11, <1>12 DEF Typed, WorkBecomes, LikeCalls
<1>14. TaskAdded(r) /\ MadeBy(r, c, NewTask, ListFor(c))
  BY <1>1, <1>5, <1>6 DEF IsNew, MadeBy
<1> QED
  BY <1>2, <1>8, <1>11, <1>12, <1>13, <1>14 DEF WorkBecomes, OtherCalls

\* A new call, the others as they are.
CallAdded(r) ==
    /\ Calls' = Calls \union {NewCall} /\ NewCall \in 1 .. MaxCalls /\ NewCall \notin Calls
    /\ call'[NewCall] = r /\ OtherCalls({})

LEMMA AddCall ==
    ASSUME Typed, NewCall <= MaxCalls, NEW r \in CallType, call' = Append(call, r)
    PROVE  CallAdded(r) /\ call' \in Seq(CallType) /\ Len(call') \in 0 .. MaxCalls
<1>1. /\ Len(call) \in Nat /\ Calls = 1 .. Len(call) /\ MaxCalls \in Nat
      /\ call \in Seq(CallType)
  BY CallsTyped, Sizes DEF Typed
<1>2. /\ call' \in Seq(CallType) /\ Len(call') = Len(call) + 1
      /\ call'[Len(call) + 1] = r /\ \A u \in 1 .. Len(call) : call'[u] = call[u]
  BY <1>1
<1>3. Calls' = 1 .. Len(call) + 1
  BY <1>1, <1>2 DEF Calls
<1> QED
  BY <1>1, <1>2, <1>3 DEF CallAdded, OtherCalls, NewCall

\* A call as it is made, by task t for the executor e, if any.
CallMade(r, t, e) ==
    /\ r.by = t /\ r.exec = e
    /\ e # None => e = task[t].exec /\ r.thread = Thread(From(e))
    /\ IsWorked(r, "queued", None, FALSE, "none")
    /\ IsWaited(r, "pending", "shield", None, "none")

LEMMA CallSyncDoes ==
    ASSUME Typed, NEW t \in Tasks, NEW sensitive \in BOOLEAN, CallSync(t, sensitive),
           task[t].exec # None => From(task[t].exec) \in Calls
    PROVE  /\ \E r, e : CallAdded(r) /\ CallMade(r, t, e)
           /\ Typed' /\ task' = task /\ tls' = tls
           /\ task[t].st = "live" /\ Awaited(t) = {}
<1>1. PICK e, h, r :
         /\ e = (IF sensitive THEN task[t].exec ELSE None)
         /\ h = (IF ~sensitive THEN NewCall
                 ELSE IF e = None THEN 0 ELSE call[task[e].from].thread)
         /\ r = [by |-> t, exec |-> e, thread |-> h,
                 fn |-> "queued", on |-> None, kept |-> FALSE, res |-> "none",
                 fut |-> "pending", pc |-> "shield", victim |-> None, out |-> "none"]
  OBVIOUS
<1>2. /\ task' = task /\ tls' = tls /\ cancels' = cancels /\ NewCall <= MaxCalls
      /\ task[t].st = "live" /\ Awaited(t) = {}
  BY DEF CallSync, InUserCode
<1>3. call' = Append(call, r)
  BY <1>1 DEF CallSync
<1>4. task[t].exec \in 0 .. MaxTasks /\ t \in 1 .. MaxTasks
  BY TasksTyped, TaskParts
<1>5. e \in 0 .. MaxTasks
  BY <1>1, <1>4, Sizes DEF None
<1>6. NewCall \in 1 .. MaxCalls
  BY <1>2, CallsTyped, Sizes DEF NewCall
<1>7. h \in Threads
  <2>1. CASE sensitive /\ e # None
    <3>1. e = task[t].exec /\ task[e].from \in Calls
      BY <1>1, <2>1 DEF From
    <3>2. call[task[e].from].thread \in Threads
      BY <3>1, CallsTyped, CallParts
    <3> QED
      BY <1>1, <2>1, <3>2
  <2>2. CASE ~ (sensitive /\ e # None)
    <3>1. h \in {0, NewCall}
      BY <1>1, <2>2
    <3> QED
      BY <1>6, <3>1, Sizes DEF Threads
  <2> QED
    BY <2>1, <2>2
<1>8. r \in CallType
  <2>1. None \in 0 .. MaxTasks
    BY Sizes DEF None
  <2> QED
    BY <1>1, <1>4, <1>5, <1>7, <2>1 DEF CallType, Outcomes
<1>9. CallAdded(r) /\ call' \in Seq(CallType) /\ Len(call') \in 0 .. MaxCalls
  BY <1>2, <1>3, <1>8, AddCall
<1>10. CallMade(r, t, e)
  <2>1. e # None => e = task[t].exec /\ h = call[task[e].from].thread
    BY <1>1
  <2> QED
    BY <1>1, <2>1 DEF CallMade, IsWorked, IsWaited, Thread, From
<1>11. Typed'
  BY <1>2, <1>9 DEF Typed
<1> QED
  BY <1>2, <1>9, <1>10, <1>11

-----------------------------------------------------------------------------
(* The structure is kept                                                    *)

LEMMA BornKept ==
    ASSUME Typed, Typed', Born, Kept, \A t \in Tasks' \ Tasks : TaskBorn(t)',
           \A c \in Calls' \ Calls : CallBorn(c)'
    PROVE  Born'
<1>1. ASSUME NEW t \in Tasks PROVE TaskBorn(t)'
  <2>1. TaskBorn(t) /\ SameTask(task', t)
    BY DEF Born, Kept
  <2>2. From(t) # None => SameCall(call', From(t)) /\ SameCall(call', List(t))
    BY <2>1 DEF Kept, TaskBorn
  <2>3. task[t].exec # None => SameTask(task', task[t].exec)
    BY <2>1 DEF Kept, TaskBorn
  <2> QED
    BY <2>1, <2>2, <2>3 DEF TaskBorn, Kept, SameTask, SameCall, From, List, By, Thread
<1>2. ASSUME NEW c \in Calls PROVE CallBorn(c)'
  <2>1. CallBorn(c) /\ SameCall(call', c)
    BY DEF Born, Kept
  <2>2. call[c].exec # None =>
           SameTask(task', call[c].exec) /\ SameCall(call', From(call[c].exec))
    <3>1. call[c].exec # None => TaskBorn(call[c].exec)
      BY <2>1 DEF CallBorn, Born
    <3> QED
      BY <2>1, <3>1 DEF Kept, CallBorn, TaskBorn
  <2> QED
    BY <2>1, <2>2 DEF CallBorn, Kept, SameTask, SameCall, From, List, By, Thread
<1> QED
  BY <1>1, <1>2 DEF Born

\* A step of a loop, or of user code in one: the threads stay as they are.
Quiet ==
    /\ Typed' /\ Kept /\ Calls' = Calls /\ tls' = tls
    /\ \A c \in Calls : SameWork(call'[c], call[c])
    /\ \A t \in Tasks : task[t].st = "done" => task'[t].st = "done" /\ task'[t].res = task[t].res

LEMMA QuietStructure ==
    ASSUME Structure, Quiet, \A t \in Tasks' \ Tasks : TaskBorn(t)' /\ task'[t].from = None,
           Engages', Awaiting'
    PROVE  Structure'
<1>1. /\ Typed /\ Born /\ Engages /\ Locals /\ Blocking /\ Stacked /\ Latest /\ Joined
      /\ Calls' = Calls /\ tls' = tls /\ Typed' /\ Kept
  BY DEF Structure, Quiet
<1>2. Born'
  BY <1>1, BornKept
<1>3. \A c \in Calls : /\ call'[c].fn = call[c].fn /\ call'[c].on = call[c].on
                       /\ call'[c].by = call[c].by /\ call'[c].thread = call[c].thread
                       /\ call'[c].exec = call[c].exec
  BY <1>1 DEF Quiet, SameWork, Kept, SameCall
<1>4. Locals'
  BY <1>1, <1>3 DEF Locals, Thread
<1>5. \A t \in Tasks' : Open(t)' =>
         t \in Tasks /\ Open(t) /\ From(t)' = From(t) /\ List(t)' = List(t) /\ From(t) \in Calls
  <2> SUFFICES ASSUME NEW t \in Tasks', Open(t)'
               PROVE  /\ t \in Tasks /\ Open(t) /\ From(t)' = From(t) /\ List(t)' = List(t)
                      /\ From(t) \in Calls
    OBVIOUS
  <2>1. t \in Tasks
    BY DEF Open, From
  <2>2. SameTask(task', t) /\ TaskBorn(t)
    BY <1>1, <2>1 DEF Kept, Born
  <2>3. task[t].st # "done"
    BY <2>1 DEF Open, Quiet
  <2> QED
    BY <2>1, <2>2, <2>3 DEF SameTask, TaskBorn, Open, From, List
<1>6. Blocking'
  BY <1>1, <1>3, <1>5 DEF Blocking
<1>7. Stacked'
  BY <1>1, <1>3 DEF Stacked, Active, Thread
<1>8. Latest'
  <2>1. ASSUME NEW d \in Calls, Active(d)'
        PROVE  /\ tls[Thread(d)] # None /\ d <= tls[Thread(d)]
               /\ d # tls[Thread(d)] => call'[tls[Thread(d)]].exec # None
               /\ Thread(d)' = Thread(d)
    <3>1. Active(d) /\ Thread(d)' = Thread(d)
      BY <1>3, <2>1 DEF Active, Thread
    <3>2. tls[Thread(d)] \in Calls
      <4>1. Thread(d) \in Threads /\ tls[Thread(d)] # None
        BY <1>1, <3>1, CallsTyped, CallParts DEF Latest, Thread
      <4> QED
        BY <1>1, <4>1 DEF Locals
    <3> QED
      BY <1>1, <1>3, <3>1, <3>2 DEF Latest
  <2> QED
    BY <1>1, <2>1 DEF Latest
<1>9. Joined'
  <2> SUFFICES ASSUME NEW t \in Tasks', NEW d \in Calls, Open(t)', Active(d)',
                      Thread(d)' = Thread(From(t))', (From(t) < d)'
               PROVE  (List(t) < d)'
    BY <1>1 DEF Joined
  <2>1. t \in Tasks /\ Open(t) /\ From(t)' = From(t) /\ List(t)' = List(t) /\ From(t) \in Calls
    BY <1>5
  <2>2. Active(d) /\ Thread(d) = Thread(From(t)) /\ From(t) < d
    BY <1>3, <2>1 DEF Active, Thread, From
  <2>3. List(t) < d
    BY <1>1, <2>1, <2>2 DEF Joined
  <2> QED
    BY <2>1, <2>3
<1> QED
  BY <1>1, <1>2, <1>4, <1>6, <1>7, <1>8, <1>9 DEF Structure

\* The tasks turn, the calls stay as they are.
LEMMA EngagesKept ==
    ASSUME Engages, Typed, Typed', Kept, Calls' = Calls,
           \A c \in Calls : /\ call'[c].fn = call[c].fn /\ call'[c].on = call[c].on
                            /\ call'[c].victim = call[c].victim /\ call'[c].pc \in {call[c].pc, "ended"}
    PROVE  Engages'
<1> SUFFICES ASSUME NEW c \in Calls PROVE Engaged(c)'
  BY DEF Engages
<1>1. Engaged(c)
  BY DEF Engages
<1>2. /\ call[c].fn = "blocked" => SameTask(task', call[c].on)
      /\ call[c].victim # None => SameTask(task', call[c].victim)
  BY <1>1 DEF Engaged, Kept
<1> QED
  BY <1>1, <1>2 DEF Engaged, SameTask, From, List, Kept

LEMMA TaskStepStructure ==
    ASSUME Structure, Typed', Kept, call' = call, tls' = tls,
           \A t \in Tasks' \ Tasks : TaskBorn(t)' /\ task'[t].from = None,
           \A t \in Tasks : /\ task[t].st = "done" =>
                                  task'[t].st = "done" /\ task'[t].res = task[t].res
                            /\ task[t].st = "live" => task'[t].st = "live" \/ Awaited(t) = {}
    PROVE  Quiet /\ Structure'
<1>1. Typed /\ Born /\ Engages /\ Awaiting /\ Calls' = Calls
  BY DEF Structure, Calls
<1>2. Quiet
  BY <1>1 DEF Quiet, SameWork
<1>3. Engages'
  BY <1>1, EngagesKept
<1>4. Awaiting'
  <2>1. ASSUME NEW c \in Calls, call[c].pc # "ended" PROVE task'[By(c)].st = "live"
    <3>1. By(c) \in Tasks
      BY <1>1 DEF Born, CallBorn
    <3>2. task[By(c)].st = "live"
      BY <1>1, <2>1 DEF Awaiting
    <3>3. c \in Awaited(By(c))
      BY <2>1 DEF Awaited, By
    <3> QED
      BY <3>1, <3>2, <3>3
  <2> QED
    BY <1>1, <2>1 DEF Awaiting, By
<1> QED
  BY <1>2, <1>3, <1>4, QuietStructure

LEMMA StructureBegin ==
    ASSUME Structure, NEW t \in Tasks, Begin(t)
    PROVE  Quiet /\ Structure'
<1>1. Typed
  BY DEF Structure
<1>2. /\ Stays /\ Typed' /\ call' = call /\ tls' = tls /\ OtherTasks({t})
      /\ task[t].st = "scheduled"
  BY <1>1, BeginDoes
<1>3. Kept /\ Tasks' = Tasks
  BY <1>1, <1>2, StaysKept DEF Typed
<1> QED
  BY <1>2, <1>3, TaskStepStructure DEF OtherTasks

LEMMA StructureEndTask ==
    ASSUME Structure, NEW t \in Tasks, EndTask(t)
    PROVE  Quiet /\ Structure'
<1>1. Typed
  BY DEF Structure
<1>2. /\ Stays /\ Typed' /\ call' = call /\ tls' = tls /\ OtherTasks({t})
      /\ task[t].st = "live" /\ Awaited(t) = {}
  BY <1>1, EndTaskDoes
<1>3. Kept /\ Tasks' = Tasks
  BY <1>1, <1>2, StaysKept DEF Typed
<1> QED
  BY <1>2, <1>3, TaskStepStructure DEF OtherTasks

LEMMA StructureCancelFromOutside ==
    ASSUME Structure, NEW t \in Tasks, CancelFromOutside(t), Deepest[t] \in Tasks
    PROVE  Quiet /\ Structure'
<1>1. Typed
  BY DEF Structure
<1>2. PICK x \in Tasks : x = Deepest[t]
  OBVIOUS
<1>3. /\ Stays /\ Typed' /\ call' = call /\ tls' = tls /\ OtherTasks({x})
      /\ Asked(task'[x], task[x], TRUE)
  BY <1>1, <1>2, CancelFromOutsideDoes
<1>4. Kept /\ Tasks' = Tasks
  BY <1>1, <1>3, StaysKept DEF Typed
<1> QED
  BY <1>3, <1>4, TaskStepStructure DEF OtherTasks, Asked

LEMMA StructureSpawn ==
    ASSUME Structure, NEW t \in Tasks, Spawn(t)
    PROVE  Quiet /\ Structure'
<1>1. Typed /\ Born
  BY DEF Structure
<1>2. PICK r : r = NewTaskOf(None, task[t].exec, 1, None)
  OBVIOUS
<1>3. /\ TaskAdded(r) /\ Typed' /\ call' = call /\ tls' = tls
      /\ r.from = None /\ r.list = None /\ r.exec = task[t].exec
  BY <1>1, <1>2, SpawnDoes
<1>4. Kept
  <2>1. \A u \in Tasks : task'[u] = task[u]
    BY <1>3 DEF TaskAdded, OtherTasks
  <2> QED
    BY <1>3, <2>1 DEF Kept, TaskAdded, SameTask, SameCall, Calls
<1>5. PICK n : n = NewTask
  OBVIOUS
<1>6. \A u \in Tasks' \ Tasks : u = n
  BY <1>3, <1>5 DEF TaskAdded
<1>7. TaskBorn(n)' /\ task'[n].from = None
  <2>1. task'[n] = r
    BY <1>3, <1>5 DEF TaskAdded
  <2>2. r.exec # None => /\ r.exec \in Tasks /\ task[r.exec].from # None
                         /\ task'[r.exec].from = task[r.exec].from
    BY <1>1, <1>3, <1>4 DEF Born, TaskBorn, From, Kept, SameTask
  <2> QED
    BY <1>3, <1>4, <2>1, <2>2 DEF TaskBorn, From, List, Kept
<1>8. \A u \in Tasks' \ Tasks : TaskBorn(u)' /\ task'[u].from = None
  BY <1>6, <1>7
<1>9. \A u \in Tasks : task'[u] = task[u]
  BY <1>3 DEF TaskAdded, OtherTasks
<1> QED
  BY <1>3, <1>4, <1>8, <1>9, TaskStepStructure

\* The tasks are in the states they were in.
Alike(q) == \A u \in Tasks : q[u].st = task[u].st /\ q[u].res = task[u].res

LEMMA EngagedKept ==
    ASSUME Structure, Stays, Typed', NEW c \in Calls, OtherCalls({c}), Engaged(c)'
    PROVE  Engages'
<1>1. Typed /\ Engages /\ Kept /\ Tasks' = Tasks /\ Calls' = Calls
  BY StaysKept DEF Structure, Typed
<1> SUFFICES ASSUME NEW d \in Calls \ {c} PROVE Engaged(d)'
  BY <1>1 DEF Engages
<1>2. Engaged(d) /\ call'[d] = call[d]
  BY <1>1 DEF Engages, OtherCalls
<1>3. /\ call[d].fn = "blocked" => SameTask(task', call[d].on)
      /\ call[d].victim # None => SameTask(task', call[d].victim)
  BY <1>1, <1>2 DEF Engaged, Kept
<1> QED
  BY <1>1, <1>2, <1>3 DEF Engaged, SameTask, From, List

LEMMA EndedStructure ==
    ASSUME Structure, NEW c \in Calls, NEW out \in Outcomes, NEW q, Ended(c, out, q), Alike(q),
           call[c].pc # "ended", out = "value" => call[c].fn = "done" /\ call[c].res = "value"
    PROVE  Quiet /\ Structure'
<1>1. /\ Typed /\ Born /\ Engages /\ Awaiting /\ Stays /\ Typed' /\ tls' = tls
      /\ OtherCalls({c}) /\ SameWork(call'[c], call[c])
      /\ call'[c].pc = "ended" /\ call'[c].victim = call[c].victim /\ call'[c].out = out
      /\ call'[c].fut = call[c].fut \/ (call[c].fut = "pending" /\ call'[c].fut = "cancelled")
  BY DEF Structure, Ended
<1>2. Kept /\ Tasks' = Tasks /\ Calls' = Calls
  BY <1>1, StaysKept DEF Typed
<1>3. task[By(c)].st = "live" /\ By(c) \in Tasks
  BY <1>1 DEF Awaiting, Born, CallBorn
<1>4. \A u \in Tasks \ {By(c)} : task'[u].st = task[u].st /\ task'[u].res = task[u].res
  BY DEF Ended, Alike
<1>5. Quiet
  BY <1>1, <1>2, <1>3, <1>4 DEF Quiet, OtherCalls, SameWork
<1>6. Engages'
  <2>1. Engaged(c)'
    <3>1. Engaged(c)
      BY <1>1 DEF Engages
    <3>2. /\ call[c].fn = "blocked" => SameTask(task', call[c].on)
          /\ call[c].victim # None => SameTask(task', call[c].victim)
      BY <1>2, <3>1 DEF Engaged, Kept
    <3> QED
      BY <1>1, <1>2, <3>1, <3>2 DEF Engaged, SameTask, SameWork, From, List
  <2> QED
    BY <1>1, <2>1, EngagedKept
<1>7. Awaiting'
  <2>1. ASSUME NEW d \in Calls, call'[d].pc # "ended"
        PROVE  /\ d # c /\ call'[d] = call[d] /\ task'[By(d)].st = "live"
               /\ call[d].fut \in {"pending", "done"} /\ call[d].out = "none"
    <3>1. d # c /\ call'[d] = call[d]
      BY <1>1, <2>1 DEF OtherCalls
    <3>2. By(d) # By(c)
      BY <1>1, <2>1, <3>1 DEF Awaiting
    <3>3. By(d) \in Tasks
      BY <1>1 DEF Born, CallBorn
    <3> QED
      BY <1>1, <1>4, <2>1, <3>1, <3>2, <3>3 DEF Awaiting
  <2>2. ASSUME NEW d \in Calls
        PROVE  /\ call'[d].fut = "done" => call'[d].fn = "done"
               /\ call'[d].out = "value" => call'[d].fn = "done" /\ call'[d].res = "value"
    BY <1>1 DEF Awaiting, OtherCalls, SameWork
  <2>3. \A d \in Calls : By(d)' = By(d)
    BY <1>2 DEF Kept, SameCall, By
  <2>4. \A d, e \in Calls : (call'[d].pc # "ended" /\ call'[e].pc # "ended" /\ By(d) = By(e)) => d = e
    BY <1>1, <2>1 DEF Awaiting
  <2> QED
    BY <1>2, <2>1, <2>2, <2>3, <2>4 DEF Awaiting
<1> QED
  BY <1>2, <1>5, <1>6, <1>7, QuietStructure

LEMMA WaitsStructure ==
    ASSUME Structure, NEW c \in Calls, NEW f \in {"pending", "done", "cancelled"}, NEW p, NEW v,
           Waits(c, f, p, v, call[c].out), Alike(task'),
           p = "ended" <=> call[c].pc = "ended", f = "done" => call[c].fn = "done",
           p # "ended" => f # "cancelled", v # None => v \in Tasks /\ List(v) = c,
           p \in {"task", "exec"} => v # None
    PROVE  Quiet /\ Structure'
<1>1. /\ Typed /\ Born /\ Engages /\ Awaiting /\ Stays /\ Typed' /\ tls' = tls
      /\ OtherCalls({c}) /\ SameWork(call'[c], call[c])
      /\ call'[c].fut = f /\ call'[c].pc = p /\ call'[c].victim = v
      /\ call'[c].out = call[c].out
  BY DEF Structure, Waits, IsWaited
<1>2. Kept /\ Tasks' = Tasks /\ Calls' = Calls
  BY <1>1, StaysKept DEF Typed
<1>3. Quiet
  BY <1>1, <1>2 DEF Quiet, OtherCalls, SameWork, Alike
<1>4. Engages'
  <2>1. Engaged(c)'
    <3>1. Engaged(c)
      BY <1>1 DEF Engages
    <3>2. /\ call[c].fn = "blocked" => SameTask(task', call[c].on)
          /\ v # None => SameTask(task', v)
      BY <1>2, <3>1 DEF Engaged, Kept
    <3> QED
      BY <1>1, <1>2, <3>1, <3>2 DEF Engaged, SameTask, SameWork, From, List
  <2> QED
    BY <1>1, <2>1, EngagedKept
<1>5. Awaiting'
  <2>1. ASSUME NEW d \in Calls, call'[d].pc # "ended"
        PROVE  /\ call[d].pc # "ended" /\ task'[By(d)].st = "live"
               /\ call'[d].fut \in {"pending", "done"} /\ call'[d].out = "none"
    <3>1. call[d].pc # "ended"
      BY <1>1, <2>1 DEF OtherCalls
    <3>2. By(d) \in Tasks
      BY <1>1 DEF Born, CallBorn
    <3>3. task[By(d)].st = "live" /\ call[d].fut \in {"pending", "done"} /\ call[d].out = "none"
      BY <1>1, <3>1 DEF Awaiting
    <3>4. task'[By(d)].st = "live"
      BY <3>2, <3>3 DEF Alike
    <3>5. CASE d = c
      BY <1>1, <2>1, <3>1, <3>3, <3>4, <3>5
    <3>6. CASE d # c
      BY <1>1, <3>1, <3>3, <3>4, <3>6 DEF OtherCalls
    <3> QED
      BY <3>5, <3>6
  <2>2. ASSUME NEW d \in Calls
        PROVE  /\ call'[d].fut = "done" => call'[d].fn = "done"
               /\ call'[d].out = "value" => call'[d].fn = "done" /\ call'[d].res = "value"
    BY <1>1 DEF Awaiting, OtherCalls, SameWork
  <2>3. \A d \in Calls : By(d)' = By(d)
    BY <1>2 DEF Kept, SameCall, By
  <2>4. \A d, e \in Calls : (call'[d].pc # "ended" /\ call'[e].pc # "ended" /\ By(d) = By(e)) => d = e
    BY <1>1, <2>1 DEF Awaiting
  <2> QED
    BY <1>2, <2>1, <2>2, <2>3, <2>4 DEF Awaiting
<1> QED
  BY <1>2, <1>3, <1>4, <1>5, QuietStructure

\* Steps of the threads.
LEMMA WorksBasics ==
    ASSUME Structure, NEW c \in Calls, NEW f, NEW o, NEW k, NEW s, Works(c, f, o, k, s),
           call[c].fn # "done", Engaged(c)'
    PROVE  /\ Kept /\ Tasks' = Tasks /\ Calls' = Calls /\ Typed' /\ Born' /\ Engages' /\ Awaiting'
           /\ \A d \in Calls : /\ d # c => call'[d] = call[d]
                               /\ Thread(d)' = Thread(d) /\ By(d)' = By(d)
                               /\ call'[d].exec = call[d].exec
           /\ \A t \in Tasks : From(t)' = From(t) /\ List(t)' = List(t) /\ (Open(t)' <=> Open(t))
           /\ call'[c].fn = f /\ call'[c].on = o /\ call'[c].kept = k /\ call'[c].res = s
           /\ SameWait(call'[c], call[c])
<1>1. /\ Typed /\ Born /\ Engages /\ Awaiting /\ Stays /\ Typed' /\ task' = task
      /\ OtherCalls({c}) /\ SameWait(call'[c], call[c])
      /\ call'[c].fn = f /\ call'[c].on = o /\ call'[c].kept = k /\ call'[c].res = s
  BY DEF Structure, Works, IsWorked
<1>2. Kept /\ Tasks' = Tasks /\ Calls' = Calls
  BY <1>1, StaysKept DEF Typed, Works, IsWorked
<1>3. Born' /\ Engages'
  BY <1>1, <1>2, BornKept, EngagedKept
<1>4. \A d \in Calls : /\ d # c => call'[d] = call[d]
                       /\ Thread(d)' = Thread(d) /\ By(d)' = By(d)
                       /\ call'[d].exec = call[d].exec
  BY <1>1, <1>2 DEF OtherCalls, Kept, SameCall, Thread, By
<1>5. Awaiting'
  <2>1. \A d \in Calls : /\ call'[d].pc = call[d].pc /\ call'[d].fut = call[d].fut
                         /\ call'[d].out = call[d].out /\ call'[d].by = call[d].by
    BY <1>1, <1>2 DEF OtherCalls, SameWait, Kept, SameCall
  <2>2. call[c].fut # "done" /\ call[c].out # "value"
    BY <1>1 DEF Awaiting
  <2> QED
    BY <1>1, <1>2, <1>4, <2>1, <2>2 DEF Awaiting, By
<1>6. \A t \in Tasks : From(t)' = From(t) /\ List(t)' = List(t) /\ (Open(t)' <=> Open(t))
  BY <1>1 DEF From, List, Open
<1> QED
  BY <1>1, <1>2, <1>3, <1>4, <1>5, <1>6

\* The executor's thread is pumped by the call it is blocked in.
LEMMA StructureStartFn ==
    ASSUME Structure, NEW c \in Calls, StartFn(c)
    PROVE  Structure'
<1>1. /\ Typed /\ Born /\ Engages /\ Locals /\ Blocking /\ Stacked /\ Latest /\ Joined
      /\ Calls = 1 .. Len(call) /\ Len(call) \in Nat
  BY CallsTyped DEF Structure
<1>2. PICK h : h = Thread(c)
  OBVIOUS
<1>3. /\ call[c].fn = "queued" /\ tls' = [tls EXCEPT ![h] = c] /\ h \in Threads
      /\ IF call[c].exec = None THEN OnThread(h) = {}
         ELSE \E d \in OnThread(h) : Innermost(d) /\ call[d].on = call[c].exec
  BY <1>1, <1>2, StartFnDoes, CallsTyped, CallParts DEF Thread
<1>4. PICK f, o, k, s : /\ f = "running" /\ o = call[c].on /\ k = call[c].kept /\ s = call[c].res
                        /\ Works(c, f, o, k, s)
  BY <1>1, StartFnDoes
<1>5. Engaged(c)'
  <2>1. Engaged(c) /\ o = None
    BY <1>1, <1>3, <1>4 DEF Engages, Engaged
  <2>2. call'[c].fn = "running" /\ call'[c].on = o /\ SameWait(call'[c], call[c]) /\ task' = task
    BY <1>4 DEF Works, IsWorked
  <2> QED
    BY <2>1, <2>2 DEF Engaged, SameWait, From, List, Tasks
<1>6. /\ Kept /\ Tasks' = Tasks /\ Calls' = Calls /\ Typed' /\ Born' /\ Engages' /\ Awaiting'
      /\ \A d \in Calls : /\ d # c => call'[d] = call[d]
                          /\ Thread(d)' = Thread(d) /\ call'[d].exec = call[d].exec
      /\ \A t \in Tasks : From(t)' = From(t) /\ List(t)' = List(t) /\ (Open(t)' <=> Open(t))
      /\ call'[c].fn = "running"
  BY <1>3, <1>4, <1>5, WorksBasics
<1>7. \A d \in Calls : Active(d)' <=> (d = c \/ Active(d))
  BY <1>3, <1>6 DEF Active
<1>8. \A d \in Calls : d \in OnThread(h) <=> Active(d) /\ Thread(d) = h
  BY DEF OnThread, Active, Thread
<1>9. \A d \in Calls : Active(d) /\ Thread(d) = h =>
          d < c /\ call[d].fn = "blocked" /\ call[c].exec # None
  <2> SUFFICES ASSUME NEW d \in Calls, Active(d), Thread(d) = h
               PROVE  d < c /\ call[d].fn = "blocked" /\ call[c].exec # None
    OBVIOUS
  <2>1. call[c].exec # None
    BY <1>3, <1>8
  <2>2. PICK e \in OnThread(h) : Innermost(e) /\ call[e].on = call[c].exec
    BY <1>3, <2>1
  <2>3. e \in Calls /\ Active(e) /\ Thread(e) = h /\ d <= e
    BY <1>8, <2>2 DEF OnThread, Innermost, Thread
  <2>4. call[e].fn = "blocked" /\ From(call[c].exec) = e
    <3>1. Engaged(e)
      BY <1>1, <2>3 DEF Engages
    <3> QED
      BY <2>1, <2>2, <3>1 DEF Engaged
  <2>5. e <= List(call[c].exec) /\ List(call[c].exec) < c /\ List(call[c].exec) \in Nat
    <3>1. CallBorn(c)
      BY <1>1 DEF Born
    <3>2. TaskBorn(call[c].exec) /\ From(call[c].exec) # None
      BY <1>1, <2>1, <3>1 DEF Born, CallBorn
    <3>3. List(call[c].exec) \in Calls
      BY <3>2 DEF TaskBorn
    <3> QED
      BY <1>1, <2>1, <2>4, <3>1, <3>2, <3>3 DEF CallBorn, TaskBorn
  <2>6. d < c
    BY <1>1, <2>3, <2>5
  <2>7. d # e => call[d].fn = "blocked"
    BY <1>1, <2>3 DEF Stacked
  <2> QED
    BY <2>1, <2>4, <2>6, <2>7
<1>10. Locals'
  <2>1. ASSUME NEW x \in Threads, NEW y, y = tls'[x], y # None
        PROVE  y \in Calls /\ Thread(y)' = x /\ call'[y].fn \in {"running", "blocked", "done"}
    <3>1. CASE x = h
      <4>1. y = c
        BY <1>1, <1>3, <2>1, <3>1 DEF Typed
      <4> QED
        BY <1>2, <1>6, <3>1, <4>1
    <3>2. CASE x # h
      <4>1. y = tls[x]
        BY <1>1, <1>3, <2>1, <3>2 DEF Typed
      <4>2. y \in Calls /\ Thread(y) = x /\ call[y].fn \in {"running", "blocked", "done"}
        BY <1>1, <2>1, <4>1 DEF Locals
      <4>3. y # c
        BY <1>3, <4>2
      <4> QED
        BY <1>6, <4>2, <4>3
    <3> QED
      BY <3>1, <3>2
  <2> QED
    BY <1>6, <2>1 DEF Locals, Thread
<1>11. Blocking'
  <2> SUFFICES ASSUME NEW t \in Tasks, Open(t)
               PROVE  call'[From(t)].on = t /\ call'[From(t)].fn = "blocked"
    BY <1>6 DEF Blocking
  <2>1. call[From(t)].on = t /\ call[From(t)].fn = "blocked" /\ From(t) \in Calls
    BY <1>1 DEF Blocking, Born, TaskBorn, Open
  <2> QED
    BY <1>3, <1>6, <2>1
<1>12. Stacked'
  <2> SUFFICES ASSUME NEW d \in Calls, NEW e \in Calls, Active(d)', Active(e)',
                      Thread(d) = Thread(e), d < e
               PROVE  call'[d].fn = "blocked"
    BY <1>6 DEF Stacked
  <2>1. d # c
    BY <1>1, <1>2, <1>7, <1>9
  <2>2. call[d].fn = "blocked"
    BY <1>1, <1>2, <1>7, <1>9, <2>1 DEF Stacked
  <2> QED
    BY <1>6, <2>1, <2>2
<1>13. Latest'
  <2> SUFFICES ASSUME NEW d \in Calls, Active(d)', NEW x, x = Thread(d)
               PROVE  /\ tls'[x] # None /\ d <= tls'[x]
                      /\ d # tls'[x] => call'[tls'[x]].exec # None
    BY <1>6 DEF Latest
  <2>1. x \in Threads
    BY CallsTyped, CallParts, <1>1 DEF Thread
  <2>2. CASE x = h
    <3>1. tls'[x] = c /\ c # None
      BY <1>1, <1>3, <2>2 DEF Typed, None
    <3>2. d = c \/ (Active(d) /\ Thread(d) = h)
      BY <1>7, <2>2
    <3> QED
      BY <1>1, <1>6, <1>9, <3>1, <3>2
  <2>3. CASE x # h
    <3>1. tls'[x] = tls[x] /\ Active(d) /\ d # c
      BY <1>1, <1>2, <1>3, <1>7, <2>1, <2>3 DEF Typed
    <3>2. tls[x] # None /\ d <= tls[x] /\ (d # tls[x] => call[tls[x]].exec # None)
      BY <1>1, <3>1 DEF Latest
    <3>3. tls[x] \in Calls
      BY <1>1, <2>1, <3>2 DEF Locals
    <3> QED
      BY <1>6, <3>1, <3>2, <3>3
  <2> QED
    BY <2>2, <2>3
<1>14. Joined'
  <2> SUFFICES ASSUME NEW t \in Tasks, NEW d \in Calls, Open(t), Active(d)',
                      Thread(d) = Thread(From(t)), From(t) < d
               PROVE  List(t) < d
    <3>1. \A t \in Tasks : Open(t) => From(t) \in Calls
      BY <1>1 DEF Born, TaskBorn, Open
    <3>2. \A t \in Tasks : Open(t) => (Thread(From(t))' = Thread(From(t)))
      BY <1>6, <3>1 DEF Thread
    <3> QED
      BY <1>6, <3>2 DEF Joined
  <2>1. CASE Active(d)
    BY <1>1, <2>1 DEF Joined
  <2>2. CASE d = c
    <3>1. /\ From(t) \in Calls /\ call[From(t)].on = t /\ call[From(t)].fn = "blocked"
          /\ List(t) \in Calls
      BY <1>1 DEF Blocking, Born, TaskBorn, Open
    <3>2. Active(From(t)) /\ Thread(From(t)) = h
      BY <1>2, <2>2, <3>1 DEF Active
    <3>3. PICK e \in OnThread(h) : Innermost(e) /\ call[e].on = call[c].exec
      BY <1>3, <1>9, <3>1, <3>2
    <3>4. e \in Calls /\ Active(e) /\ Thread(e) = h /\ From(t) <= e
      BY <1>8, <3>1, <3>2, <3>3 DEF OnThread, Innermost, Thread
    <3>5. call[c].exec # None /\ List(call[c].exec) < c
      BY <1>1, <1>9, <3>1, <3>2 DEF Born, CallBorn
    <3>6. CASE From(t) = e
      BY <2>2, <3>1, <3>3, <3>5, <3>6
    <3>7. CASE From(t) < e
      <4>1. List(t) < e /\ e < c
        BY <1>1, <1>9, <3>2, <3>4, <3>7 DEF Joined
      <4> QED
        BY <1>1, <2>2, <3>1, <3>4, <4>1
    <3> QED
      BY <1>1, <3>1, <3>4, <3>6, <3>7
  <2> QED
    BY <1>7, <2>1, <2>2
<1> QED
  BY <1>6, <1>10, <1>11, <1>12, <1>13, <1>14 DEF Structure

\* The work of a call ends, is dropped, or goes on after async_to_sync.
LEMMA WorksStructure ==
    ASSUME Structure, NEW c \in Calls, NEW f, NEW o, NEW k, NEW s, Works(c, f, o, k, s),
           tls' = tls, Engaged(c)',
           \/ call[c].fn = "queued" /\ f = "dropped"
           \/ Active(c) /\ f \in {"running", "done"},
           f = "running" => Innermost(c),
           call[c].fn = "blocked" => task[call[c].on].st = "done"
    PROVE  Structure'
<1>1. /\ Typed /\ Born /\ Engages /\ Locals /\ Blocking /\ Stacked /\ Latest /\ Joined
      /\ Calls = 1 .. Len(call) /\ Len(call) \in Nat
  BY CallsTyped DEF Structure
<1>2. /\ Kept /\ Tasks' = Tasks /\ Calls' = Calls /\ Typed' /\ Born' /\ Engages' /\ Awaiting'
      /\ \A d \in Calls : /\ d # c => call'[d] = call[d]
                          /\ Thread(d)' = Thread(d) /\ call'[d].exec = call[d].exec
      /\ \A t \in Tasks : From(t)' = From(t) /\ List(t)' = List(t) /\ (Open(t)' <=> Open(t))
      /\ call'[c].fn = f
  <2>1. call[c].fn # "done"
    BY DEF Active
  <2> QED
    BY <2>1, WorksBasics
<1>3. \A d \in Calls : Active(d)' => Active(d)
  BY <1>2 DEF Active
<1>4. Locals'
  <2>1. ASSUME NEW x \in Threads, NEW y, y = tls[x], y # None
        PROVE  y \in Calls /\ Thread(y)' = x /\ call'[y].fn \in {"running", "blocked", "done"}
    <3>1. y \in Calls /\ Thread(y) = x /\ call[y].fn \in {"running", "blocked", "done"}
      BY <1>1, <2>1 DEF Locals
    <3> QED
      BY <1>2, <3>1 DEF Active
  <2> QED
    BY <1>2, <2>1 DEF Locals, Thread
<1>5. Blocking'
  <2> SUFFICES ASSUME NEW t \in Tasks, Open(t)
               PROVE  call'[From(t)].on = t /\ call'[From(t)].fn = "blocked"
    BY <1>2 DEF Blocking
  <2>1. call[From(t)].on = t /\ call[From(t)].fn = "blocked" /\ From(t) \in Calls
    BY <1>1 DEF Blocking, Born, TaskBorn, Open
  <2>2. From(t) # c
    BY <2>1 DEF Open
  <2> QED
    BY <1>2, <2>1, <2>2
<1>6. Stacked'
  <2> SUFFICES ASSUME NEW d \in Calls, NEW e \in Calls, Active(d)', Active(e)',
                      Thread(d) = Thread(e), d < e
               PROVE  call'[d].fn = "blocked"
    BY <1>2 DEF Stacked
  <2>1. Active(d) /\ Active(e)
    BY <1>3
  <2>2. call[d].fn = "blocked"
    BY <1>1, <2>1 DEF Stacked
  <2>3. d # c
    <3>1. d = c => f = "running"
      BY <1>2 DEF Active
    <3>2. e \in OnThread(Thread(d))
      BY <2>1 DEF OnThread, Active, Thread
    <3> QED
      BY <1>1, <3>1, <3>2 DEF Innermost, Thread
  <2> QED
    BY <1>2, <2>2, <2>3
<1>7. Latest'
  <2> SUFFICES ASSUME NEW d \in Calls, Active(d), NEW x, x = Thread(d)
               PROVE  /\ tls[x] # None /\ d <= tls[x]
                      /\ d # tls[x] => call'[tls[x]].exec # None
    BY <1>2, <1>3 DEF Latest
  <2>1. x \in Threads
    BY CallsTyped, CallParts, <1>1 DEF Thread
  <2>2. tls[x] # None /\ d <= tls[x] /\ (d # tls[x] => call[tls[x]].exec # None)
    BY <1>1 DEF Latest
  <2>3. tls[x] \in Calls
    BY <1>1, <2>1, <2>2 DEF Locals
  <2> QED
    BY <1>2, <2>2, <2>3
<1>8. Joined'
  <2>1. \A t \in Tasks : Open(t) => From(t) \in Calls
    BY <1>1 DEF Born, TaskBorn, Open
  <2>2. \A t \in Tasks : Open(t) => (Thread(From(t))' = Thread(From(t)))
    BY <1>2, <2>1 DEF Thread
  <2> QED
    BY <1>1, <1>2, <1>3, <2>2 DEF Joined
<1> QED
  BY <1>2, <1>4, <1>5, <1>6, <1>7, <1>8 DEF Structure

LEMMA EngagedWorks ==
    ASSUME Structure, NEW c \in Calls, NEW f, NEW o, NEW k, NEW s, Works(c, f, o, k, s),
           f # "blocked", o = None
    PROVE  Engaged(c)'
<1>1. Engaged(c)
  BY DEF Structure, Engages
<1>2. call'[c].fn = f /\ call'[c].on = o /\ SameWait(call'[c], call[c]) /\ task' = task
  BY DEF Works, IsWorked
<1> QED
  BY <1>1, <1>2 DEF Engaged, SameWait, From, List, Tasks

LEMMA StructureDropFn ==
    ASSUME Structure, NEW c \in Calls, DropFn(c)
    PROVE  Structure'
<1>1. Typed /\ Engaged(c)
  BY DEF Structure, Engages
<1>2. PICK f, o, k, s : /\ f = "dropped" /\ o = call[c].on /\ Works(c, f, o, k, s)
                        /\ call[c].fn = "queued" /\ tls' = tls
  BY <1>1, DropFnDoes
<1>3. Engaged(c)'
  BY <1>1, <1>2, EngagedWorks DEF Engaged
<1> QED
  BY <1>2, <1>3, WorksStructure

LEMMA StructureReturnFn ==
    ASSUME Structure, NEW c \in Calls, ReturnFn(c)
    PROVE  Structure'
<1>1. Typed /\ Engaged(c)
  BY DEF Structure, Engages
<1>2. PICK f, o, k, s : /\ f = "done" /\ o = call[c].on /\ Works(c, f, o, k, s)
                        /\ call[c].fn = "running" /\ tls' = tls
  BY <1>1, ReturnFnDoes
<1>3. Engaged(c)'
  BY <1>1, <1>2, EngagedWorks DEF Engaged
<1> QED
  BY <1>2, <1>3, WorksStructure DEF Active

LEMMA StructureReturnAsync ==
    ASSUME Structure, NEW c \in Calls, ReturnAsync(c)
    PROVE  Structure'
<1>1. Typed /\ Engaged(c)
  BY DEF Structure, Engages
<1>2. call[c].fn = "blocked" /\ call[c].on \in Tasks
  BY <1>1 DEF ReturnAsync, Engaged
<1>3. PICK f, o, k, s : /\ Works(c, f, o, k, s) /\ Back(c, f, k, s) /\ o = None
                        /\ Innermost(c) /\ task[call[c].on].st = "done" /\ tls' = tls
  BY <1>1, <1>2, ReturnAsyncDoes
<1>4. f \in {"running", "done"}
  BY <1>3 DEF Back
<1>5. Engaged(c)'
  BY <1>3, <1>4, EngagedWorks
<1> QED
  BY <1>2, <1>3, <1>4, <1>5, WorksStructure DEF Active

LEMMA StructureCallSync ==
    ASSUME Structure, NEW t \in Tasks, NEW sensitive \in BOOLEAN, CallSync(t, sensitive)
    PROVE  Structure' /\ Kept
<1>1. /\ Typed /\ Born /\ Engages /\ Locals /\ Blocking /\ Stacked /\ Latest /\ Joined /\ Awaiting
      /\ Calls = 1 .. Len(call) /\ Len(call) \in Nat /\ TaskBorn(t)
  BY CallsTyped DEF Structure, Born
<1>2. task[t].exec # None => /\ task[t].exec \in Tasks /\ From(task[t].exec) \in Calls
                             /\ List(task[t].exec) \in Calls
  BY <1>1 DEF Born, TaskBorn
<1>3. PICK r, e, n : /\ CallAdded(r) /\ CallMade(r, t, e) /\ n = NewCall
                     /\ Typed' /\ task' = task /\ tls' = tls
                     /\ task[t].st = "live" /\ Awaited(t) = {}
  BY <1>1, <1>2, CallSyncDoes
<1>4. /\ Calls' = Calls \union {n} /\ n \notin Calls /\ n = Len(call) + 1 /\ call'[n] = r
      /\ Tasks' = Tasks /\ \A d \in Calls : call'[d] = call[d]
  BY <1>3 DEF CallAdded, OtherCalls, NewCall, Tasks
<1>5. Kept
  BY <1>3, <1>4 DEF Kept, SameTask, SameCall
<1>6. CallBorn(n)'
  <2>1. r.by = t /\ r.exec = e /\ (e # None => e = task[t].exec /\ r.thread = Thread(From(e)))
    BY <1>3 DEF CallMade
  <2>2. e # None => /\ e \in Tasks /\ From(e) \in Calls /\ List(e) \in Calls /\ From(e) # None
                    /\ call'[From(e)] = call[From(e)] /\ List(e) < n
    BY <1>1, <1>2, <1>4, <2>1 DEF TaskBorn
  <2> QED
    BY <1>3, <1>4, <2>1, <2>2 DEF CallBorn, By, Thread, From, List
<1>7. Born'
  <2>1. \A d \in Calls' \ Calls : d = n
    BY <1>4
  <2> QED
    BY <1>1, <1>3, <1>4, <1>5, <1>6, <2>1, BornKept
<1>8. /\ r.fn = "queued" /\ r.on = None /\ r.fut = "pending" /\ r.pc = "shield"
      /\ r.victim = None /\ r.out = "none" /\ r.by = t
  BY <1>3 DEF CallMade, IsWorked, IsWaited
<1>9. Engages'
  <2>1. \A d \in Calls : Engaged(d)'
    BY <1>1, <1>3, <1>4 DEF Engages, Engaged, From, List
  <2>2. Engaged(n)'
    BY <1>4, <1>8 DEF Engaged, From, List
  <2> QED
    BY <1>4, <2>1, <2>2 DEF Engages
<1>10. /\ \A d \in Calls' : Active(d)' => d \in Calls /\ Active(d)
       /\ \A d \in Calls : Thread(d)' = Thread(d) /\ By(d)' = By(d)
  BY <1>4, <1>8 DEF Active, Thread, By
<1>11. Locals'
  <2>1. \A x \in Threads : tls[x] # None =>
           tls[x] \in Calls /\ call'[tls[x]] = call[tls[x]]
    BY <1>1, <1>4 DEF Locals
  <2> QED
    BY <1>1, <1>3, <1>4, <2>1 DEF Locals, Thread
<1>12. \A u \in Tasks : /\ From(u)' = From(u) /\ List(u)' = List(u) /\ (Open(u)' <=> Open(u))
                        /\ Open(u) => From(u) \in Calls
  BY <1>1, <1>3 DEF From, List, Open, Born, TaskBorn
<1>13. Blocking'
  BY <1>1, <1>4, <1>12 DEF Blocking
<1>14. Stacked'
  BY <1>1, <1>4, <1>10 DEF Stacked
<1>15. Latest'
  <2> SUFFICES ASSUME NEW d \in Calls, Active(d), NEW x, x = Thread(d)
               PROVE  /\ tls[x] # None /\ d <= tls[x]
                      /\ d # tls[x] => call'[tls[x]].exec # None
    BY <1>3, <1>10 DEF Latest
  <2>1. x \in Threads
    BY CallsTyped, CallParts, <1>1 DEF Thread
  <2>2. tls[x] # None /\ d <= tls[x] /\ (d # tls[x] => call[tls[x]].exec # None)
    BY <1>1 DEF Latest
  <2>3. tls[x] \in Calls
    BY <1>1, <2>1, <2>2 DEF Locals
  <2> QED
    BY <1>4, <2>2, <2>3
<1>16. Joined'
  <2>1. \A u \in Tasks : Open(u) => (Thread(From(u))' = Thread(From(u)))
    BY <1>4, <1>12 DEF Thread
  <2> QED
    BY <1>1, <1>4, <1>10, <1>12, <2>1 DEF Joined
<1>17. Awaiting'
  <2>1. \A d \in Calls : call[d].pc # "ended" => By(d) # t
    BY <1>3 DEF Awaited, By
  <2>2. By(n)' = t
    BY <1>4, <1>8 DEF By
  <2>3. ASSUME NEW d \in Calls', NEW q \in Calls', call'[d].pc # "ended", call'[q].pc # "ended",
               By(d)' = By(q)'
        PROVE  d = q
    BY <1>1, <1>4, <1>10, <2>1, <2>2, <2>3 DEF Awaiting
  <2>4. ASSUME NEW d \in Calls'
        PROVE  /\ call'[d].pc # "ended" => /\ task[By(d)'].st = "live" /\ call'[d].out = "none"
                                           /\ call'[d].fut \in {"pending", "done"}
               /\ call'[d].fut = "done" => call'[d].fn = "done"
               /\ call'[d].out = "value" => call'[d].fn = "done" /\ call'[d].res = "value"
    BY <1>1, <1>3, <1>4, <1>8, <1>10, <2>2 DEF Awaiting
  <2> QED
    BY <1>3, <2>3, <2>4 DEF Awaiting
<1> QED
  BY <1>3, <1>5, <1>7, <1>9, <1>11, <1>13, <1>14, <1>15, <1>16, <1>17 DEF Structure

\* main_wrap is given the list of the call that set the thread-local last: the
\* one whose function this is, or one that it pumped.
LEMMA ListForWell ==
    ASSUME Structure, NEW c \in Calls, Active(c)
    PROVE  /\ ListFor(c) \in Calls /\ By(ListFor(c)) \in Tasks /\ c <= ListFor(c)
           /\ Thread(ListFor(c)) = Thread(c)
           /\ call[ListFor(c)].fn \in {"running", "blocked", "done"}
           /\ c # ListFor(c) => call[ListFor(c)].exec # None
<1>1. PICK i, h : h = Thread(c) /\ i = tls[h]
  OBVIOUS
<1>2. h \in Threads
  BY <1>1, CallsTyped, CallParts DEF Thread, Structure
<1>3. i # None /\ c <= i /\ (c # i => call[i].exec # None)
  BY <1>1 DEF Structure, Latest
<1>4. i \in Calls /\ Thread(i) = h /\ call[i].fn \in {"running", "blocked", "done"}
  BY <1>1, <1>2, <1>3 DEF Structure, Locals
<1>5. By(i) \in Tasks
  BY <1>4 DEF Structure, Born, CallBorn
<1> QED
  BY <1>1, <1>3, <1>4, <1>5 DEF ListFor

\* A task n of AsyncToSync is made by the function of c, for the list of i.
Branches(c, i, n) ==
    /\ Tasks' = Tasks \union {n} /\ n \notin Tasks /\ Calls' = Calls /\ Kept
    /\ \A u \in Tasks : task'[u] = task[u]
    /\ \A d \in Calls : /\ d # c => call'[d] = call[d]
                        /\ call'[d].kept = call[d].kept /\ call'[d].res = call[d].res
                        /\ SameWait(call'[d], call[d])
    /\ call[c].fn = "running" /\ call'[c].fn = "blocked" /\ call'[c].on = n
    /\ i \in Calls /\ i = ListFor(c)
    /\ task'[n].from = c /\ task'[n].list = i /\ task'[n].exec = n
    /\ task'[n].st = "scheduled" /\ ~ task'[n].ask /\ task'[n].res = "none"
    /\ tls' = tls

LEMMA CallAsyncBranches ==
    ASSUME Structure, NEW c \in Calls, NEW force \in BOOLEAN, CallAsync(c, force)
    PROVE  \E i, n : Branches(c, i, n) /\ Typed' /\ \A u \in Tasks : u < n
<1>1. Typed /\ Tasks = 1 .. Len(task) /\ Len(task) \in Nat
  BY TasksTyped DEF Structure
<1>2. call[c].fn = "running"
  BY DEF CallAsync
<1>3. ListFor(c) \in Calls /\ By(ListFor(c)) \in Tasks
  BY <1>2, ListForWell DEF Active
<1>4. PICK r, n, i : /\ TaskAdded(r) /\ n = NewTask /\ i = ListFor(c)
                     /\ MadeBy(r, c, n, i)
  BY <1>1, <1>3, CallAsyncDoes
<1>5. /\ LikeCalls(call') /\ Typed' /\ OtherCalls({c}) /\ tls' = tls
      /\ IsWorked(call'[c], "blocked", n, call[c].kept, call[c].res)
      /\ SameWait(call'[c], call[c])
  BY <1>1, <1>3, <1>4, CallAsyncDoes
<1>6. /\ Tasks' = Tasks \union {n} /\ n \notin Tasks /\ task'[n] = r
      /\ \A u \in Tasks : task'[u] = task[u] /\ u < n
  BY <1>1, <1>4 DEF TaskAdded, OtherTasks, NewTask
<1>7. Calls' = Calls
  BY <1>1, <1>5 DEF Calls, LikeCalls, Typed
<1>8. Kept
  BY <1>5, <1>6, <1>7 DEF Kept, SameTask, LikeCalls
<1>9. \A d \in Calls : /\ d # c => call'[d] = call[d]
                       /\ call'[d].kept = call[d].kept /\ call'[d].res = call[d].res
                       /\ SameWait(call'[d], call[d])
  BY <1>5 DEF OtherCalls, IsWorked, SameWait
<1>10. call'[c].fn = "blocked" /\ call'[c].on = n
  BY <1>5 DEF IsWorked
<1>11. Branches(c, i, n)
  BY <1>2, <1>3, <1>4, <1>5, <1>6, <1>7, <1>8, <1>9, <1>10 DEF Branches, MadeBy
<1> QED
  BY <1>5, <1>6, <1>11

LEMMA StructureCallAsync ==
    ASSUME Structure, NEW c \in Calls, NEW i, NEW n, Branches(c, i, n), Typed',
           \A u \in Tasks : u < n
    PROVE  Structure'
<1>1. /\ Typed /\ Born /\ Engages /\ Locals /\ Blocking /\ Stacked /\ Latest /\ Joined /\ Awaiting
      /\ Calls = 1 .. Len(call) /\ Len(call) \in Nat
  BY CallsTyped DEF Structure
<1>2. /\ Tasks' = Tasks \union {n} /\ n \notin Tasks /\ Calls' = Calls /\ Kept /\ tls' = tls
      /\ \A u \in Tasks : task'[u] = task[u]
      /\ \A d \in Calls : /\ d # c => call'[d] = call[d]
                          /\ call'[d].kept = call[d].kept /\ call'[d].res = call[d].res
                          /\ SameWait(call'[d], call[d])
      /\ call[c].fn = "running" /\ call'[c].fn = "blocked" /\ call'[c].on = n
      /\ i \in Calls /\ i = ListFor(c)
      /\ task'[n].from = c /\ task'[n].list = i /\ task'[n].exec = n
      /\ task'[n].st = "scheduled"
  BY DEF Branches
<1>3. /\ c <= i /\ Thread(i) = Thread(c) /\ By(i) \in Tasks /\ By(c) \in Tasks
      /\ c # None /\ i # None
  BY <1>1, <1>2, ListForWell DEF Active, None, Born, CallBorn
<1>4. \A d \in Calls : /\ Thread(d)' = Thread(d) /\ By(d)' = By(d)
                       /\ call'[d].exec = call[d].exec /\ (Active(d)' <=> Active(d))
  BY <1>2 DEF Kept, SameCall, Thread, By, Active
<1>5. Born'
  <2>1. TaskBorn(n)'
    <3>1. By(c)' < n /\ By(i)' < n /\ Thread(i)' = Thread(c)'
      BY <1>2, <1>3, <1>4
    <3>2. From(n)' = c /\ List(n)' = i
      BY <1>2 DEF From, List
    <3> QED
      BY <1>2, <1>3, <3>1, <3>2 DEF TaskBorn
  <2>2. \A u \in Tasks' \ Tasks : u = n
    BY <1>2
  <2> QED
    BY <1>1, <1>2, <2>1, <2>2, BornKept
<1>6. Engages'
  <2> SUFFICES ASSUME NEW d \in Calls PROVE Engaged(d)'
    BY <1>2 DEF Engages
  <2>1. Engaged(d)
    BY <1>1 DEF Engages
  <2>2. CASE d = c
    <3>1. call'[c].victim = call[c].victim /\ call'[c].pc = call[c].pc
      BY <1>2 DEF SameWait
    <3> QED
      BY <1>2, <2>1, <2>2, <3>1 DEF Engaged, From, List
  <2>3. CASE d # c
    BY <1>2, <2>1, <2>3 DEF Engaged, From, List
  <2> QED
    BY <2>2, <2>3
<1>7. Locals'
  <2>1. ASSUME NEW x \in Threads, NEW y, y = tls[x], y # None
        PROVE  y \in Calls /\ Thread(y)' = x /\ call'[y].fn \in {"running", "blocked", "done"}
    <3>1. y \in Calls /\ Thread(y) = x /\ call[y].fn \in {"running", "blocked", "done"}
      BY <1>1, <2>1 DEF Locals
    <3> QED
      BY <1>2, <1>4, <3>1
  <2> QED
    BY <1>2, <2>1 DEF Locals, Thread
<1>8. \A u \in Tasks : /\ From(u)' = From(u) /\ List(u)' = List(u) /\ (Open(u)' <=> Open(u))
                       /\ Open(u) => /\ From(u) \in Calls /\ call[From(u)].fn = "blocked"
                                     /\ call[From(u)].on = u
  BY <1>1, <1>2 DEF From, List, Open, Born, TaskBorn, Blocking
<1>9. Blocking'
  <2> SUFFICES ASSUME NEW u \in Tasks', Open(u)'
               PROVE  call'[From(u)'].on = u /\ call'[From(u)'].fn = "blocked"
    BY DEF Blocking
  <2>1. CASE u = n
    BY <1>2, <2>1 DEF From
  <2>2. CASE u # n
    <3>1. u \in Tasks
      BY <1>2, <2>2
    <3>2. From(u) # c
      BY <1>2, <1>8, <3>1
    <3> QED
      BY <1>2, <1>8, <3>1, <3>2
  <2> QED
    BY <2>1, <2>2
<1>10. Stacked'
  <2> SUFFICES ASSUME NEW d \in Calls, NEW e \in Calls, Active(d), Active(e),
                      Thread(d) = Thread(e), d < e
               PROVE  call'[d].fn = "blocked"
    BY <1>2, <1>4 DEF Stacked
  <2>1. call[d].fn = "blocked"
    BY <1>1 DEF Stacked
  <2> QED
    BY <1>2, <2>1
<1>11. Latest'
  <2> SUFFICES ASSUME NEW d \in Calls, Active(d), NEW x, x = Thread(d)
               PROVE  /\ tls[x] # None /\ d <= tls[x]
                      /\ d # tls[x] => call'[tls[x]].exec # None
    BY <1>2, <1>4 DEF Latest
  <2>1. x \in Threads
    BY CallsTyped, CallParts, <1>1 DEF Thread
  <2>2. tls[x] # None /\ d <= tls[x] /\ (d # tls[x] => call[tls[x]].exec # None)
    BY <1>1 DEF Latest
  <2>3. tls[x] \in Calls
    BY <1>1, <2>1, <2>2 DEF Locals
  <2> QED
    BY <1>4, <2>2, <2>3
<1>12. Joined'
  <2> SUFFICES ASSUME NEW u \in Tasks', NEW d \in Calls, Open(u)', Active(d),
                      Thread(d) = Thread(From(u))', From(u)' < d
               PROVE  List(u)' < d
    BY <1>2, <1>4 DEF Joined
  <2>1. CASE u = n
    <3>1. From(u)' = c
      BY <1>2, <2>1 DEF From
    <3>2. Thread(d) = Thread(c) /\ c < d
      BY <1>4, <3>1 DEF Thread
    <3>3. call[c].fn = "blocked"
      BY <1>1, <1>2, <3>2 DEF Stacked, Active
    <3> QED
      BY <1>2, <3>3
  <2>2. CASE u # n
    <3>1. u \in Tasks
      BY <1>2, <2>2
    <3>2. Thread(From(u))' = Thread(From(u))
      BY <1>4, <1>8, <3>1 DEF Thread
    <3> QED
      BY <1>1, <1>8, <3>1, <3>2 DEF Joined
  <2> QED
    BY <2>1, <2>2
<1>13. Awaiting'
  <2>1. \A d \in Calls : /\ call'[d].pc = call[d].pc /\ call'[d].fut = call[d].fut
                         /\ call'[d].out = call[d].out /\ call'[d].res = call[d].res
                         /\ call[d].fn = "done" => call'[d].fn = "done"
    BY <1>2 DEF SameWait
  <2>2. \A d \in Calls : By(d) \in Tasks
    BY <1>1 DEF Born, CallBorn
  <2> QED
    BY <1>1, <1>2, <1>4, <2>1, <2>2 DEF Awaiting
<1> QED
  BY <1>2, <1>5, <1>6, <1>7, <1>9, <1>10, <1>11, <1>12, <1>13 DEF Structure

-----------------------------------------------------------------------------
(* The recursive definitions                                                *)

\* The task that a task which is cancelled passes the cancellation to, if any.
NextDown(t) ==
    IF AwaitsTask(t) = {} THEN None ELSE call[CHOOSE c \in AwaitsTask(t) : TRUE].victim

\* It is newer, and not done.
LEMMA NextIsBelow ==
    ASSUME Structure, NEW t \in Tasks
    PROVE  /\ NextDown(t) # None => /\ NextDown(t) \in Tasks /\ t < NextDown(t)
                                    /\ task[NextDown(t)].st # "done"
                                    /\ \E c \in Calls : /\ By(c) = t /\ call[c].pc = "task"
                                                        /\ call[c].victim # None
           /\ (AwaitsTask(t) = {} <=> NextDown(t) = None)
<1>1. Engages /\ Born /\ Tasks = 1 .. Len(task)
  BY TasksTyped DEF Structure
<1>2. CASE AwaitsTask(t) = {}
  BY <1>2 DEF NextDown
<1>3. CASE AwaitsTask(t) # {}
  <2>1. PICK c : c = CHOOSE d \in AwaitsTask(t) : TRUE
    OBVIOUS
  <2>2. c \in AwaitsTask(t) /\ NextDown(t) = call[c].victim
    BY <1>3, <2>1 DEF NextDown
  <2>3. c \in Calls /\ By(c) = t /\ call[c].pc = "task" /\ task[call[c].victim].st # "done"
    BY <2>2 DEF AwaitsTask, By
  <2>4. call[c].victim # None /\ call[c].victim \in Tasks /\ List(call[c].victim) = c
    BY <1>1, <2>3 DEF Engages, Engaged
  <2>5. t < call[c].victim
    <3>1. TaskBorn(call[c].victim) /\ c # None
      BY <1>1, <2>3, <2>4, CallsTyped DEF Born, None, Structure
    <3> QED
      BY <2>3, <2>4, <3>1 DEF TaskBorn
  <2> QED
    BY <1>3, <2>2, <2>3, <2>4, <2>5
<1> QED
  BY <1>2, <1>3

\* What Deepest computes.
DeepestDefined ==
    \A t \in Tasks : Deepest[t] = IF NextDown(t) = None THEN t ELSE Deepest[NextDown(t)]

LEMMA DeepestUnfolds == Structure => DeepestDefined
<1> SUFFICES ASSUME Structure PROVE DeepestDefined
  OBVIOUS
<1>1. PICK n \in Nat : n = Len(task) /\ Tasks = 1 .. n
  BY TasksTyped DEF Structure
<1>2. PICK next : next = [t \in 1 .. n |-> NextDown(t)]
  OBVIOUS
<1>3. \A t \in 1 .. n : next[t] = NextDown(t) /\ (next[t] = 0 \/ next[t] \in t + 1 .. n)
  <2> SUFFICES ASSUME NEW t \in 1 .. n
               PROVE  next[t] = NextDown(t) /\ (next[t] = 0 \/ next[t] \in t + 1 .. n)
    OBVIOUS
  <2>1. next[t] = NextDown(t)
    BY <1>2
  <2>2. next[t] # 0 => next[t] \in 1 .. n /\ t < next[t]
    BY <1>1, <2>1, NextIsBelow DEF None
  <2> QED
    BY <2>1, <2>2
<1>4. \E g : g = [t \in 1 .. n |-> IF next[t] = 0 THEN t ELSE g[next[t]]]
  <2>1. PICK down : down = [m \in 1 .. n |-> IF next[n + 1 - m] = 0 THEN 0
                                             ELSE n + 1 - next[n + 1 - m]]
    OBVIOUS
  <2>2. PICK step : step = [p \in (1 .. n) \X Nat |-> IF next[n + 1 - p[1]] = 0
                                                      THEN n + 1 - p[1] ELSE p[2]]
    OBVIOUS
  <2>3. Descends(n, down)
    <3>1. ASSUME NEW m \in 1 .. n PROVE down[m] \in Nat /\ down[m] < m
      <4>1. PICK t \in 1 .. n : t = n + 1 - m
        OBVIOUS
      <4>2. down[m] = IF next[t] = 0 THEN 0 ELSE n + 1 - next[t]
        BY <2>1, <4>1
      <4>3. next[t] = 0 \/ next[t] \in t + 1 .. n
        BY <1>3
      <4> QED
        BY <4>1, <4>2, <4>3
    <3> QED
      BY <2>1, <3>1 DEF Descends
  <2>4. Steps(n, Nat, 0, step)
    <3>1. ASSUME NEW p \in (1 .. n) \X Nat PROVE step[p] \in Nat
      <4>1. p[1] \in 1 .. n /\ p[2] \in Nat
        OBVIOUS
      <4> QED
        BY <2>2, <4>1
    <3> QED
      BY <2>2, <3>1 DEF Steps
  <2>5. PICK g : Recurs(n, Nat, g, down, 0, step)
    <3>1. PICK zero, V : zero = 0 /\ V = Nat
      OBVIOUS
    <3>2. Steps(n, V, zero, step)
      BY <2>4, <3>1
    <3>3. \E g : Recurs(n, V, g, down, zero, step)
      BY <2>3, <3>2, Recursion
    <3> QED
      BY <3>1, <3>3
  <2>6. PICK f : f = [t \in 1 .. n |-> g[n + 1 - t]]
    OBVIOUS
  <2>7. ASSUME NEW t \in 1 .. n PROVE f[t] = IF next[t] = 0 THEN t ELSE f[next[t]]
    <3>1. PICK m \in 1 .. n : m = n + 1 - t
      OBVIOUS
    <3>2. n + 1 - m = t
      BY <3>1
    <3>3. f[t] = g[m] /\ g[m] = step[<<m, g[down[m]]>>]
      BY <2>5, <2>6, <3>1 DEF Recurs
    <3>4. down[m] = IF next[t] = 0 THEN 0 ELSE n + 1 - next[t]
      BY <2>1, <3>2
    <3>5. down[m] \in 0 .. n /\ g[down[m]] \in Nat
      BY <2>3, <2>5 DEF Descends, Recurs
    <3>6. step[<<m, g[down[m]]>>] = IF next[t] = 0 THEN t ELSE g[down[m]]
      BY <2>2, <3>2, <3>5
    <3>7. next[t] # 0 => f[next[t]] = g[n + 1 - next[t]]
      BY <1>3, <2>6
    <3> QED
      BY <3>3, <3>4, <3>6, <3>7
  <2>8. f = [t \in 1 .. n |-> IF next[t] = 0 THEN t ELSE f[next[t]]]
    <3>1. f = [t \in 1 .. n |-> f[t]]
      BY <2>6
    <3> QED
      BY <2>7, <3>1
  <2> QED
    BY <2>8
<1>5. \E g : g = [t \in Tasks |-> IF AwaitsTask(t) = {} THEN t
                                  ELSE g[call[CHOOSE c \in AwaitsTask(t) : TRUE].victim]]
  <2>1. PICK g : g = [t \in 1 .. n |-> IF next[t] = 0 THEN t ELSE g[next[t]]]
    BY <1>4
  <2>2. ASSUME NEW t \in Tasks
        PROVE  (IF next[t] = 0 THEN t ELSE g[next[t]])
                 = IF AwaitsTask(t) = {} THEN t
                   ELSE g[call[CHOOSE c \in AwaitsTask(t) : TRUE].victim]
    <3>1. next[t] = NextDown(t) /\ (AwaitsTask(t) = {} <=> NextDown(t) = 0)
      BY <1>1, <1>3, NextIsBelow DEF None
    <3> QED
      BY <3>1 DEF NextDown
  <2>3. g = [t \in Tasks |-> IF AwaitsTask(t) = {} THEN t
                             ELSE g[call[CHOOSE c \in AwaitsTask(t) : TRUE].victim]]
    BY <1>1, <2>1, <2>2
  <2> QED
    BY <2>3
<1>6. Deepest = [t \in Tasks |-> IF AwaitsTask(t) = {} THEN t
                                 ELSE Deepest[call[CHOOSE c \in AwaitsTask(t) : TRUE].victim]]
  BY <1>5, Zenon DEF Deepest
<1>7. ASSUME NEW t \in Tasks
      PROVE  Deepest[t] = IF NextDown(t) = None THEN t ELSE Deepest[NextDown(t)]
  <2>1. Deepest[t] = IF AwaitsTask(t) = {} THEN t
                     ELSE Deepest[call[CHOOSE c \in AwaitsTask(t) : TRUE].victim]
    BY <1>6
  <2>2. AwaitsTask(t) = {} <=> NextDown(t) = None
    BY NextIsBelow
  <2> QED
    BY <2>1, <2>2 DEF NextDown
<1> QED
  BY <1>7 DEF DeepestDefined

\* The task that is cancelled in the end is the task itself, or newer; it is not
\* done if the task is not; and if it is another, the task awaits one.
LEMMA DeepestWell ==
    ASSUME Structure, NEW t \in Tasks
    PROVE  /\ Deepest[t] \in Tasks /\ t <= Deepest[t]
           /\ task[t].st # "done" => task[Deepest[t]].st # "done"
           /\ Deepest[t] # t => \E c \in Calls : /\ By(c) = t /\ call[c].pc = "task"
                                                 /\ call[c].victim # None
<1>1. PICK n \in Nat : n = Len(task) /\ Tasks = 1 .. n
  BY TasksTyped DEF Structure
<1> DEFINE Good(u) == /\ Deepest[u] \in Tasks /\ u <= Deepest[u]
                      /\ task[u].st # "done" => task[Deepest[u]].st # "done"
           Bad == {u \in 1 .. n : ~ Good(u)}
<1>2. ASSUME NEW u \in 1 .. n, \A v \in 1 .. n : u < v => Good(v)
      PROVE  Good(u)
  <2>1. Deepest[u] = IF NextDown(u) = None THEN u ELSE Deepest[NextDown(u)]
    BY <1>1, DeepestUnfolds DEF DeepestDefined
  <2>2. NextDown(u) # None => /\ NextDown(u) \in 1 .. n /\ u < NextDown(u)
                              /\ task[NextDown(u)].st # "done"
    BY <1>1, NextIsBelow
  <2>3. CASE NextDown(u) = None
    BY <1>1, <2>1, <2>3
  <2>4. CASE NextDown(u) # None
    <3>1. PICK v \in 1 .. n : v = NextDown(u)
      BY <2>2, <2>4
    <3>2. Good(v) /\ u < v /\ task[v].st # "done" /\ Deepest[u] = Deepest[v]
      BY <1>2, <2>1, <2>2, <2>4, <3>1
    <3> QED
      BY <1>1, <3>2
  <2> QED
    BY <2>3, <2>4
<1> HIDE DEF Good
<1>3. Bad = {}
  <2> SUFFICES ASSUME Bad # {} PROVE FALSE
    OBVIOUS
  <2>1. PICK S \in SUBSET (1 .. n) : S = Bad
    OBVIOUS
  <2>2. PICK u \in S : \A v \in S : v <= u
    BY <2>1, GreatestNumber
  <2>3. \A v \in 1 .. n : u < v => Good(v)
    BY <2>1, <2>2
  <2> QED
    BY <1>2, <2>1, <2>2, <2>3
<1>4. Good(t)
  BY <1>1, <1>3
<1>5. Deepest[t] # t => NextDown(t) # None
  BY DeepestUnfolds DEF DeepestDefined
<1> QED
  BY <1>4, <1>5, NextIsBelow DEF Good

\* What Above computes.
AboveDefined ==
    \A t \in Tasks : Above[t] = IF From(t) = None THEN {} ELSE {From(t)} \union Above[By(From(t))]

LEMMA AboveUnfolds == Structure => AboveDefined
<1> SUFFICES ASSUME Structure PROVE AboveDefined
  OBVIOUS
<1>1. PICK n \in Nat : n = Len(task) /\ Tasks = 1 .. n
  BY TasksTyped DEF Structure
<1>2. \A t \in 1 .. n : From(t) # 0 => /\ From(t) \in Calls /\ By(From(t)) \in 1 .. n
                                       /\ By(From(t)) < t
  BY <1>1 DEF Structure, Born, TaskBorn, CallBorn, None
<1>3. \A c \in Calls : c \in Nat
  BY CallsTyped DEF Structure
<1>4. \E g : g = [t \in Tasks |-> IF task[t].from = None THEN {}
                                  ELSE {task[t].from} \union g[call[task[t].from].by]]
  <2>1. PICK down : down = [t \in 1 .. n |-> IF From(t) = 0 THEN 0 ELSE By(From(t))]
    OBVIOUS
  <2>2. PICK V : V = SUBSET Nat
    OBVIOUS
  <2>3. PICK step : step = [p \in (1 .. n) \X V |-> IF From(p[1]) = 0 THEN {}
                                                    ELSE {From(p[1])} \union p[2]]
    OBVIOUS
  <2>4. Descends(n, down)
    <3>1. ASSUME NEW t \in 1 .. n PROVE down[t] \in Nat /\ down[t] < t
      BY <1>2, <2>1
    <3> QED
      BY <2>1, <3>1 DEF Descends
  <2>5. PICK base : base = {}
    OBVIOUS
  <2>6. Steps(n, V, base, step)
    <3>1. ASSUME NEW p \in (1 .. n) \X V PROVE step[p] \in V
      <4>1. p[1] \in 1 .. n /\ p[2] \in SUBSET Nat
        BY <2>2
      <4>2. From(p[1]) # 0 => From(p[1]) \in Nat
        BY <1>2, <1>3, <4>1
      <4> QED
        BY <2>2, <2>3, <4>1, <4>2
    <3> QED
      BY <2>2, <2>3, <2>5, <3>1 DEF Steps
  <2>7. PICK g : Recurs(n, V, g, down, base, step)
    BY <2>4, <2>6, Recursion
  <2>8. PICK f : f = [t \in 1 .. n |-> g[t]]
    OBVIOUS
  <2>9. ASSUME NEW t \in 1 .. n
        PROVE  f[t] = IF From(t) = 0 THEN {} ELSE {From(t)} \union f[By(From(t))]
    <3>1. f[t] = g[t] /\ g[t] = step[<<t, g[down[t]]>>]
      BY <2>7, <2>8 DEF Recurs
    <3>2. down[t] \in 0 .. n
      BY <2>4 DEF Descends
    <3>3. g[down[t]] \in V
      BY <2>7, <3>2 DEF Recurs
    <3>4. step[<<t, g[down[t]]>>] = IF From(t) = 0 THEN {} ELSE {From(t)} \union g[down[t]]
      BY <2>3, <3>3
    <3>5. From(t) # 0 => down[t] = By(From(t)) /\ f[By(From(t))] = g[down[t]]
      BY <1>2, <2>1, <2>8
    <3> QED
      BY <3>1, <3>4, <3>5
  <2>10. f = [t \in Tasks |-> IF task[t].from = None THEN {}
                              ELSE {task[t].from} \union f[call[task[t].from].by]]
    <3>1. f = [t \in Tasks |-> f[t]]
      BY <1>1, <2>8
    <3>2. \A t \in Tasks : f[t] = IF task[t].from = None THEN {}
                                  ELSE {task[t].from} \union f[call[task[t].from].by]
      BY <1>1, <2>9 DEF From, By, None
    <3> QED
      BY <3>1, <3>2
  <2> QED
    BY <2>10
<1>5. Above = [t \in Tasks |-> IF task[t].from = None THEN {}
                               ELSE {task[t].from} \union Above[call[task[t].from].by]]
  BY <1>4, Zenon DEF Above
<1> QED
  BY <1>5 DEF AboveDefined, From, By

\* What a task is below, one level at a time.
LEMMA BelowDefined ==
    ASSUME Structure, NEW t \in Tasks, NEW c
    PROVE  Below(t, c) <=> From(t) # None /\ (From(t) = c \/ Below(By(From(t)), c))
<1>1. Above[t] = IF From(t) = None THEN {} ELSE {From(t)} \union Above[By(From(t))]
  BY AboveUnfolds DEF AboveDefined
<1> QED
  BY <1>1 DEF Below

\* Where a task is from: a call that an older task made.
LEMMA FromBelow ==
    ASSUME Structure, NEW t \in Tasks, From(t) # None
    PROVE  /\ From(t) \in Calls /\ By(From(t)) \in Tasks /\ By(From(t)) < t
           /\ List(t) \in Calls /\ By(List(t)) < t
  BY DEF Structure, Born, TaskBorn, CallBorn

LEMMA BelowThrough ==
    ASSUME Structure, NEW d \in Calls, NEW c, Below(By(d), c)
    PROVE  \A t \in Tasks : Below(t, d) => Below(t, c)
<1>1. PICK n \in Nat : n = Len(task) /\ Tasks = 1 .. n
  BY TasksTyped DEF Structure
<1> DEFINE Good(t) == Below(t, d) => Below(t, c)
           Bad == {t \in 1 .. n : ~ Good(t)}
<1>2. ASSUME NEW t \in 1 .. n, \A u \in 1 .. n : u < t => Good(u)
      PROVE  Good(t)
  <2> SUFFICES ASSUME Below(t, d) PROVE Below(t, c)
    OBVIOUS
  <2>1. From(t) # None /\ (From(t) = d \/ Below(By(From(t)), d))
    BY <1>1, BelowDefined
  <2>2. PICK u \in 1 .. n : u = By(From(t)) /\ u < t
    BY <1>1, <2>1, FromBelow
  <2>3. Below(u, c)
    BY <1>2, <2>1, <2>2
  <2> QED
    BY <1>1, <2>1, <2>2, <2>3, BelowDefined
<1> HIDE DEF Good
<1>3. Bad = {}
  <2> SUFFICES ASSUME Bad # {} PROVE FALSE
    OBVIOUS
  <2>1. PICK S \in SUBSET Nat : S = Bad
    <3>1. Bad \in SUBSET Nat
      OBVIOUS
    <3> QED
      BY <3>1
  <2>2. PICK t \in S : \A u \in S : t <= u
    BY <2>1, LeastNumber
  <2>3. \A u \in 1 .. n : u < t => Good(u)
    BY <2>1, <2>2
  <2> QED
    BY <1>2, <2>1, <2>2, <2>3
<1> QED
  BY <1>1, <1>3 DEF Good

\* What a task is below never changes.
BelowSame == \A t \in Tasks : Above'[t] = Above[t]

LEMMA BelowKept == ASSUME Structure, Structure', Kept PROVE BelowSame
<1>1. PICK n \in Nat : n = Len(task) /\ Tasks = 1 .. n
  BY TasksTyped DEF Structure
<1>2. AboveDefined /\ AboveDefined'
  <2>1. Structure' => AboveDefined'
    BY AboveUnfolds, PTL
  <2> QED
    BY <2>1, AboveUnfolds
<1>3. ASSUME NEW t \in 1 .. n
      PROVE  /\ Above'[t] = IF From(t) = None THEN {}
                            ELSE {From(t)} \union Above'[By(From(t))]
             /\ Above[t] = IF From(t) = None THEN {} ELSE {From(t)} \union Above[By(From(t))]
             /\ From(t) # None => By(From(t)) \in 1 .. n /\ By(From(t)) < t
  <2>1. From(t) # None => From(t) \in Calls /\ By(From(t)) \in Tasks /\ By(From(t)) < t
    BY <1>1, FromBelow
  <2>2. From(t)' = From(t) /\ (From(t) # None => By(From(t))' = By(From(t)))
    BY <1>1, <2>1 DEF Kept, SameTask, SameCall, From, By
  <2>3. t \in Tasks'
    BY <1>1 DEF Kept
  <2> QED
    BY <1>1, <1>2, <2>1, <2>2, <2>3 DEF AboveDefined
<1> DEFINE Bad == {t \in 1 .. n : Above'[t] # Above[t]}
<1>4. Bad = {}
  <2> SUFFICES ASSUME Bad # {} PROVE FALSE
    OBVIOUS
  <2>1. PICK S \in SUBSET Nat : S = Bad
    <3>1. Bad \in SUBSET Nat
      OBVIOUS
    <3> QED
      BY <3>1
  <2>2. PICK t \in S : \A u \in S : t <= u
    BY <2>1, LeastNumber
  <2>3. t \in 1 .. n /\ \A u \in 1 .. n : u < t => Above'[u] = Above[u]
    BY <2>1, <2>2
  <2>4. Above'[t] = Above[t]
    BY <1>3, <2>3
  <2> QED
    BY <2>1, <2>4
<1> QED
  BY <1>1, <1>4 DEF BelowSame

-----------------------------------------------------------------------------
(* The steps of a loop                                                      *)

\* Other tasks than that of c are the same in q, but for a CancelledError that
\* one of them, not done, gets.
Mild(c, q) ==
    /\ \A u \in Tasks : q[u].st = task[u].st /\ q[u].res = task[u].res /\ q[u].kept = task[u].kept
    /\ \A u \in Tasks \ {By(c)} : task[u].ask => q[u].ask
    /\ \A u \in Tasks : q[u].ask => task[u].ask \/ task[u].st # "done"

LEMMA MildSame == ASSUME NEW c PROVE Mild(c, task)
  BY DEF Mild

\* How a call ends.
Ending(c, out, q) ==
    /\ Ended(c, out, q) /\ Mild(c, q) /\ out \in Outcomes /\ call[c].pc # "ended"
    /\ out = "value" => /\ call[c].fn = "done" /\ call[c].res = "value" /\ q = task
                        /\ call[c].pc # "task"

LEMMA EndingStructure ==
    ASSUME Structure, NEW c \in Calls, NEW out, NEW q, Ending(c, out, q)
    PROVE  Quiet /\ Structure'
  BY EndedStructure DEF Ending, Mild, Alike

LEMMA ReturnsEnds ==
    ASSUME Structure, NEW c \in Calls, Returns(c)
    PROVE  Ending(c, call[c].res, task)
<1>1. Typed /\ By(c) \in Tasks /\ Awaiting
  BY DEF Structure, Born, CallBorn
<1>2. Ended(c, call[c].res, task) /\ call[c].pc \in {"shield", "exec"} /\ call[c].fut = "done"
  BY <1>1, ReturnsDoes
<1>3. call[c].fn = "done" /\ call[c].res \in Outcomes
  BY <1>1, <1>2, CallsTyped, CallParts DEF Awaiting
<1> QED
  BY <1>2, <1>3, MildSame DEF Ending

LEMMA GiveUpEnds ==
    ASSUME Structure, NEW c \in Calls, GiveUp(c)
    PROVE  Ending(c, "cancelled", task)
<1>1. Typed /\ By(c) \in Tasks
  BY DEF Structure, Born, CallBorn
<1>2. Ended(c, "cancelled", task) /\ call[c].pc = "shield"
  BY <1>1, GiveUpDoes
<1> QED
  BY <1>2, MildSame DEF Ending, Outcomes

LEMMA CancelledAgainEnds ==
    ASSUME Structure, NEW c \in Calls, CancelledAgain(c)
    PROVE  Ending(c, "cancelled", task)
<1>1. Typed /\ By(c) \in Tasks
  BY DEF Structure, Born, CallBorn
<1>2. Ended(c, "cancelled", task) /\ call[c].pc = "exec"
  BY <1>1, CancelledAgainDoes
<1> QED
  BY <1>2, MildSame DEF Ending, Outcomes

\* How a call goes on waiting.
GoingOn(c, f, p) ==
    /\ Waits(c, f, p, call[c].victim, call[c].out) /\ task' = task
    /\ \/ /\ p = call[c].pc /\ f = "done" /\ call[c].fn = "done" /\ call[c].fut = "pending"
       \/ /\ p = "exec" /\ f = call[c].fut /\ f # "done" /\ call[c].pc = "task"
          /\ ~ task[By(c)].ask

LEMMA GoingOnStructure ==
    ASSUME Structure, NEW c \in Calls, NEW f, NEW p, GoingOn(c, f, p)
    PROVE  Quiet /\ Structure'
<1>1. /\ Engaged(c) /\ Awaiting /\ call[c].fut \in {"pending", "done", "cancelled"}
  BY CallsTyped, CallParts DEF Structure, Engages, Futures
<1>2. PICK v : v = call[c].victim
  OBVIOUS
<1>3. /\ f \in {"pending", "done", "cancelled"} /\ Waits(c, f, p, v, call[c].out)
      /\ Alike(task') /\ (p = "ended" <=> call[c].pc = "ended")
      /\ (f = "done" => call[c].fn = "done") /\ (v # None => v \in Tasks /\ List(v) = c)
      /\ (p # "ended" => f # "cancelled") /\ (p \in {"task", "exec"} => v # None)
  BY <1>1, <1>2 DEF GoingOn, Engaged, Alike, Awaiting
<1> QED
  BY <1>3, WaitsStructure

LEMMA FnDoneGoesOn ==
    ASSUME Structure, NEW c \in Calls, FnDone(c)
    PROVE  \E f, p : GoingOn(c, f, p)
<1>1. Typed
  BY DEF Structure
<1>2. PICK f, p : f = "done" /\ p = call[c].pc
  OBVIOUS
<1>3. GoingOn(c, f, p)
  BY <1>1, <1>2, FnDoneDoes DEF GoingOn
<1> QED
  BY <1>3

LEMMA TaskDoneDoesEither ==
    ASSUME Structure, NEW c \in Calls, TaskDone(c)
    PROVE  Ending(c, "cancelled", task) \/ \E f, p : GoingOn(c, f, p)
<1>1. Typed /\ By(c) \in Tasks
  BY DEF Structure, Born, CallBorn
<1>2. call[c].pc = "task"
  BY <1>1, TaskDoneDoes
<1>3. CASE Ended(c, "cancelled", task)
  BY <1>2, <1>3, MildSame DEF Ending, Outcomes
<1>4. CASE /\ Waits(c, call[c].fut, "exec", call[c].victim, call[c].out)
           /\ task' = task /\ call[c].fut # "done" /\ ~ task[By(c)].ask
  <2>1. PICK f, p : f = call[c].fut /\ p = "exec"
    OBVIOUS
  <2>2. GoingOn(c, f, p)
    BY <1>2, <1>4, <2>1 DEF GoingOn
  <2> QED
    BY <2>2
<1> QED
  BY <1>1, <1>3, <1>4, TaskDoneDoes

\* How a cancelled call cancels a task of its list, of the same loop.
Cancelling(c, k) ==
    /\ Waits(c, call[c].fut, "task", k, call[c].out) /\ Mild(c, task')
    /\ call[c].pc = "shield" /\ task[By(c)].ask
    /\ k \in TaskContext(c) /\ task[k].loop = task[By(c)].loop
    /\ task'[Deepest[k]].ask

LEMMA CancelTaskDoesEither ==
    ASSUME Structure, NEW c \in Calls, CancelTask(c)
    PROVE  (\E q : Ending(c, "error", q)) \/ \E k : Cancelling(c, k)
<1>1. Typed /\ By(c) \in Tasks
  BY DEF Structure, Born, CallBorn
<1>2. \A k \in TaskContext(c) : /\ Deepest[k] \in Tasks \ {By(c)} /\ k \in Tasks
                                /\ task[Deepest[k]].st # "done"
  <2> SUFFICES ASSUME NEW k \in TaskContext(c)
               PROVE  /\ Deepest[k] \in Tasks \ {By(c)} /\ k \in Tasks
                      /\ task[Deepest[k]].st # "done"
    OBVIOUS
  <2>1. k \in Tasks /\ List(k) = c /\ task[k].st = "live"
    BY DEF TaskContext, List
  <2>2. By(c) < k
    <3>1. TaskBorn(k) /\ c # None
      BY <2>1, CallsTyped DEF Structure, Born, None
    <3> QED
      BY <2>1, <3>1 DEF TaskBorn
  <2>3. Deepest[k] \in Tasks /\ k <= Deepest[k] /\ task[Deepest[k]].st # "done"
    BY <2>1, DeepestWell
  <2>4. By(c) # Deepest[k]
    BY <1>1, <2>1, <2>2, <2>3, TasksTyped
  <2> QED
    BY <2>1, <2>3, <2>4
<1>3. call[c].pc = "shield" /\ task[By(c)].ask
  BY <1>1, <1>2, CancelTaskDoes
<1>4. PICK k, q : /\ Passes(c, k, q)
                  /\ \/ /\ task[k].loop = task[By(c)].loop
                        /\ Waits(c, call[c].fut, "task", k, call[c].out)
                        /\ \A u \in Tasks : task'[u] = q[u]
                     \/ Ended(c, "error", q)
  BY <1>1, <1>2, CancelTaskDoes
<1>5. Mild(c, q)
  BY <1>1, <1>2, <1>3, <1>4 DEF Passes, Asked, Mild
<1>6. CASE Ended(c, "error", q)
  <2>1. Ending(c, "error", q)
    BY <1>3, <1>5, <1>6 DEF Ending, Outcomes
  <2> QED
    BY <2>1
<1>7. CASE /\ task[k].loop = task[By(c)].loop
           /\ Waits(c, call[c].fut, "task", k, call[c].out)
           /\ \A u \in Tasks : task'[u] = q[u]
  <2>1. Mild(c, task')
    BY <1>1, <1>5, <1>7 DEF Mild
  <2>2. task'[Deepest[k]].ask
    BY <1>2, <1>4, <1>7 DEF Passes, Asked
  <2>3. Cancelling(c, k)
    BY <1>3, <1>4, <1>7, <2>1, <2>2 DEF Cancelling, Passes
  <2> QED
    BY <2>3
<1> QED
  BY <1>4, <1>6, <1>7

LEMMA CancellingStructure ==
    ASSUME Structure, NEW c \in Calls, NEW k, Cancelling(c, k)
    PROVE  Quiet /\ Structure'
<1>1. /\ Engaged(c) /\ Awaiting /\ call[c].fut \in {"pending", "done", "cancelled"}
  BY CallsTyped, CallParts DEF Structure, Engages, Futures
<1>2. k \in Tasks /\ List(k) = c /\ k # None
  BY TasksTyped DEF Cancelling, TaskContext, List, None, Structure
<1>3. PICK f, p : f = call[c].fut /\ p = "task"
  OBVIOUS
<1>4. /\ f \in {"pending", "done", "cancelled"} /\ Waits(c, f, p, k, call[c].out)
      /\ Alike(task') /\ (p = "ended" <=> call[c].pc = "ended")
      /\ (f = "done" => call[c].fn = "done") /\ (p # "ended" => f # "cancelled")
  BY <1>1, <1>3 DEF Cancelling, Alike, Awaiting, Mild
<1> QED
  BY <1>2, <1>3, <1>4, WaitsStructure

-----------------------------------------------------------------------------
(* What becomes of a cancellation                                           *)

Failed(t) == task[t].st = "done" /\ task[t].res # "value"

\* A failure of a task goes up to the function that made it, or was caught.
Failing ==
    \A t \in Tasks : From(t) # None /\ Failed(t) =>
       \/ call[From(t)].on = t \/ call[From(t)].kept
       \/ call[From(t)].fn = "done" /\ call[From(t)].res # "value"

\* A failure of a call goes up to the task that made it, or was caught.
Raising ==
    \A c \in Calls : call[c].pc = "ended" /\ call[c].out # "value" =>
        task[By(c)].kept \/ Failed(By(c))

\* A task that returned a value was not to be cancelled any more.
Settled == \A t \in Tasks : task[t].st = "done" /\ task[t].res = "value" => ~ task[t].ask

\* A task joined the list of a call that it is below, or of one that was pumped
\* and returned; one of the same loop began after that loop knew of the return.
Listed(t) ==
    List(t) # None =>
       \/ Below(t, List(t))
       \/ /\ call[List(t)].exec # None /\ call[List(t)].fn = "done"
          /\ (task[t].st # "scheduled" /\ task[By(List(t))].loop = task[t].loop)
                => call[List(t)].fut # "pending"

AllListed == \A t \in Tasks : Listed(t)

\* A task was hit by a cancellation, and does not return a value as if nothing
\* had been, or it passed it on.
Hit(t) ==
    \/ task[t].ask \/ task[t].kept \/ Failed(t)
    \/ \E d \in Calls : /\ By(d) = t /\ call[d].victim # None
                        /\ call[d].pc # "ended" \/ call[d].out = "value"

\* A call that cancelled a task waits for it though its function has returned,
\* or the task is its own and was hit.
Sent(c) ==
    call[c].victim # None /\ (call[c].pc # "ended" \/ call[c].out = "value") =>
       \/ call[c].pc = "task" /\ call[c].fut = "done"
       \/ Below(call[c].victim, c) /\ Hit(call[c].victim)

AllSent == \A c \in Calls : Sent(c)

Conduct == Failing /\ Raising /\ Settled /\ AllListed /\ AllSent

LEMMA FailingQuiet ==
    ASSUME Structure, Quiet, \A t \in Tasks' \ Tasks : task'[t].from = None, Failing
    PROVE  Failing'
<1> SUFFICES ASSUME NEW t \in Tasks', From(t)' # None, Failed(t)'
             PROVE  \/ call'[From(t)'].on = t \/ call'[From(t)'].kept
                    \/ call'[From(t)'].fn = "done" /\ call'[From(t)'].res # "value"
  BY DEF Failing
<1>1. t \in Tasks /\ From(t)' = From(t) /\ From(t) # None
  BY DEF From, Quiet, Kept, SameTask
<1>2. From(t) \in Calls
  BY <1>1 DEF Structure, Born, TaskBorn
<1>3. SameWork(call'[From(t)], call[From(t)])
  BY <1>2 DEF Quiet
<1>4. CASE task[t].st = "done"
  <2>1. Failed(t)
    BY <1>1, <1>4 DEF Failed, Quiet
  <2> QED
    BY <1>1, <1>3, <2>1 DEF Failing, SameWork
<1>5. CASE task[t].st # "done"
  <2>1. call[From(t)].on = t
    BY <1>1, <1>5 DEF Structure, Blocking, Open
  <2> QED
    BY <1>1, <1>3, <2>1 DEF SameWork
<1> QED
  BY <1>4, <1>5

LEMMA ListedKept ==
    ASSUME Structure, Structure', Kept, AllListed,
           \A c \in Calls : /\ call[c].fn = "done" => call'[c].fn = "done"
                            /\ call[c].fut # "pending" => call'[c].fut # "pending",
           \A t \in Tasks : (task[t].st = "scheduled" /\ task'[t].st # "scheduled" /\ List(t) # None)
              => ((task[By(List(t))].loop = task[t].loop /\ call[List(t)].fn = "done")
                    => call[List(t)].fut # "pending"),
           \A t \in Tasks' \ Tasks : Listed(t)'
    PROVE  AllListed'
<1> SUFFICES ASSUME NEW t \in Tasks PROVE Listed(t)'
  BY DEF AllListed
<1>1. BelowSame /\ SameTask(task', t) /\ Listed(t)
  BY BelowKept DEF Kept, AllListed
<1> SUFFICES ASSUME List(t) # None PROVE Listed(t)'
  BY <1>1 DEF Listed, List, SameTask
<1>2. List(t)' = List(t) /\ List(t) \in Calls /\ (Below(t, List(t))' <=> Below(t, List(t)))
  BY <1>1 DEF Structure, Born, TaskBorn, SameTask, List, Below, BelowSame
<1>3. PICK c \in Calls : c = List(t)
  BY <1>2
<1>4. /\ By(c) \in Tasks /\ By(c)' = By(c) /\ task'[By(c)].loop = task[By(c)].loop
      /\ call'[c].exec = call[c].exec /\ task'[t].loop = task[t].loop
  BY <1>1 DEF Structure, Born, CallBorn, Kept, SameCall, SameTask, By
<1>5. CASE Below(t, c)
  BY <1>2, <1>3, <1>5 DEF Listed
<1>6. CASE ~ Below(t, c)
  <2>1. /\ call[c].exec # None /\ call[c].fn = "done"
        /\ (task[t].st # "scheduled" /\ task[By(c)].loop = task[t].loop) => call[c].fut # "pending"
    BY <1>1, <1>3, <1>6 DEF Listed
  <2>2. call'[c].exec # None /\ call'[c].fn = "done"
    BY <1>4, <2>1
  <2>3. (task'[t].st # "scheduled" /\ task'[By(c)].loop = task'[t].loop) => call'[c].fut # "pending"
    BY <1>3, <1>4, <2>1
  <2> QED
    BY <1>2, <1>3, <1>4, <2>2, <2>3 DEF Listed
<1> QED
  BY <1>5, <1>6

\* What the call sent, it has still sent.
Carried(c) ==
    /\ call'[c].victim = call[c].victim
    /\ call[c].pc # "ended" \/ call[c].out = "value"
    /\ call[c].pc = "task" /\ call[c].fut = "done" => call'[c].pc = "task" /\ call'[c].fut = "done"

LEMMA SentKept ==
    ASSUME Structure, Structure', Kept, AllSent,
           \A t \in Tasks : Hit(t) => Hit(t)',
           \A c \in Calls : (call'[c].victim # None /\ (call'[c].pc # "ended" \/ call'[c].out = "value"))
                               => Carried(c) \/ Sent(c)',
           \A c \in Calls' \ Calls : call'[c].victim = None
    PROVE  AllSent'
<1> SUFFICES ASSUME NEW c \in Calls, call'[c].victim # None,
                    call'[c].pc # "ended" \/ call'[c].out = "value", Carried(c)
             PROVE  Sent(c)'
  BY DEF AllSent, Sent
<1>1. PICK v : v = call[c].victim
  OBVIOUS
<1>2. v # None /\ call'[c].victim = v /\ v \in Tasks
  BY <1>1 DEF Carried, Structure, Engages, Engaged
<1>3. \/ call[c].pc = "task" /\ call[c].fut = "done"
      \/ Below(v, c) /\ Hit(v)
  BY <1>1, <1>2 DEF AllSent, Sent, Carried
<1>4. CASE call[c].pc = "task" /\ call[c].fut = "done"
  BY <1>4 DEF Carried, Sent
<1>5. CASE Below(v, c) /\ Hit(v)
  <2>1. Below(v, c)' /\ Hit(v)'
    BY <1>2, <1>5, BelowKept DEF Below, BelowSame
  <2> QED
    BY <1>2, <2>1 DEF Sent
<1> QED
  BY <1>3, <1>4, <1>5

LEMMA HitSame ==
    ASSUME Structure, Kept, NEW t \in Tasks, Hit(t),
           task[t].ask => task'[t].ask, task[t].kept => task'[t].kept,
           Failed(t) => Failed(t)',
           \A d \in Calls : By(d) = t /\ call[d].victim # None /\ (call[d].pc # "ended" \/ call[d].out = "value")
              => call'[d].victim # None /\ (call'[d].pc # "ended" \/ call'[d].out = "value")
    PROVE  Hit(t)'
<1>1. CASE task[t].ask \/ task[t].kept \/ Failed(t)
  BY <1>1 DEF Hit
<1>2. CASE \E d \in Calls : /\ By(d) = t /\ call[d].victim # None
                            /\ call[d].pc # "ended" \/ call[d].out = "value"
  <2>1. PICK d \in Calls : /\ By(d) = t /\ call[d].victim # None
                           /\ call[d].pc # "ended" \/ call[d].out = "value"
    BY <1>2
  <2>2. /\ d \in Calls' /\ By(d)' = t /\ call'[d].victim # None
        /\ call'[d].pc # "ended" \/ call'[d].out = "value"
    BY <2>1 DEF Kept, SameCall, By
  <2> QED
    BY <2>2 DEF Hit
<1> QED
  BY <1>1, <1>2 DEF Hit

\* The tasks turn, the calls stay as they are.
LEMMA ConductTasks ==
    ASSUME Structure, Structure', Quiet, Conduct, call' = call,
           \A t \in Tasks' \ Tasks :
              task'[t].from = None /\ task'[t].list = None /\ task'[t].st = "scheduled",
           \A t \in Tasks : /\ task[t].kept => task'[t].kept
                            /\ task[t].ask => task'[t].ask \/ task'[t].kept \/ Failed(t)'
                            /\ (task'[t].st = "done" /\ task'[t].res = "value") => ~ task'[t].ask,
           \A t \in Tasks : (task[t].st = "scheduled" /\ task'[t].st # "scheduled" /\ List(t) # None)
              => ((task[By(List(t))].loop = task[t].loop /\ call[List(t)].fn = "done")
                    => call[List(t)].fut # "pending")
    PROVE  Conduct'
<1>1. Kept /\ Calls' = Calls /\ Failing /\ Raising /\ Settled /\ AllListed /\ AllSent
  BY DEF Quiet, Conduct
<1>2. \A t \in Tasks : Failed(t) => Failed(t)'
  BY DEF Quiet, Failed
<1>3. Failing'
  BY <1>1, FailingQuiet
<1>4. Raising'
  <2>1. \A c \in Calls : By(c) \in Tasks /\ By(c)' = By(c)
    BY DEF Structure, Born, CallBorn, By
  <2>2. ASSUME NEW c \in Calls, NEW t, t = By(c), call[c].pc = "ended", call[c].out # "value"
        PROVE  task'[t].kept \/ Failed(t)'
    BY <1>1, <1>2, <2>1, <2>2 DEF Raising
  <2> QED
    BY <1>1, <2>1, <2>2 DEF Raising, Failed
<1>5. Settled'
  <2>1. \A t \in Tasks' : t \in Tasks \/ task'[t].st # "done"
    OBVIOUS
  <2> QED
    BY <2>1 DEF Settled
<1>6. AllListed'
  <2>1. \A t \in Tasks' \ Tasks : Listed(t)'
    BY DEF Listed, List
  <2> QED
    BY <1>1, <2>1, ListedKept
<1>7. \A t \in Tasks : Hit(t) => Hit(t)'
  <2> SUFFICES ASSUME NEW t \in Tasks, Hit(t) PROVE Hit(t)'
    OBVIOUS
  <2>1. CASE task[t].ask /\ ~ task'[t].ask
    BY <2>1 DEF Hit
  <2>2. CASE task[t].ask => task'[t].ask
    BY <1>1, <1>2, <2>2, HitSame
  <2> QED
    BY <2>1, <2>2
<1>8. AllSent'
  <2>1. \A c \in Calls : (call'[c].victim # None /\ (call'[c].pc # "ended" \/ call'[c].out = "value"))
                               => Carried(c)
    BY DEF Carried
  <2> QED
    BY <1>1, <1>7, <2>1, SentKept
<1> QED
  BY <1>3, <1>4, <1>5, <1>6, <1>8 DEF Conduct

LEMMA ConductBegin ==
    ASSUME Structure, Conduct, NEW t \in Tasks, Begin(t)
    PROVE  Structure' /\ Conduct'
<1>1. Typed /\ Settled
  BY DEF Structure, Conduct
<1>2. /\ Stays /\ Typed' /\ call' = call /\ tls' = tls /\ OtherTasks({t})
      /\ task[t].st = "scheduled"
      /\ task'[t].ask = task[t].ask /\ task'[t].kept = task[t].kept
      /\ IF task[t].ask THEN task'[t].st = "done" /\ task'[t].res = "cancelled"
                        ELSE task'[t].st = "live" /\ task'[t].res = task[t].res
  BY <1>1, BeginDoes
<1>3. Kept /\ Tasks' = Tasks
  BY <1>1, <1>2, StaysKept DEF Typed
<1>4. Quiet /\ Structure'
  BY StructureBegin
<1>5. \A u \in Tasks : /\ task[u].kept => task'[u].kept
                       /\ task[u].ask => task'[u].ask \/ task'[u].kept \/ Failed(u)'
                       /\ (task'[u].st = "done" /\ task'[u].res = "value") => ~ task'[u].ask
  BY <1>1, <1>2 DEF OtherTasks, Settled
<1>6. \A u \in Tasks : (task[u].st = "scheduled" /\ task'[u].st # "scheduled" /\ List(u) # None)
              => ((task[By(List(u))].loop = task[u].loop /\ call[List(u)].fn = "done")
                    => call[List(u)].fut # "pending")
  <2>1. List(t) # None =>
           ((task[By(List(t))].loop = task[t].loop /\ call[List(t)].fn = "done")
              => call[List(t)].fut # "pending")
    BY DEF Begin, List, By
  <2>2. \A u \in Tasks \ {t} : task'[u] = task[u]
    BY <1>2 DEF OtherTasks
  <2> QED
    BY <2>1, <2>2
<1>7. \A u \in Tasks' \ Tasks :
         task'[u].from = None /\ task'[u].list = None /\ task'[u].st = "scheduled"
  BY <1>3
<1> QED
  BY <1>2, <1>4, <1>5, <1>6, <1>7, ConductTasks

LEMMA ConductEndTask ==
    ASSUME Structure, Conduct, NEW t \in Tasks, EndTask(t)
    PROVE  Structure' /\ Conduct'
<1>1. Typed /\ Settled
  BY DEF Structure, Conduct
<1>2. /\ Stays /\ Typed' /\ call' = call /\ tls' = tls /\ OtherTasks({t})
      /\ task[t].st = "live"
      /\ IF task[t].ask THEN Hurt(task'[t], task[t], "cancelled")
                        ELSE /\ task'[t].st = "done" /\ task'[t].res = "value"
                             /\ ~ task'[t].ask /\ task'[t].kept = task[t].kept
  BY <1>1, EndTaskDoes
<1>3. Kept /\ Tasks' = Tasks
  BY <1>1, <1>2, StaysKept DEF Typed
<1>4. Quiet /\ Structure'
  BY StructureEndTask
<1>5. \A u \in Tasks : /\ task[u].kept => task'[u].kept
                       /\ task[u].ask => task'[u].ask \/ task'[u].kept \/ Failed(u)'
                       /\ (task'[u].st = "done" /\ task'[u].res = "value") => ~ task'[u].ask
  BY <1>1, <1>2 DEF OtherTasks, Settled, Hurt, Failed
<1>6. \A u \in Tasks : task[u].st = "scheduled" => task'[u] = task[u]
  BY <1>2 DEF OtherTasks
<1>7. \A u \in Tasks' \ Tasks :
         task'[u].from = None /\ task'[u].list = None /\ task'[u].st = "scheduled"
  BY <1>3
<1> QED
  BY <1>2, <1>4, <1>5, <1>6, <1>7, ConductTasks

LEMMA ConductCancelFromOutside ==
    ASSUME Structure, Conduct, NEW t \in Tasks, CancelFromOutside(t)
    PROVE  Structure' /\ Conduct'
<1>1. Typed /\ Settled
  BY DEF Structure, Conduct
<1>2. task[t].st # "done" /\ Deepest[t] \in Tasks
  BY DeepestWell DEF CancelFromOutside
<1>3. PICK x \in Tasks : x = Deepest[t] /\ task[x].st # "done"
  BY <1>2, DeepestWell
<1>4. /\ Stays /\ Typed' /\ call' = call /\ tls' = tls /\ OtherTasks({x})
      /\ Asked(task'[x], task[x], TRUE)
  BY <1>1, <1>2, <1>3, CancelFromOutsideDoes
<1>5. Kept /\ Tasks' = Tasks
  BY <1>1, <1>4, StaysKept DEF Typed
<1>6. Quiet /\ Structure'
  BY <1>2, StructureCancelFromOutside
<1>7. \A u \in Tasks : /\ task[u].kept => task'[u].kept
                       /\ task[u].ask => task'[u].ask \/ task'[u].kept \/ Failed(u)'
                       /\ (task'[u].st = "done" /\ task'[u].res = "value") => ~ task'[u].ask
  BY <1>1, <1>3, <1>4 DEF OtherTasks, Settled, Asked
<1>8. \A u \in Tasks : task'[u].st = task[u].st
  BY <1>4 DEF OtherTasks, Asked
<1>9. \A u \in Tasks' \ Tasks :
         task'[u].from = None /\ task'[u].list = None /\ task'[u].st = "scheduled"
  BY <1>5
<1> QED
  BY <1>4, <1>6, <1>7, <1>8, <1>9, ConductTasks

LEMMA ConductSpawn ==
    ASSUME Structure, Conduct, NEW t \in Tasks, Spawn(t)
    PROVE  Structure' /\ Conduct'
<1>1. Typed /\ Settled
  BY DEF Structure, Conduct
<1>2. PICK r, n : r = NewTaskOf(None, task[t].exec, 1, None) /\ n = NewTask
  OBVIOUS
<1>3. /\ TaskAdded(r) /\ call' = call /\ r.from = None /\ r.list = None /\ r.st = "scheduled"
  BY <1>1, <1>2, SpawnDoes
<1>4. /\ Tasks' = Tasks \union {n} /\ task'[n] = r /\ \A u \in Tasks : task'[u] = task[u]
  BY <1>2, <1>3 DEF TaskAdded, OtherTasks
<1>5. Quiet /\ Structure'
  BY StructureSpawn
<1>6. \A u \in Tasks' \ Tasks :
         task'[u].from = None /\ task'[u].list = None /\ task'[u].st = "scheduled"
  BY <1>3, <1>4
<1>7. \A u \in Tasks : /\ task[u].kept => task'[u].kept
                       /\ task[u].ask => task'[u].ask \/ task'[u].kept \/ Failed(u)'
                       /\ (task'[u].st = "done" /\ task'[u].res = "value") => ~ task'[u].ask
  BY <1>1, <1>4 DEF Settled
<1> QED
  BY <1>3, <1>4, <1>5, <1>6, <1>7, ConductTasks

\* A step of a loop, in which call c moves on.
LEMMA ConductLoop ==
    ASSUME Structure, Structure', Quiet, Conduct, NEW c \in Calls, OtherCalls({c}), Tasks' = Tasks,
           NEW b \in Tasks, b = By(c),
           \A t \in Tasks : /\ task[t].kept => task'[t].kept
                            /\ (task'[t].st = "done" /\ task'[t].res = "value") => ~ task'[t].ask
                            /\ task[t].st = "scheduled" => task'[t].st = "scheduled"
                            /\ t # b /\ task[t].ask => task'[t].ask,
           Hit(b) => Hit(b)',
           call'[c].fut = "pending" => call[c].fut = "pending",
           call'[c].pc = "ended" /\ call'[c].out # "value" => task'[b].kept \/ Failed(b)',
           call'[c].victim # None /\ (call'[c].pc # "ended" \/ call'[c].out = "value")
              => Carried(c) \/ Sent(c)'
    PROVE  Conduct'
<1>1. Kept /\ Calls' = Calls /\ Failing /\ Raising /\ AllListed /\ AllSent
  BY DEF Quiet, Conduct
<1>2. \A t \in Tasks : Failed(t) => Failed(t)'
  BY DEF Quiet, Failed
<1>3. \A d \in Calls : /\ By(d) \in Tasks /\ By(d)' = By(d)
                       /\ d # c => call'[d] = call[d]
                       /\ call[d].fn = "done" => call'[d].fn = "done"
  BY <1>1 DEF Structure, Born, CallBorn, Kept, SameCall, By, OtherCalls, Quiet, SameWork
<1>4. Failing'
  BY <1>1, FailingQuiet
<1>5. Raising'
  <2>1. ASSUME NEW d \in Calls, NEW t, t = By(d), call'[d].pc = "ended", call'[d].out # "value"
        PROVE  task'[t].kept \/ Failed(t)'
    <3>1. CASE d = c
      <4>1. t = b
        BY <2>1, <3>1
      <4> QED
        BY <2>1, <3>1, <4>1
    <3>2. CASE d # c
      BY <1>1, <1>2, <1>3, <2>1, <3>2 DEF Raising
    <3> QED
      BY <3>1, <3>2
  <2>2. ASSUME NEW d \in Calls, call'[d].pc = "ended", call'[d].out # "value"
        PROVE  task'[By(d)'].kept \/ Failed(By(d))'
    <3>1. PICK t : t = By(d)
      OBVIOUS
    <3>2. By(d)' = t /\ (task'[t].kept \/ Failed(t)')
      BY <1>3, <2>1, <2>2, <3>1
    <3> QED
      BY <3>2 DEF Failed
  <2> QED
    BY <1>1, <2>2 DEF Raising
<1>6. Settled'
  BY DEF Settled
<1>7. AllListed'
  <2>1. \A d \in Calls : call[d].fut # "pending" => call'[d].fut # "pending"
    BY <1>3
  <2> QED
    BY <1>1, <1>3, <2>1, ListedKept
<1>8. \A t \in Tasks : Hit(t) => Hit(t)'
  <2> SUFFICES ASSUME NEW t \in Tasks, Hit(t), t # b PROVE Hit(t)'
    OBVIOUS
  <2>1. \A d \in Calls : By(d) = t => call'[d] = call[d]
    BY <1>3
  <2> QED
    BY <1>1, <1>2, <2>1, HitSame
<1>9. AllSent'
  <2>1. \A d \in Calls : (call'[d].victim # None /\ (call'[d].pc # "ended" \/ call'[d].out = "value"))
                               => Carried(d) \/ Sent(d)'
    BY <1>3 DEF Carried
  <2> QED
    BY <1>1, <1>8, <2>1, SentKept
<1> QED
  BY <1>4, <1>5, <1>6, <1>7, <1>9 DEF Conduct

LEMMA ConductEnding ==
    ASSUME Structure, Conduct, NEW c \in Calls, NEW out, NEW q, Ending(c, out, q)
    PROVE  Structure' /\ Conduct'
<1>1. Quiet /\ Structure'
  BY EndingStructure
<1>2. /\ Typed /\ Awaiting /\ Settled /\ By(c) \in Tasks /\ Mild(c, q) /\ call[c].pc # "ended"
      /\ Stays /\ Typed' /\ tls' = tls /\ OtherCalls({c})
      /\ call'[c].pc = "ended" /\ call'[c].victim = call[c].victim /\ call'[c].out = out
      /\ call'[c].fut = "pending" => call[c].fut = "pending"
      /\ out = "value" => q = task /\ call[c].pc # "task"
  BY DEF Ending, Ended, Structure, Born, CallBorn, Conduct
<1>3. Tasks' = Tasks /\ Kept
  BY <1>1, <1>2, StaysKept DEF Quiet, Typed
<1>4. /\ \A u \in Tasks \ {By(c)} : task'[u] = q[u]
      /\ out = "value" => \A u \in Tasks : task'[u] = q[u]
      /\ out # "value" => Hurt(task'[By(c)], q[By(c)], out)
  BY <1>2 DEF Ending, Ended
<1>5. \A u \in Tasks : /\ task[u].kept => task'[u].kept
                       /\ (task'[u].st = "done" /\ task'[u].res = "value") => ~ task'[u].ask
                       /\ task[u].st = "scheduled" => task'[u].st = "scheduled"
                       /\ u # By(c) /\ task[u].ask => task'[u].ask
  <2> SUFFICES ASSUME NEW u \in Tasks
               PROVE  /\ task[u].kept => task'[u].kept
                      /\ (task'[u].st = "done" /\ task'[u].res = "value") => ~ task'[u].ask
                      /\ task[u].st = "scheduled" => task'[u].st = "scheduled"
                      /\ u # By(c) /\ task[u].ask => task'[u].ask
    OBVIOUS
  <2>1. CASE task'[u] = q[u]
    BY <1>2, <2>1 DEF Mild, Settled
  <2>2. CASE task'[u] # q[u]
    <3>1. u = By(c) /\ Hurt(task'[u], q[u], out)
      BY <1>4, <2>2
    <3>2. task[u].st = "live"
      BY <1>2, <3>1 DEF Awaiting
    <3> QED
      BY <1>2, <3>1, <3>2 DEF Hurt, Mild
  <2> QED
    BY <2>1, <2>2
<1>b. PICK b \in Tasks : b = By(c)
  BY <1>2
<1>6. out # "value" => task'[b].kept \/ Failed(b)'
  <2>1. task[b].st = "live"
    BY <1>2, <1>b DEF Awaiting
  <2> QED
    BY <1>2, <1>4, <1>b, <2>1 DEF Hurt, Failed, Mild
<1>7. Hit(b) => Hit(b)'
  <2> SUFFICES ASSUME Hit(b) PROVE Hit(b)'
    OBVIOUS
  <2>1. CASE out # "value"
    BY <1>6, <2>1 DEF Hit
  <2>2. CASE out = "value"
    <3>1. task'[b] = task[b]
      BY <1>2, <1>4, <2>2
    <3>2. \A d \in Calls : By(d) = b /\ call[d].victim # None /\ (call[d].pc # "ended" \/ call[d].out = "value")
             => call'[d].victim # None /\ (call'[d].pc # "ended" \/ call'[d].out = "value")
      BY <1>2, <2>2 DEF OtherCalls
    <3> QED
      BY <1>3, <3>1, <3>2, HitSame DEF Failed
  <2> QED
    BY <2>1, <2>2
<1>8. call'[c].victim # None /\ (call'[c].pc # "ended" \/ call'[c].out = "value") => Carried(c)
  BY <1>2 DEF Carried
<1> QED
  BY <1>1, <1>2, <1>3, <1>b, <1>5, <1>6, <1>7, <1>8, ConductLoop

LEMMA ConductGoingOn ==
    ASSUME Structure, Conduct, NEW c \in Calls, NEW f, NEW p, GoingOn(c, f, p)
    PROVE  Structure' /\ Conduct'
<1>1. Quiet /\ Structure'
  BY GoingOnStructure
<1>2. /\ Typed /\ Settled /\ Raising /\ By(c) \in Tasks /\ task' = task /\ OtherCalls({c})
      /\ call'[c].pc = p /\ call'[c].victim = call[c].victim /\ call'[c].out = call[c].out
      /\ call'[c].fut = "pending" => call[c].fut = "pending"
      /\ p = "ended" <=> call[c].pc = "ended"
      /\ ~ (call[c].pc = "task" /\ call[c].fut = "done")
  BY DEF GoingOn, Waits, IsWaited, Structure, Born, CallBorn, Conduct
<1>3. Tasks' = Tasks /\ Kept
  BY <1>1, <1>2 DEF Quiet, Tasks
<1>4. PICK b \in Tasks : b = By(c)
  BY <1>2
<1>5. \A t \in Tasks : Hit(t) => Hit(t)'
  <2>1. \A d \in Calls : call[d].victim # None /\ (call[d].pc # "ended" \/ call[d].out = "value")
               => call'[d].victim # None /\ (call'[d].pc # "ended" \/ call'[d].out = "value")
    BY <1>2 DEF OtherCalls
  <2> QED
    BY <1>2, <1>3, <2>1, HitSame DEF Failed
<1>6. call'[c].pc = "ended" /\ call'[c].out # "value" => task'[b].kept \/ Failed(b)'
  BY <1>2, <1>4 DEF Raising, Failed
<1>7. call'[c].victim # None /\ (call'[c].pc # "ended" \/ call'[c].out = "value") => Carried(c)
  BY <1>2 DEF Carried
<1> QED
  BY <1>1, <1>2, <1>3, <1>4, <1>5, <1>6, <1>7, ConductLoop DEF Settled

LEMMA ConductCancelling ==
    ASSUME Structure, Conduct, NEW c \in Calls, NEW k, Cancelling(c, k)
    PROVE  Structure' /\ Conduct'
<1>1. Quiet /\ Structure'
  BY CancellingStructure
<1>2. /\ Typed /\ Awaiting /\ Settled /\ By(c) \in Tasks /\ Mild(c, task') /\ Stays /\ Typed'
      /\ tls' = tls /\ OtherCalls({c}) /\ call[c].pc = "shield" /\ task'[Deepest[k]].ask
      /\ call'[c].pc = "task" /\ call'[c].victim = k /\ call'[c].fut = call[c].fut
      /\ k \in Tasks /\ List(k) = c /\ task[k].st = "live" /\ task[k].loop = task[By(c)].loop
      /\ Listed(k)
  BY DEF Cancelling, Waits, IsWaited, Structure, Born, CallBorn, Conduct, TaskContext, List, AllListed
<1>3. Tasks' = Tasks /\ Kept /\ Calls' = Calls
  BY <1>1, <1>2, StaysKept DEF Quiet, Typed
<1>4. By(c) < k /\ k # None /\ c # None
  <2>1. c # None /\ k # None
    BY <1>2, TasksTyped, CallsTyped DEF None
  <2> QED
    BY <1>2, <2>1 DEF Structure, Born, TaskBorn
<1>5. By(c) # k
  BY <1>2, <1>4, TasksTyped
<1>b. PICK b \in Tasks : b = By(c)
  BY <1>2
<1>6. Hit(b)'
  <2>1. c \in Calls' /\ call'[c].victim # None /\ call'[c].pc # "ended" /\ By(c)' = b
    BY <1>2, <1>3, <1>4, <1>b DEF Kept, SameCall, By
  <2> QED
    BY <2>1 DEF Hit
<1>7. Sent(c)'
  <2>1. CASE Below(k, c)
    <3>1. Below(k, c)'
      BY <1>1, <1>2, <1>3, <2>1, BelowKept DEF Below, BelowSame
    <3>2. Hit(k)'
      <4>1. CASE Deepest[k] = k
        BY <1>2, <4>1 DEF Hit
      <4>2. CASE Deepest[k] # k
        <5>1. PICK d \in Calls : By(d) = k /\ call[d].pc = "task" /\ call[d].victim # None
          BY <1>2, <4>2, DeepestWell
        <5>2. d \in Calls' /\ call'[d] = call[d] /\ By(d)' = k
          BY <1>2, <1>3, <1>5, <5>1 DEF OtherCalls, By
        <5> QED
          BY <5>1, <5>2 DEF Hit
      <4> QED
        BY <4>1, <4>2
    <3> QED
      BY <1>2, <3>1, <3>2 DEF Sent
  <2>2. CASE ~ Below(k, c)
    <3>1. call[c].fut # "pending"
      BY <1>2, <1>4, <2>2 DEF Listed
    <3>2. call[c].fut = "done"
      BY <1>2, <3>1 DEF Awaiting
    <3> QED
      BY <1>2, <3>2 DEF Sent
  <2> QED
    BY <2>1, <2>2
<1>8. \A u \in Tasks : /\ task[u].kept => task'[u].kept
                       /\ (task'[u].st = "done" /\ task'[u].res = "value") => ~ task'[u].ask
                       /\ task[u].st = "scheduled" => task'[u].st = "scheduled"
                       /\ u # By(c) /\ task[u].ask => task'[u].ask
  BY <1>2 DEF Mild, Settled
<1> QED
  BY <1>1, <1>2, <1>3, <1>b, <1>6, <1>7, <1>8, ConductLoop

\* A step of a thread: a failure that the function was told of is not lost.
LEMMA ConductWorks ==
    ASSUME Structure, Structure', Conduct,
           NEW c \in Calls, NEW f, NEW o, NEW k, NEW s, Works(c, f, o, k, s), call[c].fn # "done",
           call[c].kept => k,
           \A t \in Tasks : call[c].on = t /\ Failed(t) => k \/ (f = "done" /\ s # "value")
    PROVE  Conduct'
<1>1. /\ Failing /\ Raising /\ Settled /\ AllListed /\ AllSent
      /\ Stays /\ Typed /\ Typed' /\ task' = task /\ OtherCalls({c})
      /\ call'[c].fn = f /\ call'[c].kept = k /\ call'[c].res = s /\ SameWait(call'[c], call[c])
  BY DEF Conduct, Works, IsWorked, Structure
<1>2. Kept /\ Tasks' = Tasks /\ Calls' = Calls
  BY <1>1, StaysKept DEF Typed, Works
<1>3. \A d \in Calls : /\ SameWait(call'[d], call[d]) /\ By(d)' = By(d)
                       /\ d # c => call'[d] = call[d]
                       /\ call[d].fn = "done" => call'[d].fn = "done"
  BY <1>1, <1>2 DEF OtherCalls, SameWait, Kept, SameCall, By
<1>4. \A t \in Tasks : (Failed(t)' <=> Failed(t)) /\ From(t)' = From(t)
  BY <1>1 DEF Failed, From
<1>5. Failing'
  <2> SUFFICES ASSUME NEW t \in Tasks, NEW d, d = From(t), d # None, Failed(t)
               PROVE  \/ call'[d].on = t \/ call'[d].kept
                      \/ call'[d].fn = "done" /\ call'[d].res # "value"
    BY <1>2, <1>4 DEF Failing
  <2>1. \/ call[d].on = t \/ call[d].kept
        \/ call[d].fn = "done" /\ call[d].res # "value"
    BY <1>1 DEF Failing
  <2>2. d \in Calls
    BY DEF Structure, Born, TaskBorn
  <2>3. CASE d = c
    BY <1>1, <2>1, <2>3
  <2>4. CASE d # c
    BY <1>3, <2>1, <2>2, <2>4
  <2> QED
    BY <2>3, <2>4
<1>6. Raising'
  <2>1. ASSUME NEW d \in Calls, NEW t, t = By(d), call'[d].pc = "ended", call'[d].out # "value"
        PROVE  task'[t].kept \/ Failed(t)'
    BY <1>1, <1>3, <2>1 DEF Raising, SameWait, Failed
  <2> QED
    BY <1>2, <1>3, <2>1 DEF Raising, Failed
<1>7. Settled'
  BY <1>1, <1>2 DEF Settled
<1>8. AllListed'
  <2>1. \A d \in Calls : call[d].fut # "pending" => call'[d].fut # "pending"
    BY <1>3 DEF SameWait
  <2> QED
    BY <1>1, <1>2, <1>3, <2>1, ListedKept
<1>9. \A t \in Tasks : Hit(t) => Hit(t)'
  <2>1. \A d \in Calls : call[d].victim # None /\ (call[d].pc # "ended" \/ call[d].out = "value")
               => call'[d].victim # None /\ (call'[d].pc # "ended" \/ call'[d].out = "value")
    BY <1>3 DEF SameWait
  <2> QED
    BY <1>1, <1>2, <1>4, <2>1, HitSame
<1>10. AllSent'
  <2>1. \A d \in Calls : (call'[d].victim # None /\ (call'[d].pc # "ended" \/ call'[d].out = "value"))
                               => Carried(d)
    BY <1>3 DEF Carried, SameWait
  <2> QED
    BY <1>1, <1>2, <1>9, <2>1, SentKept
<1> QED
  BY <1>5, <1>6, <1>7, <1>8, <1>10 DEF Conduct

\* A function that is not blocked waits for nothing.
LEMMA OnNothing ==
    ASSUME Structure, NEW c \in Calls, call[c].fn # "blocked"
    PROVE  call[c].on = None /\ \A t \in Tasks : call[c].on # t
<1>1. call[c].on = None
  BY DEF Structure, Engages, Engaged
<1>2. None \notin Tasks
  BY TasksTyped DEF Structure, None
<1> QED
  BY <1>1, <1>2

LEMMA ConductStartFn ==
    ASSUME Structure, Conduct, NEW c \in Calls, StartFn(c)
    PROVE  Structure' /\ Conduct'
<1>1. Typed
  BY DEF Structure
<1>2. PICK f, o, k, s : /\ f = "running" /\ o = call[c].on /\ k = call[c].kept
                        /\ s = call[c].res /\ Works(c, f, o, k, s) /\ call[c].fn = "queued"
  BY <1>1, StartFnDoes
<1> QED
  BY <1>2, StructureStartFn, OnNothing, ConductWorks

LEMMA ConductDropFn ==
    ASSUME Structure, Conduct, NEW c \in Calls, DropFn(c)
    PROVE  Structure' /\ Conduct'
<1>1. Typed
  BY DEF Structure
<1>2. PICK f, o, k, s : /\ f = "dropped" /\ o = call[c].on /\ k = call[c].kept
                        /\ s = call[c].res /\ Works(c, f, o, k, s) /\ call[c].fn = "queued"
  BY <1>1, DropFnDoes
<1> QED
  BY <1>2, StructureDropFn, OnNothing, ConductWorks

LEMMA ConductReturnFn ==
    ASSUME Structure, Conduct, NEW c \in Calls, ReturnFn(c)
    PROVE  Structure' /\ Conduct'
<1>1. Typed
  BY DEF Structure
<1>2. PICK f, o, k, s : /\ f = "done" /\ o = call[c].on /\ k = call[c].kept
                        /\ s = "value" /\ Works(c, f, o, k, s) /\ call[c].fn = "running"
  BY <1>1, ReturnFnDoes
<1> QED
  BY <1>2, StructureReturnFn, OnNothing, ConductWorks

LEMMA ConductReturnAsync ==
    ASSUME Structure, Conduct, NEW c \in Calls, ReturnAsync(c)
    PROVE  Structure' /\ Conduct'
<1>1. Typed /\ Engaged(c)
  BY DEF Structure, Engages
<1>2. call[c].fn = "blocked" /\ call[c].on \in Tasks
  BY <1>1 DEF ReturnAsync, Engaged
<1>3. PICK f, o, k, s : Works(c, f, o, k, s) /\ Back(c, f, k, s) /\ o = None
  BY <1>1, <1>2, ReturnAsyncDoes
<1>4. call[c].kept => k
  BY <1>3 DEF Back
<1>5. \A t \in Tasks : call[c].on = t /\ Failed(t) => k \/ (f = "done" /\ s # "value")
  BY <1>3 DEF Back, Failed
<1> QED
  BY <1>2, <1>3, <1>4, <1>5, StructureReturnAsync, ConductWorks

LEMMA ConductCallSync ==
    ASSUME Structure, Conduct, NEW t \in Tasks, NEW sensitive \in BOOLEAN, CallSync(t, sensitive)
    PROVE  Structure' /\ Conduct'
<1>1. /\ Structure' /\ Kept /\ Typed /\ Born /\ TaskBorn(t)
      /\ Failing /\ Raising /\ Settled /\ AllListed /\ AllSent
  BY StructureCallSync DEF Structure, Conduct, Born
<1>2. task[t].exec # None => From(task[t].exec) \in Calls
  BY <1>1 DEF Born, TaskBorn
<1>3. PICK r, e, n : CallAdded(r) /\ CallMade(r, t, e) /\ n = NewCall /\ task' = task
  BY <1>1, <1>2, CallSyncDoes
<1>4. /\ Calls' = Calls \union {n} /\ n \notin Calls /\ call'[n] = r
      /\ Tasks' = Tasks /\ \A d \in Calls : call'[d] = call[d] /\ By(d)' = By(d)
      /\ r.pc = "shield" /\ r.victim = None
  BY <1>3 DEF CallAdded, OtherCalls, Tasks, CallMade, IsWaited, By
<1>5. \A u \in Tasks : (Failed(u)' <=> Failed(u)) /\ From(u)' = From(u)
  BY <1>3 DEF Failed, From
<1>6. Failing'
  <2> SUFFICES ASSUME NEW u \in Tasks, NEW d, d = From(u), d # None, Failed(u)
               PROVE  \/ call'[d].on = u \/ call'[d].kept
                      \/ call'[d].fn = "done" /\ call'[d].res # "value"
    BY <1>4, <1>5 DEF Failing
  <2>1. d \in Calls
    BY <1>1 DEF Born, TaskBorn
  <2> QED
    BY <1>1, <1>4, <2>1 DEF Failing
<1>7. Raising'
  <2>1. ASSUME NEW d \in Calls', NEW u, u = By(d), call'[d].pc = "ended", call'[d].out # "value"
        PROVE  d \in Calls /\ (task'[u].kept \/ Failed(u)')
    BY <1>1, <1>3, <1>4, <2>1 DEF Raising, Failed
  <2> QED
    BY <1>4, <2>1 DEF Raising, Failed
<1>8. Settled'
  BY <1>1, <1>3, <1>4 DEF Settled
<1>9. AllListed'
  BY <1>1, <1>3, <1>4, ListedKept
<1>10. \A u \in Tasks : Hit(u) => Hit(u)'
  BY <1>1, <1>3, <1>4, <1>5, HitSame
<1>11. AllSent'
  <2>1. \A d \in Calls : (call'[d].victim # None /\ (call'[d].pc # "ended" \/ call'[d].out = "value"))
                               => Carried(d)
    BY <1>4 DEF Carried
  <2>2. \A d \in Calls' \ Calls : call'[d].victim = None
    BY <1>4
  <2> QED
    BY <1>1, <1>10, <2>1, <2>2, SentKept
<1> QED
  BY <1>1, <1>6, <1>7, <1>8, <1>9, <1>11 DEF Conduct

LEMMA ConductCallAsync ==
    ASSUME Structure, Conduct, NEW c \in Calls, NEW force \in BOOLEAN, CallAsync(c, force)
    PROVE  Structure' /\ Conduct'
<1>1. /\ Typed /\ Born /\ Stacked /\ Failing /\ Raising /\ Settled /\ AllListed /\ AllSent
      /\ \A d \in Calls : d # None
  BY CallsTyped DEF Structure, Conduct, None
<1>2. PICK i, n : Branches(c, i, n) /\ Typed' /\ \A u \in Tasks : u < n
  BY CallAsyncBranches
<1>3. Structure' /\ Kept
  BY <1>2, StructureCallAsync DEF Branches
<1>4. /\ Tasks' = Tasks \union {n} /\ n \notin Tasks /\ Calls' = Calls
      /\ \A u \in Tasks : task'[u] = task[u]
      /\ \A d \in Calls : /\ d # c => call'[d] = call[d]
                          /\ call'[d].kept = call[d].kept /\ call'[d].res = call[d].res
                          /\ SameWait(call'[d], call[d])
      /\ call[c].fn = "running" /\ i \in Calls /\ i = ListFor(c)
      /\ From(n)' = c /\ List(n)' = i /\ task'[n].st = "scheduled"
  BY <1>2 DEF Branches, From, List
<1>5. \A d \in Calls : /\ By(d) \in Tasks /\ By(d)' = By(d)
                       /\ call[d].fn = "done" => call'[d].fn = "done"
  BY <1>1, <1>3, <1>4 DEF Born, CallBorn, Kept, SameCall, By
<1>6. \A u \in Tasks : (Failed(u)' <=> Failed(u)) /\ From(u)' = From(u)
  BY <1>4 DEF Failed, From
<1>7. Failing'
  <2> SUFFICES ASSUME NEW u \in Tasks, NEW d, d = From(u), d # None, Failed(u)
               PROVE  \/ call'[d].on = u \/ call'[d].kept
                      \/ call'[d].fn = "done" /\ call'[d].res # "value"
    <3>1. \A u \in Tasks' : Failed(u)' => u \in Tasks
      BY <1>4 DEF Failed
    <3> QED
      BY <1>4, <1>6, <3>1 DEF Failing
  <2>1. d \in Calls
    BY <1>1 DEF Born, TaskBorn
  <2>2. \/ call[d].on = u \/ call[d].kept
        \/ call[d].fn = "done" /\ call[d].res # "value"
    BY <1>1 DEF Failing
  <2>3. CASE d = c
    <3>1. call[c].on # u
      BY <1>4, OnNothing
    <3> QED
      BY <1>4, <2>2, <2>3, <3>1
  <2>4. CASE d # c
    BY <1>4, <2>1, <2>2, <2>4
  <2> QED
    BY <2>3, <2>4
<1>8. Raising'
  <2>1. ASSUME NEW d \in Calls, NEW t, t = By(d), call'[d].pc = "ended", call'[d].out # "value"
        PROVE  task'[t].kept \/ Failed(t)'
    BY <1>1, <1>4, <1>5, <1>6, <2>1 DEF Raising, SameWait
  <2> QED
    BY <1>4, <1>5, <2>1 DEF Raising, Failed
<1>9. Settled'
  BY <1>1, <1>4 DEF Settled
<1>10. Listed(n)'
  <2>1. CASE i = c
    <3>1. Structure' => AboveDefined'
      BY AboveUnfolds, PTL
    <3>2. Above'[n] = {c} \union Above'[By(c)']
      BY <1>1, <1>3, <1>4, <3>1 DEF AboveDefined
    <3> QED
      BY <1>4, <2>1, <3>2 DEF Listed, Below
  <2>2. CASE i # c
    <3>1. /\ c <= i /\ Thread(i) = Thread(c) /\ call[i].exec # None
          /\ call[i].fn \in {"running", "blocked", "done"}
      BY <1>4, <2>2, ListForWell DEF Active
    <3>2. call[i].fn = "done"
      <4>1. c < i
        BY <1>1, <1>4, <2>2, <3>1, CallsTyped
      <4> QED
        BY <1>1, <1>4, <3>1, <4>1 DEF Stacked, Active
    <3>3. call'[i] = call[i]
      BY <1>4, <2>2
    <3> QED
      BY <1>4, <3>1, <3>2, <3>3 DEF Listed
  <2> QED
    BY <2>1, <2>2
<1>11. AllListed'
  <2>1. \A d \in Calls : call[d].fut # "pending" => call'[d].fut # "pending"
    BY <1>4 DEF SameWait
  <2> QED
    BY <1>1, <1>3, <1>4, <1>5, <1>10, <2>1, ListedKept
<1>12. \A u \in Tasks : Hit(u) => Hit(u)'
  <2>1. \A d \in Calls : call[d].victim # None /\ (call[d].pc # "ended" \/ call[d].out = "value")
               => call'[d].victim # None /\ (call'[d].pc # "ended" \/ call'[d].out = "value")
    BY <1>4 DEF SameWait
  <2> QED
    BY <1>3, <1>4, <1>6, <2>1, HitSame
<1>13. AllSent'
  <2>1. \A d \in Calls : (call'[d].victim # None /\ (call'[d].pc # "ended" \/ call'[d].out = "value"))
                               => Carried(d)
    BY <1>4 DEF Carried, SameWait
  <2> QED
    BY <1>1, <1>3, <1>4, <1>12, <2>1, SentKept
<1> QED
  BY <1>3, <1>7, <1>8, <1>9, <1>11, <1>13 DEF Conduct

-----------------------------------------------------------------------------
(* The invariant holds                                                      *)

LEMMA InitStructure == Init => Structure /\ Conduct
<1> SUFFICES ASSUME Init PROVE Structure /\ Conduct
  OBVIOUS
<1>1. PICK r : r = [NewTaskOf(None, None, 1, None) EXCEPT !.st = "live"]
  OBVIOUS
<1>2. /\ r.from = None /\ r.exec = None /\ r.list = None /\ r.st = "live" /\ r \in TaskType
  <2>1. r = [from |-> 0, exec |-> 0, loop |-> 1, list |-> 0, st |-> "live",
             ask |-> FALSE, kept |-> FALSE, res |-> "none"]
    BY <1>1 DEF NewTaskOf, None
  <2>2. 0 \in 0 .. MaxCalls /\ 0 \in 0 .. MaxTasks /\ 1 \in 1 .. MaxTasks
    BY Sizes
  <2> QED
    BY <2>1, <2>2 DEF TaskType, None, Outcomes
<1>3. task = <<r>> /\ call = <<>> /\ tls = [h \in Threads |-> None] /\ cancels = 0
  BY <1>1 DEF Init
<1>4. Tasks = {1} /\ Calls = {} /\ task[1] = r
  BY <1>3 DEF Tasks, Calls
<1>5. Typed
  BY <1>2, <1>3, Sizes DEF Typed, None
<1>6. TaskBorn(1)
  BY <1>2, <1>4 DEF TaskBorn, From, List
<1>7. Structure
  <2>1. Born /\ Engages /\ Stacked /\ Latest /\ Joined /\ Awaiting
    BY <1>4, <1>6 DEF Born, Engages, Stacked, Latest, Joined, Awaiting
  <2>2. Locals
    BY <1>3 DEF Locals
  <2>3. Blocking
    BY <1>2, <1>4 DEF Blocking, Open, From
  <2> QED
    BY <1>5, <2>1, <2>2, <2>3 DEF Structure
<1>8. Conduct
  <2>1. Failing /\ Raising /\ AllSent
    BY <1>2, <1>4 DEF Failing, Raising, AllSent, From
  <2>2. Settled /\ AllListed
    BY <1>2, <1>4 DEF Settled, AllListed, Listed, List
  <2> QED
    BY <2>1, <2>2 DEF Conduct
<1> QED
  BY <1>7, <1>8

LEMMA NextConduct ==
    ASSUME Structure, Conduct, Next
    PROVE  Structure' /\ Conduct'
<1>1. ASSUME NEW t \in Tasks,
             \/ Spawn(t) \/ Begin(t) \/ EndTask(t) \/ CancelFromOutside(t)
             \/ \E sensitive \in BOOLEAN : CallSync(t, sensitive)
      PROVE  Structure' /\ Conduct'
  BY <1>1, ConductSpawn, ConductBegin, ConductEndTask, ConductCancelFromOutside, ConductCallSync
<1>2. ASSUME NEW c \in Calls, LoopStep(c)
      PROVE  Structure' /\ Conduct'
  <2>1. CASE \E out, q : Ending(c, out, q)
    BY <2>1, ConductEnding
  <2>2. CASE \E f, p : GoingOn(c, f, p)
    BY <2>2, ConductGoingOn
  <2>3. CASE \E k : Cancelling(c, k)
    BY <2>3, ConductCancelling
  <2> QED
    BY <1>2, <2>1, <2>2, <2>3, ReturnsEnds, GiveUpEnds, CancelledAgainEnds, FnDoneGoesOn,
       TaskDoneDoesEither, CancelTaskDoesEither DEF LoopStep
<1>3. ASSUME NEW c \in Calls,
             ThreadStep(c) \/ DropFn(c) \/ \E force \in BOOLEAN : CallAsync(c, force)
      PROVE  Structure' /\ Conduct'
  BY <1>3, ConductStartFn, ConductReturnFn, ConductReturnAsync, ConductDropFn, ConductCallAsync
     DEF ThreadStep
<1> QED
  BY <1>1, <1>2, <1>3 DEF Next

LEMMA StutterConduct ==
    ASSUME Structure, Conduct, UNCHANGED vars
    PROVE  Structure' /\ Conduct'
<1>1. task' = task /\ call' = call /\ tls' = tls /\ cancels' = cancels
  BY DEF vars
<1>2. Tasks' = Tasks /\ Calls' = Calls /\ Kept
  BY <1>1 DEF Tasks, Calls, Kept, SameTask, SameCall
<1>3. Typed' /\ Born' /\ Engages' /\ Locals'
  BY <1>1, <1>2 DEF Structure, Typed, Born, TaskBorn, CallBorn, Engages, Engaged, Locals,
                    From, List, By, Thread
<1>4. Blocking' /\ Stacked' /\ Latest' /\ Joined' /\ Awaiting'
  BY <1>1, <1>2 DEF Structure, Blocking, Stacked, Latest, Joined, Awaiting, Open, Active,
                    From, List, By, Thread
<1>5. Structure'
  BY <1>3, <1>4 DEF Structure
<1>6. \A t \in Tasks : From(t)' = From(t) /\ (Failed(t)' <=> Failed(t)) /\ (Hit(t) => Hit(t)')
  BY <1>1, <1>2 DEF From, Failed, Hit, By
<1>7. Failing' /\ Raising' /\ Settled'
  BY <1>1, <1>2, <1>6 DEF Conduct, Failing, Raising, Settled, By, From, Failed
<1>8. AllListed'
  BY <1>1, <1>2, <1>5, ListedKept DEF Conduct
<1>9. AllSent'
  <2>1. \A d \in Calls : (call'[d].victim # None /\ (call'[d].pc # "ended" \/ call'[d].out = "value"))
                               => Carried(d)
    BY <1>1 DEF Carried
  <2> QED
    BY <1>2, <1>5, <1>6, <2>1, SentKept DEF Conduct
<1> QED
  BY <1>5, <1>7, <1>8, <1>9 DEF Conduct

\* How the tasks, the calls and the threads of sync.py hang together while
\* async_to_sync and sync_to_async call one another, and what becomes of a
\* CancelledError on its way down (cancel_task) and back up: the invariant that
\* the theorems below follow from.
THEOREM ConductInvariant == Spec => [](Structure /\ Conduct)
<1>1. Init => Structure /\ Conduct
  BY InitStructure
<1>2. (Structure /\ Conduct) /\ [Next]_vars => (Structure /\ Conduct)'
  BY NextConduct, StutterConduct
<1> QED
  BY <1>1, <1>2, PTL DEF Spec

-----------------------------------------------------------------------------
(* The theorems                                                             *)

\* Two tasks of AsyncToSync that are not done did not join one list: the one
\* made later is from a call that is newer than the list the other joined.
LEMMA OnList ==
    ASSUME Structure, NEW j \in Tasks, NEW k \in Tasks, List(j) # None, List(j) = List(k),
           task[j].st # "done", task[k].st # "done"
    PROVE  ~ From(j) < From(k)
<1> SUFFICES ASSUME From(j) < From(k) PROVE FALSE
  OBVIOUS
<1>1. /\ From(j) # None /\ From(j) \in Calls /\ From(k) # None /\ From(k) \in Calls
      /\ List(j) \in Calls /\ From(k) <= List(k)
      /\ Thread(From(j)) = Thread(List(j)) /\ Thread(From(k)) = Thread(List(k))
  BY DEF Structure, Born, TaskBorn
<1>2. Open(j) /\ Open(k)
  BY <1>1 DEF Open
<1>3. Active(From(k))
  BY <1>2 DEF Structure, Blocking, Active
<1>4. List(j) < From(k)
  BY <1>1, <1>2, <1>3 DEF Structure, Joined
<1> QED
  BY <1>1, <1>4, CallsTyped DEF Structure

LEMMA StructureTyped == Structure => TypeOK
<1> SUFFICES ASSUME Structure PROVE TypeOK
  OBVIOUS
<1>1. ASSUME NEW c \in Calls PROVE Cardinality(TaskContext(c)) <= 1
  <2>1. ASSUME NEW j \in TaskContext(c), NEW k \in TaskContext(c) PROVE j = k
    <3>1. /\ j \in Tasks /\ List(j) = c /\ task[j].st # "done"
          /\ k \in Tasks /\ List(k) = c /\ task[k].st # "done"
      BY DEF TaskContext, List
    <3>2. c # None
      BY CallsTyped DEF Structure, None
    <3>3. ~ From(j) < From(k) /\ ~ From(k) < From(j)
      BY <3>1, <3>2, OnList
    <3>4. From(j) \in Calls /\ From(k) \in Calls /\ Open(j) /\ Open(k)
      BY <3>1, <3>2 DEF Structure, Born, TaskBorn, Open
    <3>5. From(j) = From(k)
      BY <3>3, <3>4, CallsTyped DEF Structure
    <3> QED
      BY <3>1, <3>4, <3>5 DEF Structure, Blocking
  <2>2. CASE TaskContext(c) = {}
    BY <2>2, FS_EmptySet
  <2>3. CASE TaskContext(c) # {}
    <3>1. PICK k \in TaskContext(c) : TRUE
      BY <2>3
    <3>2. TaskContext(c) = {k}
      BY <2>1, <3>1
    <3>3. Cardinality({k}) = 1
      BY FS_Singleton
    <3> QED
      BY <3>2, <3>3
  <2> QED
    BY <2>2, <2>3
<1> QED
  BY <1>1 DEF Structure, Typed, TypeOK

\* The state keeps its types, and no list of tasks that SyncToAsync.__call__
\* made and main_wrap appends to ever holds two tasks: task_context[0] is the
\* only one, whichever thread's code joined it.
THEOREM TypeCorrect == Spec => []TypeOK
  BY ConductInvariant, StructureTyped, PTL

LEMMA ListedOwn == Structure /\ Conduct => CancelsOwn
<1> SUFFICES ASSUME Structure, Conduct, NEW c \in Calls, call[c].victim # None
             PROVE  Below(call[c].victim, c) \/ (call[c].exec # None /\ call[c].fn = "done")
  BY DEF CancelsOwn
<1>1. PICK v : v = call[c].victim
  OBVIOUS
<1>2. v \in Tasks /\ List(v) = c /\ c # None
  BY <1>1, CallsTyped DEF Structure, Engages, Engaged, None
<1>3. Listed(v)
  BY <1>2 DEF Conduct, AllListed
<1> QED
  BY <1>1, <1>2, <1>3 DEF Listed

\* The task that a cancelled SyncToAsync.__call__ takes from task_context was
\* made below that call, by main_wrap in a thread of its own; save that it may
\* be other code of the thread where the call was pumped and its function has
\* returned (deadlock_context keeps the list in use).
THEOREM OwnWorkCancelled == Spec => []CancelsOwn
  BY ConductInvariant, ListedOwn, PTL

-----------------------------------------------------------------------------
(* A cancellation is reported                                               *)

\* Nobody below a call, nor its function, caught an exception.
Uncaught(c) ==
    /\ \A d \in Calls : d = c \/ Below(By(d), c) => ~ call[d].kept
    /\ \A t \in Tasks : Below(t, c) => ~ task[t].kept

Valued(t) == task[t].st = "done" /\ task[t].res = "value"

\* If the call returned a value, what is below it returned a value.
LEMMA BelowValued ==
    ASSUME Structure, Conduct, NEW c \in Calls, call[c].out = "value", Uncaught(c)
    PROVE  \A t \in Tasks : Below(t, c) => Valued(t)
<1>1. PICK n \in Nat : n = Len(task) /\ Tasks = 1 .. n
  BY TasksTyped DEF Structure
<1>2. /\ Born /\ Engages /\ Blocking /\ Awaiting /\ Failing /\ Raising
  BY DEF Structure, Conduct
<1> DEFINE Good(t) == Below(t, c) => Valued(t)
           Bad == {t \in 1 .. n : ~ Good(t)}
<1>3. ASSUME NEW t \in 1 .. n, \A u \in 1 .. n : u < t => Good(u)
      PROVE  Good(t)
  <2> SUFFICES ASSUME Below(t, c) PROVE Valued(t)
    OBVIOUS
  <2>1. From(t) # None /\ (From(t) = c \/ Below(By(From(t)), c))
    BY <1>1, BelowDefined
  <2>2. PICK d, b : d = From(t) /\ b = By(d)
    OBVIOUS
  <2>3. d \in Calls /\ b \in 1 .. n /\ b < t
    BY <1>1, <2>1, <2>2, FromBelow
  <2>4. call[d].out = "value" /\ ~ call[d].kept
    <3>1. CASE d = c
      BY <3>1 DEF Uncaught
    <3>2. CASE Below(b, c)
      <4>1. Valued(b) /\ ~ task[b].kept /\ ~ call[d].kept
        BY <1>1, <1>3, <2>2, <2>3, <3>2 DEF Uncaught
      <4>2. call[d].pc = "ended"
        BY <1>2, <2>2, <2>3, <4>1 DEF Awaiting, Valued
      <4> QED
        BY <1>2, <2>2, <2>3, <4>1, <4>2 DEF Raising, Failed, Valued
    <3> QED
      BY <2>1, <2>2, <3>1, <3>2
  <2>5. call[d].fn = "done" /\ call[d].res = "value"
    BY <1>2, <2>3, <2>4 DEF Awaiting
  <2>6. ~ Open(t) /\ call[d].on # t
    BY <1>1, <1>2, <2>2, <2>3, <2>5, OnNothing DEF Blocking
  <2>7. ~ Failed(t)
    BY <1>1, <1>2, <2>1, <2>2, <2>4, <2>5, <2>6 DEF Failing
  <2> QED
    BY <2>1, <2>6, <2>7 DEF Open, Failed, Valued
<1> HIDE DEF Good
<1>4. Bad = {}
  <2> SUFFICES ASSUME Bad # {} PROVE FALSE
    OBVIOUS
  <2>1. PICK S \in SUBSET Nat : S = Bad
    <3>1. Bad \in SUBSET Nat
      OBVIOUS
    <3> QED
      BY <3>1
  <2>2. PICK t \in S : \A u \in S : t <= u
    BY <2>1, LeastNumber
  <2>3. \A u \in 1 .. n : u < t => Good(u)
    BY <2>1, <2>2
  <2> QED
    BY <1>3, <2>1, <2>2, <2>3
<1> QED
  BY <1>1, <1>4 DEF Good

\* Then no cancellation hit what is below it: the last task that was hit would
\* have passed it to a newer one.
LEMMA BelowUnhit ==
    ASSUME Structure, Conduct, NEW c \in Calls, call[c].out = "value", Uncaught(c)
    PROVE  \A t \in Tasks : Below(t, c) => ~ Hit(t)
<1>1. PICK n \in Nat : n = Len(task) /\ Tasks = 1 .. n
  BY TasksTyped DEF Structure
<1>2. Born /\ Engages /\ Awaiting /\ Raising /\ Settled /\ AllSent
  BY DEF Structure, Conduct
<1> DEFINE Good(t) == Below(t, c) => ~ Hit(t)
           Bad == {t \in 1 .. n : ~ Good(t)}
<1>3. ASSUME NEW t \in 1 .. n, \A u \in 1 .. n : t < u => Good(u)
      PROVE  Good(t)
  <2> SUFFICES ASSUME Below(t, c), Hit(t) PROVE FALSE
    OBVIOUS
  <2>1. Valued(t) /\ ~ task[t].kept /\ ~ task[t].ask /\ ~ Failed(t)
    BY <1>1, <1>2, BelowValued DEF Uncaught, Settled, Valued, Failed
  <2>2. PICK d \in Calls : By(d) = t /\ call[d].victim # None
                           /\ (call[d].pc # "ended" \/ call[d].out = "value")
    BY <2>1 DEF Hit
  <2>3. PICK v : v = call[d].victim
    OBVIOUS
  <2>4. v \in Tasks /\ List(v) = d /\ v # None
    BY <1>2, <2>2, <2>3 DEF Engages, Engaged
  <2>5. call[d].pc = "ended"
    BY <1>2, <2>1, <2>2 DEF Awaiting, Valued
  <2>6. Below(v, d) /\ Hit(v)
    <3>1. Sent(d)
      BY <1>2 DEF AllSent
    <3> QED
      BY <2>2, <2>3, <2>5, <3>1 DEF Sent
  <2>7. Below(v, c)
    BY <2>2, <2>4, <2>6, BelowThrough
  <2>8. t < v
    <3>1. d # None
      BY CallsTyped DEF Structure, None
    <3> QED
      BY <1>2, <2>2, <2>4, <3>1 DEF Born, TaskBorn
  <2> QED
    BY <1>1, <1>3, <2>4, <2>6, <2>7, <2>8
<1> HIDE DEF Good
<1>4. Bad = {}
  <2> SUFFICES ASSUME Bad # {} PROVE FALSE
    OBVIOUS
  <2>1. PICK S \in SUBSET (1 .. n) : S = Bad
    OBVIOUS
  <2>2. PICK t \in S : \A u \in S : u <= t
    BY <2>1, GreatestNumber
  <2>3. \A u \in 1 .. n : t < u => Good(u)
    BY <2>1, <2>2
  <2> QED
    BY <1>3, <2>1, <2>2, <2>3
<1> QED
  BY <1>1, <1>4 DEF Good

LEMMA ConductReports == Structure /\ Conduct => CancelReported
<1> SUFFICES ASSUME Structure, Conduct, NEW c \in Calls,
                    call[c].out = "value", call[c].victim # None,
                    \A d \in Calls : call[d].kept => ~ (d = c \/ Below(call[d].by, c)),
                    \A t \in Tasks : task[t].kept => ~ Below(t, c)
             PROVE  FALSE
  BY DEF CancelReported
<1>1. Uncaught(c)
  BY DEF Uncaught, By
<1>2. PICK v : v = call[c].victim
  OBVIOUS
<1>3. v \in Tasks
  BY <1>2 DEF Structure, Engages, Engaged
<1>4. call[c].pc = "ended"
  BY DEF Structure, Awaiting
<1>5. Below(v, c) /\ Hit(v)
  <2>1. Sent(c)
    BY DEF Conduct, AllSent
  <2> QED
    BY <1>2, <1>4, <2>1 DEF Sent
<1> QED
  BY <1>1, <1>3, <1>5, BelowUnhit

\* A call of SyncToAsync whose task was cancelled, and which cancelled the task
\* it found in task_context, returns a value only if user code below it caught
\* the CancelledError: however deep the calls nest and in whatever order loops
\* and threads go on, the exception that went down comes back up.
THEOREM CancellationReported == Spec => []CancelReported
  BY ConductInvariant, ConductReports, PTL

-----------------------------------------------------------------------------
(* A cancellation reaches the task that runs                                *)

Started(c) == call[c].fn \in {"running", "blocked", "done"}

\* The function of the call whose list a task joined has started.
Joining == \A t \in Tasks : From(t) # None => Started(List(t))

LEMMA JoiningKept ==
    ASSUME Structure, Joining, Kept,
           \A d \in Calls : Started(d) => Started(d)',
           \A t \in Tasks' \ Tasks : From(t)' # None => Started(List(t))'
    PROVE  Joining'
<1> SUFFICES ASSUME NEW t \in Tasks, From(t)' # None PROVE Started(List(t))'
  BY DEF Joining
<1>1. From(t)' = From(t) /\ List(t)' = List(t)
  BY DEF Kept, SameTask, From, List
<1>2. List(t) \in Calls
  BY <1>1 DEF Structure, Born, TaskBorn
<1>3. PICK i \in Calls : i = List(t)
  BY <1>2
<1>4. Started(i)'
  BY <1>1, <1>3 DEF Joining
<1> QED
  BY <1>1, <1>3, <1>4 DEF Started

LEMMA JoiningQuiet ==
    ASSUME Structure, Joining, Quiet, Tasks' = Tasks
    PROVE  Joining'
  BY JoiningKept DEF Quiet, SameWork, Started

LEMMA JoiningWorks ==
    ASSUME Structure, Joining, NEW c \in Calls, NEW f, NEW o, NEW k, NEW s, Works(c, f, o, k, s),
           tls' \in [Threads -> 0 .. MaxCalls], cancels' \in 0 .. MaxWork,
           call[c].fn = "queued" \/ f \in {"running", "blocked", "done"}
    PROVE  Joining'
<1>1. Kept /\ Tasks' = Tasks
  BY StaysKept DEF Structure, Works
<1>2. ASSUME NEW d \in Calls, Started(d) PROVE Started(d)'
  <2>1. CASE d = c
    BY <1>2, <2>1 DEF Works, IsWorked, Started
  <2>2. CASE d # c
    BY <1>2, <2>2 DEF Works, OtherCalls, Started
  <2> QED
    BY <2>1, <2>2
<1> QED
  BY <1>1, <1>2, JoiningKept

LEMMA JoiningTask ==
    ASSUME Structure, Joining, NEW t \in Tasks,
           \/ Spawn(t) \/ Begin(t) \/ EndTask(t) \/ CancelFromOutside(t)
           \/ \E sensitive \in BOOLEAN : CallSync(t, sensitive)
    PROVE  Joining'
<1>1. Typed /\ Born /\ TaskBorn(t)
  BY DEF Structure, Born
<1>2. CASE Begin(t) \/ EndTask(t)
  <2>1. Quiet /\ Stays
    BY <1>1, <1>2, StructureBegin, StructureEndTask, BeginDoes, EndTaskDoes
  <2>2. Tasks' = Tasks
    BY <2>1 DEF Stays, LikeTasks, Tasks, Structure, Typed
  <2> QED
    BY <2>1, <2>2, JoiningQuiet
<1>3. CASE CancelFromOutside(t)
  <2>1. Deepest[t] \in Tasks
    BY <1>3, DeepestWell DEF CancelFromOutside
  <2>2. Quiet /\ Stays
    BY <1>1, <1>3, <2>1, StructureCancelFromOutside, CancelFromOutsideDoes
  <2>3. Tasks' = Tasks
    BY <2>2 DEF Stays, LikeTasks, Tasks, Structure, Typed
  <2> QED
    BY <2>2, <2>3, JoiningQuiet
<1>4. CASE Spawn(t)
  <2>1. Quiet
    BY <1>4, StructureSpawn
  <2>2. PICK r : TaskAdded(r) /\ r.from = None
    BY <1>1, <1>4, SpawnDoes
  <2>3. \A u \in Tasks' \ Tasks : From(u)' = None
    BY <2>2 DEF TaskAdded, From
  <2>4. \A d \in Calls : Started(d) => Started(d)'
    BY <2>1 DEF Quiet, SameWork, Started
  <2> QED
    BY <2>1, <2>3, <2>4, JoiningKept DEF Quiet
<1>5. CASE \E sensitive \in BOOLEAN : CallSync(t, sensitive)
  <2>1. Kept /\ task' = task
    BY <1>5, StructureCallSync DEF CallSync
  <2>2. PICK r : CallAdded(r)
    <3>1. task[t].exec # None => From(task[t].exec) \in Calls
      BY <1>1 DEF Born, TaskBorn
    <3> QED
      BY <1>1, <1>5, <3>1, CallSyncDoes
  <2>3. \A d \in Calls : Started(d) => Started(d)'
    BY <2>2 DEF CallAdded, OtherCalls, Started
  <2>4. Tasks' = Tasks
    BY <2>1 DEF Tasks
  <2> QED
    BY <2>1, <2>3, <2>4, JoiningKept
<1> QED
  BY <1>2, <1>3, <1>4, <1>5

LEMMA JoiningLoop ==
    ASSUME Structure, Joining, NEW c \in Calls, LoopStep(c)
    PROVE  Joining'
<1>1. CASE \E out, q : Ending(c, out, q)
  <2>1. Quiet
    BY <1>1, EndingStructure
  <2>2. Stays
    BY <1>1 DEF Ending, Ended
  <2>3. Tasks' = Tasks
    BY <2>2 DEF Stays, LikeTasks, Tasks, Structure, Typed
  <2> QED
    BY <2>1, <2>3, JoiningQuiet
<1>2. CASE \E f, p : GoingOn(c, f, p)
  <2>1. Quiet
    BY <1>2, GoingOnStructure
  <2>2. Tasks' = Tasks
    BY <1>2 DEF GoingOn, Tasks
  <2> QED
    BY <2>1, <2>2, JoiningQuiet
<1>3. CASE \E k : Cancelling(c, k)
  <2>1. Quiet
    BY <1>3, CancellingStructure
  <2>2. Stays
    BY <1>3 DEF Cancelling, Waits
  <2>3. Tasks' = Tasks
    BY <2>2 DEF Stays, LikeTasks, Tasks, Structure, Typed
  <2> QED
    BY <2>1, <2>3, JoiningQuiet
<1> QED
  BY <1>1, <1>2, <1>3, ReturnsEnds, GiveUpEnds, CancelledAgainEnds, FnDoneGoesOn,
     TaskDoneDoesEither, CancelTaskDoesEither DEF LoopStep

LEMMA JoiningThread ==
    ASSUME Structure, Joining, NEW c \in Calls,
           ThreadStep(c) \/ DropFn(c) \/ \E force \in BOOLEAN : CallAsync(c, force)
    PROVE  Joining'
<1>1. Typed /\ Engaged(c)
  BY DEF Structure, Engages
<1>2. ASSUME StartFn(c) \/ DropFn(c) \/ ReturnFn(c) \/ ReturnAsync(c)
      PROVE  tls' \in [Threads -> 0 .. MaxCalls] /\ cancels' \in 0 .. MaxWork
  <2>1. Structure'
    <3>1. CASE ReturnAsync(c)
      BY <3>1, StructureReturnAsync
    <3> QED
      BY <1>2, <3>1, StructureStartFn, StructureDropFn, StructureReturnFn
  <2> QED
    BY <2>1 DEF Structure, Typed
<1>3. CASE StartFn(c)
  <2>1. PICK f, o, k, s : f = "running" /\ Works(c, f, o, k, s)
    BY <1>1, <1>3, StartFnDoes
  <2> QED
    BY <1>2, <1>3, <2>1, JoiningWorks
<1>4. CASE DropFn(c)
  <2>1. PICK f, o, k, s : call[c].fn = "queued" /\ Works(c, f, o, k, s)
    BY <1>1, <1>4, DropFnDoes
  <2> QED
    BY <1>2, <1>4, <2>1, JoiningWorks
<1>5. CASE ReturnFn(c)
  <2>1. PICK f, o, k, s : f = "done" /\ Works(c, f, o, k, s)
    BY <1>1, <1>5, ReturnFnDoes
  <2> QED
    BY <1>2, <1>5, <2>1, JoiningWorks
<1>6. CASE ReturnAsync(c)
  <2>1. call[c].on \in Tasks
    BY <1>1, <1>6 DEF ReturnAsync, Engaged
  <2>2. PICK f, o, k, s : Works(c, f, o, k, s) /\ Back(c, f, k, s)
    BY <1>1, <1>6, <2>1, ReturnAsyncDoes
  <2>3. f \in {"running", "done"}
    BY <2>2 DEF Back
  <2> QED
    BY <1>2, <1>6, <2>2, <2>3, JoiningWorks
<1>7. ASSUME NEW force \in BOOLEAN, CallAsync(c, force)
      PROVE  Joining'
  <2>1. PICK i, n : Branches(c, i, n)
    BY <1>7, CallAsyncBranches
  <2>2. Started(i)
    <3>1. Active(c)
      BY <2>1 DEF Branches, Active
    <3> QED
      BY <2>1, <3>1, ListForWell DEF Branches, Started
  <2>3. \A d \in Calls : Started(d) => Started(d)'
    BY <2>1 DEF Branches, Started
  <2>4. \A u \in Tasks' \ Tasks : Started(List(u))'
    <3>1. ASSUME NEW u \in Tasks' \ Tasks PROVE Started(List(u))'
      <4>1. u = n /\ List(u)' = i
        BY <2>1 DEF Branches, List
      <4>2. Started(i)'
        BY <2>1, <2>2, <2>3 DEF Branches
      <4> QED
        BY <4>1, <4>2 DEF Started
    <3> QED
      BY <3>1
  <2> QED
    BY <2>1, <2>3, <2>4, JoiningKept DEF Branches
<1> QED
  BY <1>3, <1>4, <1>5, <1>6, <1>7 DEF ThreadStep

LEMMA JoiningNext ==
    ASSUME Structure, Joining, [Next]_vars
    PROVE  Joining'
<1>1. CASE UNCHANGED vars
  BY <1>1 DEF vars, Joining, Started, Tasks, From, List
<1> QED
  BY <1>1, JoiningTask, JoiningLoop, JoiningThread DEF Next

\* What a call that no other code ran below is blocked on is on its own list.
LEMMA BlockedListed ==
    ASSUME Structure, Joining, NEW c \in Calls, call[c].on # None, ~ Nested(c)
    PROVE  call[c].on \in Tasks /\ List(call[c].on) = c
<1>1. PICK t : t = call[c].on
  OBVIOUS
<1>2. t \in Tasks /\ From(t) = c /\ c # None
  BY <1>1, CallsTyped DEF Structure, Engages, Engaged, None
<1>3. PICK i : i = List(t)
  OBVIOUS
<1>4. i \in Calls /\ c <= i /\ Thread(i) = Thread(c) /\ Started(i)
  BY <1>2, <1>3 DEF Structure, Born, TaskBorn, Joining
<1>5. ~ i > c
  BY <1>4 DEF Nested, Thread, Started
<1>6. i = c
  BY <1>4, <1>5, CallsTyped DEF Structure
<1> QED
  BY <1>1, <1>2, <1>3, <1>6

\* SyncToAsync.__call__ finds task_context empty, and lets its thread be, only
\* when the coroutine its function waits for does not run: main_wrap put every
\* one that does on the list that is looked at, unless other sync code ran in
\* the thread meanwhile and left its own list there.
THEOREM RunningTaskReached == Spec => CancelReaches
<1> DEFINE Reaches ==
              \A c \in Calls : GiveUp(c) /\ call[c].on # None /\ ~ Nested(c)
                  => task[call[c].on].st # "live"
<1>1. Init => Joining
  BY DEF Init, Joining, Tasks, From, NewTaskOf
<1>2. Structure /\ Joining /\ [Next]_vars => Joining'
  BY JoiningNext
<1>3. Structure /\ Joining => Reaches
  <2> SUFFICES ASSUME Structure, Joining, NEW c \in Calls, GiveUp(c), call[c].on # None,
                      ~ Nested(c), task[call[c].on].st = "live"
               PROVE  FALSE
    OBVIOUS
  <2>1. call[c].on \in TaskContext(c)
    BY BlockedListed DEF TaskContext, List
  <2> QED
    BY <2>1 DEF GiveUp
<1>4. Structure /\ Joining => [Reaches]_vars
  BY <1>3
<1> HIDE DEF Reaches
<1>5. Spec => [][Reaches]_vars
  BY <1>1, <1>2, <1>4, ConductInvariant, PTL DEF Spec
<1> QED
  BY <1>5 DEF Reaches, CancelReaches
=============================================================================
