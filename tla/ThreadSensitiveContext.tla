------------------------ MODULE ThreadSensitiveContext ------------------------
(***************************************************************************)
(* ThreadSensitiveContext, src/asgiref/sync.py: thread-sensitive calls made *)
(* in such a context share a pool of one thread, that is made when it is    *)
(* first needed and joined when the context is left.                        *)
(*                                                                         *)
(* Tasks of one loop enter contexts, make calls and spawn tasks, which      *)
(* inherit the context variable.  A context is named after the task that    *)
(* entered it; entering another one inside has no effect and is no step.    *)
(* The function of a call may need the loop, and the loop's default pool,   *)
(* before it can return (AsyncToSync, below it a thread_sensitive=False     *)
(* call); once is enough to tell.                                           *)
(***************************************************************************)
EXTENDS Naturals, Sequences, FiniteSets

CONSTANTS
    Tasks, First,   \* the first of which runs from the start
    None,
    MaxCalls,       \* bound on the calls
    Slots           \* threads of the loop's default pool

ASSUME ContextAssumption ==
    /\ First \in Tasks /\ None \notin Tasks
    /\ MaxCalls \in Nat /\ Slots \in Nat \ {0}

VARIABLES
    born,   \* the tasks that were created
    var,    \* thread_sensitive_context, per task
    phase,  \* of the context named after a task
    join,   \* the pool its exit joins, and where
    pool,   \* context_to_thread_executor, 0 where there is none
    pools,  \* how many pools were made
    call    \* the calls

vars == <<born, var, phase, join, pool, pools, call>>

NoJoin == [pool |-> 0, where |-> "none"]

CallType ==
    [by : Tasks, ctx : Tasks, pool : 1 .. MaxCalls,
     late : BOOLEAN,    \* made after its context began to leave
     st : {"queued", "running", "asking", "slot", "using", "answered", "done"}]

Calls == DOMAIN call
Unfinished == {c \in Calls : call[c].st # "done"}
Occupies(c) == call[c].st \notin {"queued", "done"}

\* Besides the types: a thread runs one function at a time, in order.
TypeOK ==
    /\ born \subseteq Tasks
    /\ var \in [Tasks -> Tasks \union {None}]
    /\ phase \in [Tasks -> {"out", "in", "leaving", "left", "cancelled", "broken"}]
    /\ join \in [Tasks -> [pool : 1 .. MaxCalls, where : {"thread", "loop", "default"}]
                             \union {NoJoin}]
    /\ pool \in [Tasks -> 0 .. MaxCalls] /\ pools \in 0 .. MaxCalls
    /\ call \in Seq(CallType) /\ Len(call) <= MaxCalls
    /\ \A c, d \in Calls : c < d /\ call[c].pool = call[d].pool /\ Occupies(d)
          => call[c].st = "done"

Init ==
    /\ born = {First}
    /\ var = [t \in Tasks |-> None]
    /\ phase = [t \in Tasks |-> "out"]
    /\ join = [t \in Tasks |-> NoJoin]
    /\ pool = [t \in Tasks |-> 0] /\ pools = 0
    /\ call = <<>>

-----------------------------------------------------------------------------
(* The loop                                                                 *)

Leaving == {t \in Tasks : phase[t] = "leaving"}

\* Where __aexit__ waits for the pool's thread.
\* MUTANTS: in the loop itself, in the loop's default pool.
JoinInLoop == "loop"
JoinInDefault == "default"
JoinPlace == "thread"

LoopFree == \A t \in Leaving : join[t].where # "loop"

SlotsUsed ==
    Cardinality({c \in Calls : call[c].st = "using"})
      + Cardinality({t \in Leaving : join[t].where = "default"})

\* The task is not waiting for a call, nor for a join.
Active(t) ==
    /\ t \in born /\ phase[t] # "leaving" /\ LoopFree
    /\ \A c \in Unfinished : call[c].by # t

Spawn(t) ==
    /\ Active(t)
    /\ \E u \in Tasks \ born :
          /\ born' = born \union {u}
          /\ var' = [var EXCEPT ![u] = var[t]]
    /\ UNCHANGED <<phase, join, pool, pools, call>>

\* __aenter__, where it has an effect.
Enter(t) ==
    /\ Active(t) /\ var[t] = None /\ phase[t] = "out"
    /\ var' = [var EXCEPT ![t] = t]
    /\ phase' = [phase EXCEPT ![t] = "in"]
    /\ UNCHANGED <<born, join, pool, pools, call>>

\* A call, given whose entry of the table it uses.
Submit(t, key) ==
    /\ Active(t) /\ var[t] # None /\ Len(call) < MaxCalls
    /\ LET e == IF pool[key] = 0 THEN pools + 1 ELSE pool[key]
       IN /\ pool' = [pool EXCEPT ![key] = e]
          /\ pools' = IF pool[key] = 0 THEN e ELSE pools
          /\ call' = Append(call, [by |-> t, ctx |-> var[t], pool |-> e,
                                   late |-> phase[var[t]] # "in", st |-> "queued"])
    /\ UNCHANGED <<born, var, phase, join>>

\* MUTANT: the table is by task, not by context.
CallByTask(t) == Submit(t, t)

\* SyncToAsync.__call__ with the context's pool, made if there is none.
Call(t) == Submit(t, var[t])

\* MUTANT: the pool stays in the table.
PoppedNot(e) == e
Popped(e) == 0

\* __aexit__ up to its await.
Leave(t) ==
    /\ Active(t) /\ phase[t] = "in"
    /\ pool' = [pool EXCEPT ![t] = Popped(@)]
    /\ var' = [var EXCEPT ![t] = None]
    /\ IF pool[t] = 0
       THEN phase' = [phase EXCEPT ![t] = "left"] /\ UNCHANGED join
       ELSE /\ phase' = [phase EXCEPT ![t] = "leaving"]
            /\ join' = [join EXCEPT ![t] = [pool |-> pool[t], where |-> JoinPlace]]
    /\ UNCHANGED <<born, pools, call>>

\* __aexit__ in the context of another task: reset() raises, and the pool, out
\* of the table, is not joined.
LeaveElsewhere(t) ==
    /\ phase[t] = "in" /\ \E u \in Tasks \ {t} : Active(u)
    /\ pool' = [pool EXCEPT ![t] = Popped(@)]
    /\ phase' = [phase EXCEPT ![t] = "broken"]
    /\ UNCHANGED <<born, var, join, pools, call>>

Idle(e) == \A c \in Unfinished : call[c].pool # e

\* shutdown() returns once the thread has done all it was given.
Joined(t) ==
    /\ phase[t] = "leaving" /\ Idle(join[t].pool)
    /\ phase' = [phase EXCEPT ![t] = "left"]
    /\ UNCHANGED <<born, var, join, pool, pools, call>>

\* The await is cancelled; the join goes on by itself.
CancelLeave(t) ==
    /\ phase[t] = "leaving" /\ LoopFree
    /\ phase' = [phase EXCEPT ![t] = "cancelled"]
    /\ UNCHANGED <<born, var, join, pool, pools, call>>

-----------------------------------------------------------------------------
(* The functions                                                            *)

Becomes(c, from, to) ==
    /\ call[c].st = from
    /\ call' = [call EXCEPT ![c].st = to]
    /\ UNCHANGED <<born, var, phase, join, pool, pools>>

\* MUTANT: a thread for every call.
StartAtOnce(c) == Becomes(c, "queued", "running")

Start(c) ==
    /\ \A d \in Unfinished : d < c => call[d].pool # call[c].pool
    /\ Becomes(c, "queued", "running")

Ask(c) == Becomes(c, "running", "asking")

Serve(c) == LoopFree /\ (Becomes(c, "asking", "slot") \/ Becomes(c, "asking", "answered"))

TakeSlot(c) == SlotsUsed < Slots /\ Becomes(c, "slot", "using")

FreeSlot(c) == LoopFree /\ Becomes(c, "using", "answered")

Return(c) == Becomes(c, "running", "done") \/ Becomes(c, "answered", "done")

Progress(c) == Start(c) \/ Serve(c) \/ TakeSlot(c) \/ FreeSlot(c) \/ Return(c)

Next ==
    \/ \E t \in Tasks :
          \/ Spawn(t) \/ Enter(t) \/ Call(t) \/ Leave(t) \/ LeaveElsewhere(t)
          \/ Joined(t) \/ CancelLeave(t)
    \/ \E c \in Calls : Progress(c) \/ Ask(c)

Spec == Init /\ [][Next]_vars

\* Threads, the loop and the default pool go on; user code returns.
FairSpec ==
    /\ Spec
    /\ \A t \in Tasks : WF_vars(Joined(t))
    /\ \A c \in 1 .. MaxCalls : WF_vars(c \in Calls /\ Progress(c))

-----------------------------------------------------------------------------
(* Properties                                                               *)

\* Thread-sensitive code of one context runs one at a time, in one thread,
\* except code that a task left behind calls once the context is being left, or
\* failed to be: that gets another thread.
OneThread ==
    \A c, d \in Calls :
        call[c].ctx = call[d].ctx /\ ~call[c].late /\ ~call[d].late
            => call[c].pool = call[d].pool

\* A context that was left, and not by a cancellation, has no work of its own
\* unfinished, and no call can use the thread that was joined.
LeftIdle ==
    \A t \in Tasks : phase[t] = "left" /\ join[t] # NoJoin =>
        Idle(join[t].pool) /\ \A s \in Tasks : pool[s] # join[t].pool

\* Leaving a context ends, even if its thread waits for the loop, or for the
\* loop's default pool.
ExitEnds == \A t \in Tasks : (phase[t] = "leaving") ~> (phase[t] # "leaving")
=============================================================================
