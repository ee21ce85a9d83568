--------------------- MODULE ThreadSensitiveContextProofs ---------------------
(***************************************************************************)
(* Theorems of ThreadSensitiveContext, for any tasks and any number of      *)
(* calls.  All three rest on who may use which pool: the entries of the     *)
(* table differ, and none is a pool that is being joined.                   *)
(***************************************************************************)
EXTENDS ThreadSensitiveContext, TLAPS

\* A pool is made with a call, is the entry of one context, and is not one once
\* a context that leaves has taken it to join.
PoolsApart ==
    /\ pools <= Len(call)
    /\ \A t \in Tasks : pool[t] <= pools
    /\ \A c \in Calls : call[c].pool <= pools
    /\ \A s, t \in Tasks : s # t /\ pool[s] # 0 => pool[s] # pool[t]
    /\ \A s, t \in Tasks : join[t] # NoJoin =>
          join[t].pool <= pools /\ pool[s] # join[t].pool
    /\ \A t \in Tasks : phase[t] \in {"out", "in"} => join[t] = NoJoin

\* While a context is entered, its calls and the table agree.
EntryOfCalls ==
    \A c \in Calls : ~call[c].late =>
        /\ phase[call[c].ctx] # "out"
        /\ phase[call[c].ctx] = "in" => pool[call[c].ctx] = call[c].pool

Inv == TypeOK /\ PoolsApart /\ EntryOfCalls /\ OneThread /\ LeftIdle

Others(t) ==
    \/ Spawn(t) \/ Enter(t) \/ Leave(t) \/ LeaveElsewhere(t) \/ Joined(t) \/ CancelLeave(t)

-----------------------------------------------------------------------------
(* What a step does to the calls.                                           *)

\* What the types say of a call.
LEMMA CallTyped ==
    ASSUME TypeOK, NEW c \in Calls
    PROVE  /\ call[c] \in CallType /\ call[c].ctx \in Tasks
           /\ call[c].pool \in 1 .. MaxCalls /\ call[c].late \in BOOLEAN
<1>1. call \in Seq(CallType) /\ c \in DOMAIN call
  BY DEF TypeOK, Calls
<1>2. call[c] \in CallType
  BY <1>1
<1> QED
  BY <1>2 DEF CallType

\* The pool a new call is given, and the list of the calls with it.
LEMMA NewCall ==
    ASSUME TypeOK, PoolsApart, NEW t \in Tasks, Call(t)
    PROVE  \E e \in 1 .. MaxCalls, r \in CallType :
              /\ r.ctx = var[t] /\ r.pool = e /\ r.st = "queued"
              /\ r.late <=> phase[var[t]] # "in"
              /\ e = IF pool[var[t]] = 0 THEN pools + 1 ELSE pool[var[t]]
              /\ pool' = [pool EXCEPT ![var[t]] = e]
              /\ pools' = IF pool[var[t]] = 0 THEN e ELSE pools
              /\ call' \in Seq(CallType) /\ Len(call') = Len(call) + 1 /\ Len(call') <= MaxCalls
              /\ Calls' = Calls \union {Len(call')}
              /\ call'[Len(call')] = r
              /\ \A c \in Calls : call'[c] = call[c]
<1> DEFINE e == IF pool[var[t]] = 0 THEN pools + 1 ELSE pool[var[t]]
           r == [by |-> t, ctx |-> var[t], pool |-> e,
                 late |-> phase[var[t]] # "in", st |-> "queued"]
<1>1. /\ var[t] \in Tasks /\ Len(call) < MaxCalls
      /\ pool' = [pool EXCEPT ![var[t]] = e] /\ call' = Append(call, r)
      /\ pools' = IF pool[var[t]] = 0 THEN e ELSE pools
  BY DEF Call, Submit, TypeOK
<1>2. e \in 1 .. MaxCalls
  BY <1>1, ContextAssumption DEF TypeOK, PoolsApart
<1>3. r \in CallType
  BY <1>1, <1>2 DEF CallType
<1>4. /\ call' \in Seq(CallType) /\ Len(call') = Len(call) + 1
      /\ Calls' = Calls \union {Len(call')}
      /\ call'[Len(call')] = r
      /\ \A c \in Calls : call'[c] = call[c]
  BY <1>1, <1>3 DEF TypeOK, Calls
<1>5. Len(call') <= MaxCalls
  BY <1>1, <1>4, ContextAssumption DEF TypeOK
<1> QED
  BY <1>1, <1>2, <1>3, <1>4, <1>5

\* A step of a function changes where its call is, and no other call.
LEMMA CallMoves ==
    ASSUME TypeOK, NEW c \in Calls, NEW from, NEW to, Becomes(c, from, to),
           to \in {"running", "asking", "slot", "using", "answered", "done"}
    PROVE  /\ call' \in Seq(CallType) /\ Len(call') = Len(call) /\ Calls' = Calls
           /\ call[c].st = from /\ call'[c].st = to
           /\ \A d \in Calls : /\ call'[d].ctx = call[d].ctx /\ call'[d].pool = call[d].pool
                               /\ call'[d].late = call[d].late
                               /\ d # c => call'[d] = call[d]
<1>1. call \in Seq(CallType) /\ c \in 1 .. Len(call) /\ DOMAIN call = 1 .. Len(call)
  BY DEF TypeOK, Calls
<1>2. \A r \in CallType : [r EXCEPT !.st = to] \in CallType
  BY DEF CallType
<1>3. \A r \in CallType : LET s == [r EXCEPT !.st = to] IN
         s.st = to /\ s.ctx = r.ctx /\ s.pool = r.pool /\ s.late = r.late
  BY DEF CallType
<1>4. call[c] \in CallType
  BY <1>1
<1>5. call' = [call EXCEPT ![c] = [call[c] EXCEPT !.st = to]] /\ call[c].st = from
  BY DEF Becomes
<1>6. PICK s \in CallType : /\ call' = [call EXCEPT ![c] = s] /\ s.st = to
                            /\ s.ctx = call[c].ctx /\ s.pool = call[c].pool
                            /\ s.late = call[c].late
  BY <1>2, <1>3, <1>4, <1>5
<1> QED
  BY <1>1, <1>5, <1>6 DEF Calls

\* What a function's step may be: it starts, once all before it in its thread
\* have ended, or it goes on.
LEMMA FunctionSteps ==
    ASSUME NEW c \in Calls, Progress(c) \/ Ask(c)
    PROVE  \/ /\ Becomes(c, "queued", "running")
              /\ \A d \in Unfinished : d < c => call[d].pool # call[c].pool
           \/ \E from \in {"running", "asking", "slot", "using", "answered"},
                 to \in {"asking", "slot", "using", "answered", "done"} : Becomes(c, from, to)
BY DEF Progress, Ask, Start, Serve, TakeSlot, FreeSlot, Return

-----------------------------------------------------------------------------
(* The invariant, actor by actor.                                           *)

\* Steps of the tasks other than calls: they may empty an entry of the table,
\* and what they give to be joined was one.
LEMMA TaskKeeps ==
    ASSUME Inv, NEW t \in Tasks, Others(t)
    PROVE  Inv'
<1> USE DEF Inv
<1>1. call' = call /\ pools' = pools
  BY DEF Others, Spawn, Enter, Leave, LeaveElsewhere, Joined, CancelLeave
<1>2. /\ Calls' = Calls /\ Unfinished' = Unfinished
      /\ \A c \in Calls : call'[c] = call[c] /\ Occupies(c)' = Occupies(c)
      /\ \A e : Idle(e)' = Idle(e)
  BY <1>1 DEF Calls, Unfinished, Occupies, Idle
<1>3. CASE Spawn(t) \/ Enter(t)
  <2>1. /\ born' \subseteq Tasks
        /\ var' \in [Tasks -> Tasks \union {None}]
        /\ phase' \in [Tasks -> {"out", "in", "leaving", "left", "cancelled", "broken"}]
        /\ join' = join /\ pool' = pool
        /\ \A s \in Tasks : phase'[s] # phase[s] => phase[s] = "out" /\ phase'[s] = "in"
    BY <1>3 DEF TypeOK, Spawn, Enter, Active
  <2>2. TypeOK'          BY <1>1, <1>2, <2>1 DEF TypeOK
  <2>3. PoolsApart'      BY <1>1, <1>2, <2>1 DEF PoolsApart
  <2>4. EntryOfCalls'
    <3>1. \A c \in Calls : call[c].ctx \in Tasks  BY CallTyped
    <3> QED  BY <1>1, <1>2, <2>1, <3>1 DEF EntryOfCalls
  <2>5. OneThread'       BY <1>1, <1>2 DEF OneThread
  <2>6. LeftIdle'        BY <1>1, <1>2, <2>1 DEF LeftIdle, NoJoin
  <2> QED  BY <2>2, <2>3, <2>4, <2>5, <2>6
<1>4. CASE Leave(t) \/ LeaveElsewhere(t)
  <2>1. /\ born' \subseteq Tasks
        /\ var' \in [Tasks -> Tasks \union {None}]
        /\ phase' \in [Tasks -> {"out", "in", "leaving", "left", "cancelled", "broken"}]
        /\ phase[t] = "in" /\ phase'[t] \in {"leaving", "left", "broken"}
        /\ \A s \in Tasks : s # t => phase'[s] = phase[s]
        /\ pool' = [pool EXCEPT ![t] = 0]
    BY <1>4 DEF TypeOK, Leave, LeaveElsewhere, Active, Popped
  <2>8. pool' \in [Tasks -> 0 .. MaxCalls]
    BY <2>1, ContextAssumption DEF TypeOK
  <2>2. /\ join' \in [Tasks -> [pool : 1 .. MaxCalls, where : {"thread", "loop", "default"}]
                                  \union {NoJoin}]
        /\ \A s \in Tasks : s # t => join'[s] = join[s]
        /\ join'[t] # join[t] => pool[t] # 0 /\ join'[t].pool = pool[t]
    BY <1>4 DEF TypeOK, Leave, LeaveElsewhere, Active, JoinPlace
  <2>3. TypeOK'          BY <1>1, <1>2, <2>1, <2>2, <2>8 DEF TypeOK
  <2>4. PoolsApart'
    <3>1. \A s \in Tasks : pool'[s] = IF s = t THEN 0 ELSE pool[s]
      BY <2>1 DEF TypeOK
    <3>2. /\ pools' <= Len(call') /\ \A s \in Tasks : pool'[s] <= pools'
          /\ \A c \in Calls' : call'[c].pool <= pools'
          /\ \A r, s \in Tasks : r # s /\ pool'[r] # 0 => pool'[r] # pool'[s]
      <4>1. pools \in Nat /\ \A s \in Tasks : pool[s] \in Nat  BY DEF TypeOK
      <4> QED  BY <1>1, <1>2, <3>1, <4>1 DEF PoolsApart
    <3>4. \A s \in Tasks : phase'[s] \in {"out", "in"} => join'[s] = NoJoin
      BY <2>1, <2>2 DEF PoolsApart
    <3>3. ASSUME NEW r \in Tasks, NEW s \in Tasks, join'[s] # NoJoin
          PROVE  join'[s].pool <= pools' /\ pool'[r] # join'[s].pool
      <4>0. NoJoin' = NoJoin /\ join'[s].pool \in 1 .. MaxCalls
        BY <2>2, <3>3 DEF NoJoin
      <4>1. CASE join'[s] = join[s]
        BY <1>1, <3>1, <3>3, <4>0, <4>1 DEF PoolsApart, TypeOK
      <4>2. CASE join'[s] # join[s]
        BY <1>1, <2>2, <3>1, <4>0, <4>2 DEF PoolsApart, TypeOK
      <4> QED  BY <4>1, <4>2
    <3> QED  BY <3>2, <3>3, <3>4 DEF PoolsApart, NoJoin
  <2>5. EntryOfCalls'
    <3>1. \A c \in Calls : call[c].ctx \in Tasks  BY CallTyped
    <3> QED  BY <1>1, <1>2, <2>1, <3>1 DEF EntryOfCalls, TypeOK
  <2>6. OneThread'       BY <1>1, <1>2 DEF OneThread
  <2>7. LeftIdle'
    <3>1. ASSUME NEW s \in Tasks, phase'[s] = "left", join'[s] # NoJoin
          PROVE  Idle(join[s].pool)' /\ \A r \in Tasks : pool'[r] # join'[s].pool
      <4>1. \A r \in Tasks : pool'[r] # join'[s].pool
        BY <2>4, <3>1 DEF PoolsApart, NoJoin
      <4>2. CASE s # t
        BY <1>1, <1>2, <2>1, <2>2, <3>1, <4>1, <4>2 DEF LeftIdle, Idle, NoJoin
      <4>3. CASE s = t /\ pool[t] = 0
        <5>1. join'[t] = NoJoin  BY <2>1, <2>2, <4>3 DEF PoolsApart
        <5> QED  BY <3>1, <4>3, <5>1
      <4>4. CASE s = t /\ pool[t] # 0
        BY <1>4, <3>1, <4>4 DEF Leave, LeaveElsewhere, TypeOK
      <4> QED  BY <4>2, <4>3, <4>4
    <3> QED  BY <3>1 DEF LeftIdle, NoJoin
  <2> QED  BY <2>3, <2>4, <2>5, <2>6, <2>7
<1>5. CASE Joined(t) \/ CancelLeave(t)
  <2>1. /\ born' = born /\ var' = var /\ join' = join /\ pool' = pool
        /\ phase' \in [Tasks -> {"out", "in", "leaving", "left", "cancelled", "broken"}]
        /\ phase[t] = "leaving" /\ phase'[t] \in {"left", "cancelled"}
        /\ \A s \in Tasks : s # t => phase'[s] = phase[s]
    BY <1>5 DEF TypeOK, Joined, CancelLeave
  <2>2. TypeOK'          BY <1>1, <1>2, <2>1 DEF TypeOK
  <2>3. PoolsApart'      BY <1>1, <1>2, <2>1 DEF PoolsApart
  <2>4. EntryOfCalls'
    <3>1. \A c \in Calls : call[c].ctx \in Tasks  BY CallTyped
    <3> QED  BY <1>1, <1>2, <2>1, <3>1 DEF EntryOfCalls
  <2>5. OneThread'       BY <1>1, <1>2 DEF OneThread
  <2>6. LeftIdle'
    <3>1. phase'[t] = "left" => Idle(join[t].pool)
      BY <1>5 DEF Joined, CancelLeave, TypeOK
    <3> QED  BY <1>1, <1>2, <2>1, <3>1 DEF LeftIdle, PoolsApart, NoJoin, Idle
  <2> QED  BY <2>2, <2>3, <2>4, <2>5, <2>6
<1> QED  BY <1>3, <1>4, <1>5 DEF Others

\* A call gets the pool of its context, which its context's other calls have
\* got, or a pool that nobody has.
LEMMA CallKeeps ==
    ASSUME Inv, NEW t \in Tasks, Call(t)
    PROVE  Inv'
<1> USE DEF Inv
<1> DEFINE n == Len(call')
<1>1. /\ born' = born /\ var' = var /\ phase' = phase /\ join' = join
      /\ var[t] \in Tasks
  BY DEF Call, Submit, TypeOK
<1>2. PICK e \in 1 .. MaxCalls, r \in CallType :
         /\ r.ctx = var[t] /\ r.pool = e /\ r.st = "queued"
         /\ r.late <=> phase[var[t]] # "in"
         /\ e = IF pool[var[t]] = 0 THEN pools + 1 ELSE pool[var[t]]
         /\ pool' = [pool EXCEPT ![var[t]] = e]
         /\ pools' = IF pool[var[t]] = 0 THEN e ELSE pools
         /\ call' \in Seq(CallType) /\ n = Len(call) + 1 /\ n <= MaxCalls
         /\ Calls' = Calls \union {n}
         /\ call'[n] = r
         /\ \A c \in Calls : call'[c] = call[c]
  BY NewCall
<1>3. Len(call) \in Nat /\ Calls = 1 .. Len(call) /\ n \in Nat
  BY <1>2 DEF TypeOK, Calls
<1>4. /\ pools \in Nat /\ MaxCalls \in Nat
      /\ \A s \in Tasks : pool[s] \in Nat /\ pool'[s] = IF s = var[t] THEN e ELSE pool[s]
  BY <1>1, <1>2, ContextAssumption DEF TypeOK
<1>5. TypeOK'
  <2>1. pool' \in [Tasks -> 0 .. MaxCalls] /\ pools' \in 0 .. MaxCalls
    BY <1>1, <1>2, <1>4 DEF TypeOK
  <2>2. ASSUME NEW c \in Calls', NEW d \in Calls', c < d,
               call'[c].pool = call'[d].pool, Occupies(d)'
        PROVE  call'[c].st = "done"
    <3>1. d \in Calls  BY <1>2, <2>2 DEF Occupies
    <3>2. c \in Calls
      <4>1. c \in 1 .. n /\ d \in 1 .. Len(call) /\ n = Len(call) + 1
        BY <1>2, <1>3, <3>1
      <4> QED  BY <1>3, <2>2, <4>1
    <3>3. Occupies(d)   BY <1>2, <2>2, <3>1 DEF Occupies
    <3> QED  BY <1>2, <2>2, <3>1, <3>2, <3>3 DEF TypeOK
  <2> QED  BY <1>1, <1>2, <2>1, <2>2 DEF TypeOK
<1>6. PoolsApart'
  <2>1. pools' <= n /\ pools <= pools' /\ e <= pools'
    BY <1>2, <1>3, <1>4, <1>1 DEF PoolsApart
  <2>2. \A c \in Calls' : call'[c].pool <= pools'
    BY <1>2, <1>4, <2>1, CallTyped DEF PoolsApart
  <2>3. \A s \in Tasks : pool'[s] <= pools'
    BY <1>2, <1>4, <2>1 DEF PoolsApart
  <2>4. ASSUME NEW s \in Tasks, NEW u \in Tasks, s # u, pool'[s] # 0
        PROVE  pool'[s] # pool'[u]
    BY <1>1, <1>2, <1>4, <2>4 DEF PoolsApart
  <2>5. ASSUME NEW s \in Tasks, NEW u \in Tasks, join[u] # NoJoin
        PROVE  join[u].pool <= pools' /\ pool'[s] # join[u].pool
    <3>1. join[u].pool \in Nat /\ join[u].pool <= pools /\ pool[s] # join[u].pool
      BY <2>5 DEF PoolsApart, TypeOK
    <3> QED  BY <1>1, <1>2, <1>4, <2>1, <3>1
  <2> QED  BY <1>1, <2>1, <2>2, <2>3, <2>4, <2>5 DEF PoolsApart, NoJoin
<1>7. \A c \in Calls : ~call[c].late /\ phase[call[c].ctx] = "in" /\ call[c].ctx = var[t]
         => call[c].pool = e
  BY <1>2, <1>4, CallTyped DEF EntryOfCalls
<1>8. EntryOfCalls'
  <2>1. ASSUME NEW c \in Calls', ~call'[c].late
        PROVE  /\ phase[call'[c].ctx] # "out"
               /\ phase[call'[c].ctx] = "in" => pool'[call'[c].ctx] = call'[c].pool
    <3>1. CASE c = n  BY <1>1, <1>2, <1>4, <2>1, <3>1
    <3>2. CASE c \in Calls
      BY <1>2, <1>4, <1>7, <2>1, <3>2, CallTyped DEF EntryOfCalls
    <3> QED  BY <1>2, <3>1, <3>2
  <2> QED  BY <1>1, <2>1 DEF EntryOfCalls
<1>9. OneThread'
  <2>1. ASSUME NEW c \in Calls', NEW d \in Calls', call'[c].ctx = call'[d].ctx,
               ~call'[c].late, ~call'[d].late
        PROVE  call'[c].pool = call'[d].pool
    <3>1. CASE c \in Calls /\ d \in Calls  BY <1>2, <2>1, <3>1 DEF OneThread
    <3>2. CASE c = n \/ d = n               BY <1>2, <1>7, <2>1, <3>2
    <3> QED  BY <1>2, <3>1, <3>2
  <2> QED  BY <2>1 DEF OneThread
<1>10. LeftIdle'
  <2>1. ASSUME NEW s \in Tasks, phase[s] = "left", join[s] # NoJoin
        PROVE  \A c \in Unfinished' : call'[c].pool # join[s].pool
    <3>1. join[s].pool \in Nat /\ join[s].pool <= pools /\ pool[var[t]] # join[s].pool
      BY <1>1, <2>1 DEF PoolsApart, TypeOK
    <3>2. e # join[s].pool
      BY <1>2, <1>4, <3>1
    <3>3. \A c \in Unfinished : call[c].pool # join[s].pool
      BY <2>1 DEF LeftIdle, Idle
    <3> QED  BY <1>2, <3>2, <3>3 DEF Unfinished
  <2>2. \A s, u \in Tasks : join'[u] # NoJoin' => pool'[s] # join'[u].pool
    BY <1>6 DEF PoolsApart
  <2> QED  BY <1>1, <2>1, <2>2 DEF LeftIdle, Idle, NoJoin
<1> QED  BY <1>5, <1>6, <1>8, <1>9, <1>10

\* A step of a function does not move a call to another pool, starts it only
\* when the pool's thread is free, and finishes no call twice.
LEMMA FunctionKeeps ==
    ASSUME Inv, NEW c \in Calls, Progress(c) \/ Ask(c)
    PROVE  Inv'
<1> USE DEF Inv
<1>1. PICK from \in {"queued", "running", "asking", "slot", "using", "answered"},
           to \in {"running", "asking", "slot", "using", "answered", "done"} :
         /\ Becomes(c, from, to)
         /\ from = "queued" => \A d \in Unfinished : d < c => call[d].pool # call[c].pool
  BY FunctionSteps
<1>2. /\ call' \in Seq(CallType) /\ Len(call') = Len(call) /\ Calls' = Calls
      /\ call[c].st = from /\ call'[c].st = to
      /\ \A d \in Calls : /\ call'[d].ctx = call[d].ctx /\ call'[d].pool = call[d].pool
                          /\ call'[d].late = call[d].late
                          /\ d # c => call'[d] = call[d]
  BY <1>1, CallMoves
<1>3. /\ born' = born /\ var' = var /\ phase' = phase /\ join' = join
      /\ pool' = pool /\ pools' = pools
  BY <1>1 DEF Becomes
<1>4. Unfinished' \subseteq Unfinished
  BY <1>2 DEF Unfinished
<1>5. TypeOK'
  <2>1. ASSUME NEW a \in Calls, NEW d \in Calls, a < d,
               call'[a].pool = call'[d].pool, Occupies(d)'
        PROVE  call'[a].st = "done"
    <3>1. call[a].st = "done"
      <4>1. CASE Occupies(d)
        BY <1>2, <2>1, <4>1 DEF TypeOK
      <4>2. CASE ~Occupies(d)
        <5>1. d = c /\ from = "queued"
          BY <1>1, <1>2, <2>1, <4>2 DEF Occupies
        <5> QED  BY <1>1, <1>2, <2>1, <5>1 DEF Unfinished
      <4> QED  BY <4>1, <4>2
    <3>2. a # c
      BY <1>1, <1>2, <3>1
    <3> QED  BY <1>2, <3>1, <3>2
  <2> QED  BY <1>2, <1>3, <2>1 DEF TypeOK
<1>6. PoolsApart'    BY <1>2, <1>3 DEF PoolsApart, NoJoin
<1>7. EntryOfCalls'  BY <1>2, <1>3 DEF EntryOfCalls
<1>8. OneThread'     BY <1>2 DEF OneThread
<1>9. LeftIdle'
  <2>1. \A d \in Unfinished' : d \in Unfinished /\ call'[d].pool = call[d].pool
    BY <1>2, <1>4 DEF Unfinished
  <2> QED  BY <1>3, <2>1 DEF LeftIdle, Idle, NoJoin
<1> QED  BY <1>5, <1>6, <1>7, <1>8, <1>9

-----------------------------------------------------------------------------
\* All of it is an invariant.
LEMMA Invariant == Spec => []Inv
<1>1. Init => Inv
  <2> SUFFICES ASSUME Init PROVE Inv
    OBVIOUS
  <2>1. Calls = {} /\ call \in Seq(CallType) /\ Len(call) = 0
    BY DEF Init, Calls
  <2>2. TypeOK
    BY <2>1, ContextAssumption DEF Init, TypeOK
  <2> QED
    BY <2>1, <2>2 DEF Init, Inv, PoolsApart, EntryOfCalls, OneThread, LeftIdle
<1>2. Inv /\ [Next]_vars => Inv'
  <2> SUFFICES ASSUME Inv, [Next]_vars PROVE Inv'
    OBVIOUS
  <2>1. ASSUME NEW t \in Tasks, Others(t)           PROVE Inv'  BY <2>1, TaskKeeps
  <2>2. ASSUME NEW t \in Tasks, Call(t)             PROVE Inv'  BY <2>2, CallKeeps
  <2>3. ASSUME NEW c \in Calls, Progress(c) \/ Ask(c) PROVE Inv'  BY <2>3, FunctionKeeps
  <2>4. CASE UNCHANGED vars
    BY <2>4 DEF vars, Inv, TypeOK, PoolsApart, EntryOfCalls, OneThread, LeftIdle,
                Calls, Unfinished, Occupies, Idle, NoJoin
  <2> QED  BY <2>1, <2>2, <2>3, <2>4 DEF Next, Others
<1> QED  BY <1>1, <1>2, PTL DEF Spec

\* A pool's thread runs one function at a time, in the order of the calls, and
\* everything keeps its type.
THEOREM TypeCorrect == Spec => []TypeOK
BY Invariant, PTL DEF Inv

\* The thread-sensitive calls of a context that is entered share one thread,
\* whatever tasks make them and whenever the pool is made.
THEOREM ContextHasOneThread == Spec => []OneThread
BY Invariant, PTL DEF Inv

\* A context that was left, and whose exit was not cancelled, has left no work
\* behind, and its thread is never used again.
THEOREM ExitLeavesNothing == Spec => []LeftIdle
BY Invariant, PTL DEF Inv
=============================================================================
