-------------------------- MODULE AsyncBridgeProofs --------------------------
(***************************************************************************)
(* The safety of AsyncBridge, for programs of any number of frames.         *)
(***************************************************************************)
EXTENDS AsyncBridge, FiniteSetTheorems, WellFoundedInduction, TLAPS

-----------------------------------------------------------------------------
(* Facts about frames                                                       *)

Typed ==
    /\ frame \in Seq(FrameType) /\ Len(frame) \in 1 .. MaxFrames
    /\ tl \in [Threads -> 0 .. MaxFrames]

By(f) == frame[f].parent

\* The coroutines of AsyncToSync calls; executors are named after them.
Executors == {e \in Frames : frame[e].via \in {"a2s", "force"}}

\* A frame comes after the one it was called from, an executor after the one
\* below it.
Ordered ==
    /\ Len(frame) \in Nat
    /\ \A f \in Frames : By(f) \in 0 .. f - 1
    /\ \A e \in Frames : frame[e].old \in 0 .. e - 1

\* What Lineage and StillRunning compute.
LineageDefined ==
    /\ Lineage[None] = {}
    /\ \A x \in Frames : Lineage[x] = {x} \union Lineage[By(x)]

RunningDefined ==
    /\ StillRunning[None] = None
    /\ \A e \in Frames :
          StillRunning[e] = IF Broken(e) THEN StillRunning[frame[e].old] ELSE e

-----------------------------------------------------------------------------
(* Numbers                                                                  *)

\* A set of numbers that is not empty has a least one.
LEMMA LeastNumber ==
    ASSUME NEW S \in SUBSET Nat, S # {}
    PROVE  \E m \in S : \A n \in S : m <= n
<1> DEFINE R == OpToRel(<, Nat)
<1>1. PICK m \in S : \A n \in S : ~ (<<n, m>> \in R)
  BY NatLessThanWellFounded, WFMin
<1>2. \A n \in S : ~ (n < m)
  BY <1>1 DEF OpToRel
<1> QED
  BY <1>2

\* Frames are numbered from 1.
LEMMA FramesNumbered == ASSUME Ordered PROVE Frames = 1 .. Len(frame)
  BY DEF Ordered, Frames

-----------------------------------------------------------------------------
(* The recursive definitions                                                *)

\* g is the recursion from the numbers up to n, each going down to a smaller
\* one, by step from base.
Descends(n, down) == down \in [1 .. n -> Nat] /\ \A x \in 1 .. n : down[x] < x

Steps(n, V, base, step) == base \in V /\ step \in [(1 .. n) \X V -> V]

Recurs(n, V, g, down, base, step) ==
    /\ g \in [0 .. n -> V] /\ g[0] = base
    /\ \A x \in 1 .. n : g[x] = step[<<x, g[down[x]]>>]

\* Such a recursion exists: it does up to every k, by induction.
LEMMA Recursion ==
    ASSUME NEW n \in Nat, NEW down, Descends(n, down),
           NEW V, NEW base, NEW step, Steps(n, V, base, step)
    PROVE  \E g : Recurs(n, V, g, down, base, step)
<1> USE DEF Descends, Steps
<1> DEFINE Solves(k, g) ==
              /\ g \in [0 .. k -> V] /\ g[0] = base
              /\ \A x \in 1 .. k : g[x] = step[<<x, g[down[x]]>>]
           Lacking == {k \in 0 .. n : ~ \E g : Solves(k, g)}
<1>1. \E g : Solves(0, g)
  <2>1. Solves(0, [x \in 0 .. 0 |-> base])
    OBVIOUS
  <2> QED
    BY <2>1
<1>2. ASSUME NEW k \in 1 .. n, NEW g, Solves(k - 1, g)
      PROVE  \E h : Solves(k, h)
  <2> DEFINE h == [x \in 0 .. k |-> IF x = k THEN step[<<k, g[down[k]]>>] ELSE g[x]]
  <2>1. down[k] \in 0 .. k - 1 /\ g[down[k]] \in V
    BY <1>2
  <2>2. step[<<k, g[down[k]]>>] \in V
    BY <2>1
  <2>3. h \in [0 .. k -> V] /\ h[0] = base
    <3>1. ASSUME NEW x \in 0 .. k PROVE h[x] \in V
      <4>1. x = k \/ x \in 0 .. k - 1
        OBVIOUS
      <4> QED
        BY <1>2, <2>2, <4>1
    <3>2. 0 \in 0 .. k /\ 0 # k
      OBVIOUS
    <3> QED
      BY <1>2, <3>1, <3>2
  <2>4. ASSUME NEW x \in 1 .. k PROVE h[x] = step[<<x, h[down[x]]>>]
    <3>1. down[x] \in 0 .. k - 1
      OBVIOUS
    <3>2. h[down[x]] = g[down[x]]
      BY <3>1
    <3>3. CASE x = k
      <4>1. h[k] = step[<<k, g[down[k]]>>]
        OBVIOUS
      <4> QED
        BY <3>2, <3>3, <4>1
    <3>4. CASE x # k
      <4>1. x \in 1 .. k - 1
        BY <3>4
      <4> QED
        BY <1>2, <3>2, <4>1
    <3> QED
      BY <3>3, <3>4
  <2>5. Solves(k, h)
    BY <2>3, <2>4
  <2> QED
    BY <2>5
<1> HIDE DEF Solves
<1>3. Lacking = {}
  <2> SUFFICES ASSUME Lacking # {} PROVE FALSE
    OBVIOUS
  <2>1. PICK k \in Lacking : \A j \in Lacking : k <= j
    <3>1. Lacking \in SUBSET Nat
      OBVIOUS
    <3> QED
      BY <3>1, LeastNumber
  <2>2. k \in 1 .. n
    BY <1>1
  <2>3. k - 1 \in 0 .. n /\ ~ k <= k - 1
    BY <2>2
  <2>4. k - 1 \notin Lacking
    BY <2>1, <2>3
  <2> QED
    BY <1>2, <2>2, <2>3, <2>4
<1>4. PICK g : Solves(n, g)
  <2>1. n \in 0 .. n
    OBVIOUS
  <2>2. n \notin Lacking
    BY <1>3
  <2> QED
    BY <2>1, <2>2
<1> QED
  BY <1>4 DEF Solves, Recurs

LEMMA LineageUnfolds == Ordered => LineageDefined
<1> SUFFICES ASSUME Ordered PROVE LineageDefined
  OBVIOUS
<1> DEFINE n == Len(frame)
           down == [x \in 1 .. n |-> By(x)]
           step == [p \in (1 .. n) \X SUBSET Nat |-> {p[1]} \union p[2]]
<1>1. n \in Nat /\ Frames = 1 .. n /\ \A x \in 1 .. n : By(x) \in 0 .. x - 1
  BY FramesNumbered DEF Ordered
<1>2. \E g : g = [x \in 0 .. n |-> IF x = 0 THEN {} ELSE {x} \union g[frame[x].parent]]
  <2>1. down \in [1 .. n -> Nat] /\ \A x \in 1 .. n : down[x] < x
    BY <1>1
  <2> DEFINE V == SUBSET Nat
             base == {}
  <2>2. step \in [(1 .. n) \X V -> V] /\ base \in V
    BY <1>1
  <2>3. Descends(n, down) /\ Steps(n, V, base, step)
    BY <2>1, <2>2 DEF Descends, Steps
  <2>4. PICK g : Recurs(n, V, g, down, base, step)
    <3> HIDE DEF step, down, n, V, base
    <3> QED
      BY <1>1, <2>3, Recursion
  <2>5. ASSUME NEW x \in 1 .. n PROVE g[x] = {x} \union g[frame[x].parent]
    <3>1. down[x] \in 0 .. n /\ g[down[x]] \in V
      BY <1>1, <2>1, <2>4 DEF Recurs
    <3>2. step[<<x, g[down[x]]>>] = {x} \union g[down[x]]
      BY <3>1
    <3> QED
      BY <2>4, <3>2 DEF By, Recurs
  <2>6. g = [x \in 0 .. n |-> IF x = 0 THEN {} ELSE {x} \union g[frame[x].parent]]
    <3>1. \A x \in 0 .. n : x # 0 => x \in 1 .. n
      BY <1>1
    <3> HIDE DEF n
    <3> QED
      BY <2>4, <2>5, <3>1 DEF Recurs
  <2> QED
    BY <2>6
<1>3. Lineage = [x \in 0 .. n |-> IF x = 0 THEN {} ELSE {x} \union Lineage[frame[x].parent]]
  BY <1>2, Zenon DEF Lineage, None
<1> QED
  BY <1>1, <1>3 DEF LineageDefined, By, None

LEMMA RunningUnfolds == Ordered => RunningDefined
<1> SUFFICES ASSUME Ordered PROVE RunningDefined
  OBVIOUS
<1> DEFINE n == Len(frame)
           down == [x \in 1 .. n |-> frame[x].old]
           step == [p \in (1 .. n) \X Nat |-> IF Broken(p[1]) THEN p[2] ELSE p[1]]
<1>1. n \in Nat /\ Frames = 1 .. n /\ \A x \in 1 .. n : frame[x].old \in 0 .. x - 1
  BY FramesNumbered DEF Ordered
<1>2. \E g : g = [e \in 0 .. n |-> IF e = 0 THEN 0
                                   ELSE IF Broken(e) THEN g[frame[e].old] ELSE e]
  <2>1. down \in [1 .. n -> Nat] /\ \A x \in 1 .. n : down[x] < x
    BY <1>1
  <2>2. step \in [(1 .. n) \X Nat -> Nat]
    BY <1>1
  <2>3. Descends(n, down) /\ Steps(n, Nat, 0, step)
    BY <2>1, <2>2 DEF Descends, Steps
  <2>4. PICK g : Recurs(n, Nat, g, down, 0, step)
    <3> HIDE DEF step, down, n
    <3> QED
      BY <1>1, <2>3, Recursion
  <2>5. ASSUME NEW x \in 1 .. n
        PROVE  g[x] = IF Broken(x) THEN g[frame[x].old] ELSE x
    <3>1. down[x] \in 0 .. n /\ g[down[x]] \in Nat
      BY <1>1, <2>1, <2>4 DEF Recurs
    <3>2. step[<<x, g[down[x]]>>] = IF Broken(x) THEN g[down[x]] ELSE x
      BY <3>1
    <3> QED
      BY <2>4, <3>2 DEF Recurs
  <2>6. g = [e \in 0 .. n |-> IF e = 0 THEN 0
                              ELSE IF Broken(e) THEN g[frame[e].old] ELSE e]
    <3>1. \A x \in 0 .. n : x # 0 => x \in 1 .. n
      BY <1>1
    <3> HIDE DEF n
    <3> QED
      BY <2>4, <2>5, <3>1 DEF Recurs
  <2> QED
    BY <2>6
<1>3. StillRunning = [e \in 0 .. n |-> IF e = 0 THEN 0
                         ELSE IF Broken(e) THEN StillRunning[frame[e].old] ELSE e]
  BY <1>2, Zenon DEF StillRunning, None
<1> QED
  BY <1>1, <1>3 DEF RunningDefined, None

-----------------------------------------------------------------------------
(* Lineages                                                                 *)

\* A lineage holds frames, none after the first; it contains the lineage of
\* each of its members.
LineageClosed ==
    \A x \in Frames : /\ x \in Lineage[x] /\ Lineage[x] \subseteq 1 .. x
                      /\ \A y \in Lineage[x] : Lineage[y] \subseteq Lineage[x]

LEMMA LineageIsClosed == Ordered => LineageClosed
<1> SUFFICES ASSUME Ordered PROVE LineageClosed
  OBVIOUS
<1>1. Frames = 1 .. Len(frame) /\ LineageDefined
  BY FramesNumbered, LineageUnfolds
<1> DEFINE Good(x) == /\ x \in Lineage[x] /\ Lineage[x] \subseteq 1 .. x
                      /\ \A y \in Lineage[x] : Lineage[y] \subseteq Lineage[x]
           Bad == {x \in Frames : ~ Good(x)}
<1>2. ASSUME NEW x \in Frames, \A y \in 1 .. x - 1 : Good(y)
      PROVE  Good(x)
  <2>1. By(x) = 0 \/ By(x) \in 1 .. x - 1
    BY DEF Ordered
  <2>2. Lineage[x] = {x} \union Lineage[By(x)]
    BY <1>1 DEF LineageDefined
  <2>3. CASE By(x) = 0
    BY <1>1, <2>2, <2>3 DEF LineageDefined, None
  <2>4. CASE By(x) \in 1 .. x - 1
    BY <1>1, <1>2, <2>2, <2>4
  <2> QED
    BY <2>1, <2>3, <2>4
<1>3. Bad = {}
  <2> SUFFICES ASSUME Bad # {} PROVE FALSE
    OBVIOUS
  <2>1. PICK x \in Bad : \A y \in Bad : x <= y
    <3>1. Bad \in SUBSET Nat
      BY <1>1
    <3> QED
      BY <3>1, LeastNumber
  <2>2. \A y \in 1 .. x - 1 : y \in Frames /\ ~ x <= y
    BY <1>1
  <2> HIDE DEF Good
  <2>3. \A y \in 1 .. x - 1 : Good(y)
    BY <2>1, <2>2
  <2> QED
    BY <1>2, <2>3
<1> QED
  BY <1>3 DEF LineageClosed

\* As frames are added, the lineages of the others stay as they are.
LEMMA LineageKept ==
    ASSUME Ordered, Ordered', Frames \subseteq Frames',
           \A f \in Frames : frame'[f].parent = frame[f].parent
    PROVE  \A x \in {None} \union Frames : Lineage'[x] = Lineage[x]
<1>1. Frames = 1 .. Len(frame) /\ LineageDefined /\ LineageDefined'
  <2>1. Ordered' => LineageDefined'
    BY LineageUnfolds, PTL
  <2> QED
    BY <2>1, FramesNumbered, LineageUnfolds
<1> DEFINE Bad == {x \in Frames : Lineage'[x] # Lineage[x]}
<1>2. ASSUME NEW x \in Frames, \A y \in 1 .. x - 1 : Lineage'[y] = Lineage[y]
      PROVE  Lineage'[x] = Lineage[x]
  <2>1. By(x) = 0 \/ By(x) \in 1 .. x - 1
    BY DEF Ordered
  <2>2. Lineage[x] = {x} \union Lineage[By(x)] /\ Lineage'[x] = {x} \union Lineage'[By(x)]
    BY <1>1 DEF LineageDefined, By
  <2>3. Lineage[0] = Lineage'[0]
    BY <1>1 DEF LineageDefined, None
  <2> QED
    BY <1>2, <2>1, <2>2, <2>3
<1>3. Bad = {}
  <2> SUFFICES ASSUME Bad # {} PROVE FALSE
    OBVIOUS
  <2>1. PICK x \in Bad : \A y \in Bad : x <= y
    <3>1. Bad \in SUBSET Nat
      BY <1>1
    <3> QED
      BY <3>1, LeastNumber
  <2>2. \A y \in 1 .. x - 1 : y \in Frames /\ ~ x <= y
    BY <1>1
  <2>3. \A y \in 1 .. x - 1 : Lineage'[y] = Lineage[y]
    BY <2>1, <2>2
  <2> QED
    BY <1>2, <2>3
<1> QED
  BY <1>1, <1>3 DEF LineageDefined, None

-----------------------------------------------------------------------------
(* What each action does to the frames                                      *)

\* What a frame is born with, it keeps.
Kept ==
    /\ Frames \subseteq Frames'
    /\ \A g \in Frames :
          /\ frame'[g].kind = frame[g].kind /\ frame'[g].via = frame[g].via
          /\ frame'[g].parent = frame[g].parent /\ frame'[g].loop = frame[g].loop
          /\ frame'[g].exec = frame[g].exec /\ frame'[g].old = frame[g].old
          /\ frame'[g].one = frame[g].one

\* The frames outside S do not change.
Steady(S) ==
    \A g \in Frames \ S :
       /\ frame'[g].state = frame[g].state /\ frame'[g].cur = frame[g].cur
       /\ frame'[g].dl = frame[g].dl /\ frame'[g].thread = frame[g].thread

Grows == Frames' = Frames \union {New} /\ New \in 1 .. MaxFrames /\ New \notin Frames
Stays == Frames' = Frames

\* f is now in the state s, its context in the executor c, marked d.
Becomes(f, s, c, d) ==
    frame'[f].state = s /\ frame'[f].cur = c /\ frame'[f].dl = d

SameThread(f) == frame'[f].thread = frame[f].thread

LEMMA NumbersTyped ==
    /\ MaxFrames \in Nat \ {0} /\ Single \in Nat /\ Single > MaxFrames
    /\ Main \in Threads /\ Single \in Threads /\ None \in 0 .. MaxFrames
    /\ 0 .. MaxFrames \subseteq Threads
  BY BridgeAssumption DEF Single, Main, None, Threads

LEMMA FramesTyped ==
    ASSUME Typed
    PROVE  /\ Len(frame) \in Nat /\ Frames = 1 .. Len(frame) /\ Frames \subseteq 1 .. MaxFrames
           /\ 1 \in Frames
           /\ \A f \in Frames : frame[f] \in FrameType
<1>1. Len(frame) \in Nat /\ frame \in [1 .. Len(frame) -> FrameType]
  BY DEF Typed
<1>2. Len(frame) \in 1 .. MaxFrames
  BY DEF Typed
<1> QED
  BY <1>1, <1>2, NumbersTyped DEF Frames

\* What the parts of a frame may be.
LEMMA PartsTyped ==
    ASSUME NEW r \in FrameType
    PROVE  /\ r.kind \in {"sync", "async"} /\ r.via \in Vias /\ r.parent \in 0 .. MaxFrames
           /\ r.loop \in 0 .. MaxFrames /\ r.thread \in Threads
           /\ r.exec \in 0 .. MaxFrames + 1 /\ r.old \in 0 .. MaxFrames
           /\ r.cur \in 0 .. MaxFrames /\ r.dl \in BOOLEAN /\ r.one \in BOOLEAN
           /\ r.state \in States
  BY DEF FrameType

\* A frame in another state, its context and its thread changed.
Turned(r, s, c, d, t) == [r EXCEPT !.state = s, !.cur = c, !.dl = d, !.thread = t]

LEMMA TurnedTyped ==
    ASSUME NEW r \in FrameType, NEW s \in States, NEW c \in 0 .. MaxFrames,
           NEW d \in BOOLEAN, NEW t \in Threads
    PROVE  /\ Turned(r, s, c, d, t) \in FrameType
           /\ Turned(r, s, c, d, t).state = s /\ Turned(r, s, c, d, t).cur = c
           /\ Turned(r, s, c, d, t).dl = d /\ Turned(r, s, c, d, t).thread = t
           /\ Turned(r, s, c, d, t).kind = r.kind /\ Turned(r, s, c, d, t).via = r.via
           /\ Turned(r, s, c, d, t).parent = r.parent /\ Turned(r, s, c, d, t).loop = r.loop
           /\ Turned(r, s, c, d, t).exec = r.exec /\ Turned(r, s, c, d, t).old = r.old
           /\ Turned(r, s, c, d, t).one = r.one
  BY DEF FrameType, Turned

\* One frame turns, or two, or one and a new one is added.
Turn(f, s, c, d, t) == [frame EXCEPT ![f] = Turned(frame[f], s, c, d, t)]

TurnsWell(f, s, c, d, t) ==
    /\ f \in Frames /\ s \in States /\ c \in 0 .. MaxFrames /\ d \in BOOLEAN /\ t \in Threads

LEMMA Finite ==
    ASSUME NEW T, NEW n \in Nat, NEW q \in [1 .. n -> T]
    PROVE  q \in Seq(T) /\ Len(q) = n
  OBVIOUS

LEMMA Turning ==
    ASSUME Typed, NEW f, NEW s, NEW c, NEW d, NEW t, TurnsWell(f, s, c, d, t)
    PROVE  /\ Turn(f, s, c, d, t) \in Seq(FrameType)
           /\ Len(Turn(f, s, c, d, t)) = Len(frame)
           /\ Turn(f, s, c, d, t) \in [1 .. Len(frame) -> FrameType]
           /\ Turn(f, s, c, d, t)[f] = Turned(frame[f], s, c, d, t)
           /\ \A g \in Frames \ {f} : Turn(f, s, c, d, t)[g] = frame[g]
<1> DEFINE old == Turn(f, s, c, d, t)
<1>1. /\ Len(frame) \in Nat /\ Frames = 1 .. Len(frame) /\ frame[f] \in FrameType
      /\ frame \in [1 .. Len(frame) -> FrameType]
  BY FramesTyped DEF Typed, TurnsWell
<1>2. Turned(frame[f], s, c, d, t) \in FrameType
  BY <1>1, TurnedTyped DEF TurnsWell
<1>3. old \in [1 .. Len(frame) -> FrameType]
  BY <1>1, <1>2 DEF Turn
<1>4. old[f] = Turned(frame[f], s, c, d, t) /\ \A g \in Frames \ {f} : old[g] = frame[g]
  BY <1>1 DEF Turn, TurnsWell
<1> QED
  BY <1>1, <1>3, <1>4

LEMMA OneTurns ==
    ASSUME Typed, NEW f, NEW s, NEW c, NEW d, NEW t, TurnsWell(f, s, c, d, t),
           frame' = Turn(f, s, c, d, t), tl' \in [Threads -> 0 .. MaxFrames]
    PROVE  /\ Kept /\ Stays /\ Steady({f}) /\ Typed'
           /\ Becomes(f, s, c, d) /\ frame'[f].thread = t
<1>1. /\ frame' \in Seq(FrameType) /\ Len(frame') = Len(frame)
      /\ frame'[f] = Turned(frame[f], s, c, d, t)
      /\ \A g \in Frames \ {f} : frame'[g] = frame[g]
  BY Turning
<1>2. /\ Len(frame) \in Nat /\ Frames = 1 .. Len(frame) /\ frame[f] \in FrameType
  BY FramesTyped DEF TurnsWell
<1>3. Stays
  BY <1>1, <1>2 DEF Stays, Frames
<1>4. Typed'
  BY <1>1 DEF Typed
<1>5. Becomes(f, s, c, d) /\ frame'[f].thread = t
  BY <1>1, <1>2, TurnedTyped DEF Becomes, TurnsWell
<1>6. Steady({f})
  BY <1>1 DEF Steady
<1>7. Kept
  BY <1>1, <1>2, <1>3, TurnedTyped DEF Kept, TurnsWell, Stays
<1> QED
  BY <1>3, <1>4, <1>5, <1>6, <1>7

LEMMA TwoTurn ==
    ASSUME Typed, NEW f, NEW s, NEW c, NEW d, NEW t, TurnsWell(f, s, c, d, t),
           NEW g \in Frames \ {f}, frame[g].state \in States,
           frame' = [Turn(f, s, c, d, t) EXCEPT
                        ![g] = Turned(frame[g], "done", frame[g].cur, frame[g].dl,
                                      frame[g].thread)],
           tl' = tl
    PROVE  /\ Kept /\ Stays /\ Steady({f, g}) /\ Typed'
           /\ Becomes(f, s, c, d) /\ frame'[f].thread = t
           /\ Becomes(g, "done", frame[g].cur, frame[g].dl) /\ SameThread(g)
<1> DEFINE old == Turn(f, s, c, d, t)
           r == Turned(frame[g], "done", frame[g].cur, frame[g].dl, frame[g].thread)
<1>1. /\ old \in Seq(FrameType) /\ Len(old) = Len(frame)
      /\ old[f] = Turned(frame[f], s, c, d, t)
      /\ \A h \in Frames \ {f} : old[h] = frame[h]
  BY Turning
<1>2. /\ Len(frame) \in Nat /\ Frames = 1 .. Len(frame)
      /\ frame[f] \in FrameType /\ frame[g] \in FrameType
  BY FramesTyped DEF TurnsWell
<1>3. /\ frame[g].cur \in 0 .. MaxFrames /\ frame[g].dl \in BOOLEAN
      /\ frame[g].thread \in Threads /\ "done" \in States
  BY <1>2, PartsTyped DEF States
<1>4. r \in FrameType
  BY <1>2, <1>3, TurnedTyped
<1>5. /\ frame' \in Seq(FrameType) /\ Len(frame') = Len(frame) /\ frame'[g] = r
      /\ frame'[f] = Turned(frame[f], s, c, d, t)
      /\ \A h \in Frames \ {f, g} : frame'[h] = frame[h]
  <2>1. frame' = [old EXCEPT ![g] = r] /\ f \in Frames
    BY DEF TurnsWell
  <2>2. old \in [1 .. Len(frame) -> FrameType]
    BY Turning
  <2> HIDE DEF old, r
  <2>3. frame' \in [1 .. Len(frame) -> FrameType]
    BY <1>2, <1>4, <2>1, <2>2
  <2>6. frame' \in Seq(FrameType) /\ Len(frame') = Len(frame)
    <3>1. \A q \in [1 .. Len(frame) -> FrameType] : q \in Seq(FrameType) /\ Len(q) = Len(frame)
      BY <1>2, Finite
    <3> QED
      BY <2>3, <3>1
  <2>4. \A h \in Frames \ {f, g} : frame'[h] = frame[h]
    BY <1>1, <1>2, <2>1, <2>2
  <2>5. frame'[g] = r /\ frame'[f] = old[f]
    BY <1>2, <2>1, <2>2
  <2> QED
    BY <1>1, <2>4, <2>5, <2>6
<1>6. Stays
  BY <1>2, <1>5 DEF Stays, Frames
<1>7. Typed'
  BY <1>5 DEF Typed
<1>8. Becomes(f, s, c, d) /\ frame'[f].thread = t
  BY <1>2, <1>5, TurnedTyped DEF Becomes, TurnsWell
<1>9. Becomes(g, "done", frame[g].cur, frame[g].dl) /\ SameThread(g)
  BY <1>2, <1>3, <1>5, TurnedTyped DEF Becomes, SameThread
<1>10. Steady({f, g})
  BY <1>5 DEF Steady
<1>11. Kept
  <2> DEFINE Same(h) ==
                /\ frame'[h].kind = frame[h].kind /\ frame'[h].via = frame[h].via
                /\ frame'[h].parent = frame[h].parent /\ frame'[h].loop = frame[h].loop
                /\ frame'[h].exec = frame[h].exec /\ frame'[h].old = frame[h].old
                /\ frame'[h].one = frame[h].one
  <2>1. Same(f)
    BY <1>2, <1>5, TurnedTyped DEF TurnsWell
  <2>2. Same(g)
    BY <1>2, <1>3, <1>5, TurnedTyped
  <2>3. \A h \in Frames \ {f, g} : Same(h)
    BY <1>5
  <2> HIDE DEF Same
  <2>4. \A h \in Frames : Same(h)
    BY <2>1, <2>2, <2>3
  <2> QED
    BY <1>6, <2>4 DEF Kept, Stays, Same
<1> QED
  BY <1>6, <1>7, <1>8, <1>9, <1>10, <1>11

LEMMA OneMore ==
    ASSUME Typed, New <= MaxFrames, NEW f, NEW s, NEW c, NEW d, NEW t,
           TurnsWell(f, s, c, d, t),
           NEW child \in FrameType, frame' = Append(Turn(f, s, c, d, t), child), tl' = tl
    PROVE  /\ Kept /\ Grows /\ Steady({f}) /\ Typed'
           /\ Becomes(f, s, c, d) /\ frame'[f].thread = t
           /\ frame'[New] = child
<1> DEFINE old == Turn(f, s, c, d, t)
<1>1. /\ old \in Seq(FrameType) /\ Len(old) = Len(frame)
      /\ old[f] = Turned(frame[f], s, c, d, t)
      /\ \A g \in Frames \ {f} : old[g] = frame[g]
  BY Turning
<1>2. /\ Len(frame) \in Nat /\ Frames = 1 .. Len(frame) /\ frame[f] \in FrameType
      /\ MaxFrames \in Nat
  BY FramesTyped, NumbersTyped DEF TurnsWell
<1>3. Len(frame') = New /\ frame' \in Seq(FrameType) /\ DOMAIN frame' = 1 .. New
  BY <1>1, <1>2 DEF New
<1>4. frame'[New] = child /\ \A g \in Frames : frame'[g] = old[g]
  BY <1>1, <1>2 DEF New
<1>5. Grows /\ Typed'
  BY <1>2, <1>3 DEF Grows, Typed, New, Frames
<1>6. Becomes(f, s, c, d) /\ frame'[f].thread = t
  BY <1>1, <1>2, <1>4, TurnedTyped DEF Becomes, TurnsWell
<1>7. Steady({f})
  BY <1>1, <1>4 DEF Steady
<1>8. Kept
  BY <1>1, <1>2, <1>4, <1>5, TurnedTyped DEF Kept, TurnsWell, Grows
<1> QED
  BY <1>4, <1>5, <1>6, <1>7, <1>8

LEMMA BlankTyped == Blank \in FrameType
<1>1. /\ "sync" \in {"sync", "async"} /\ "outer" \in Vias /\ "running" \in States
      /\ 0 \in 0 .. MaxFrames + 1
  BY NumbersTyped DEF Vias, States
<1> QED
  BY <1>1, NumbersTyped DEF Blank, FrameType, None

LEMMA CallAsyncDoes ==
    ASSUME Typed, NEW f \in Frames, NEW via \in {"a2s", "force"}, CallAsync(f, via)
    PROVE  /\ Kept /\ Grows /\ Steady({f}) /\ tl' = tl /\ Typed'
           /\ frame[f].kind = "sync" /\ frame[f].state = "running"
           /\ Becomes(f, "blocked", New, frame[f].dl) /\ SameThread(f)
           /\ frame'[New].kind = "async" /\ frame'[New].via = via
           /\ frame'[New].parent = f
           /\ frame'[New].loop = IF MainLoop(f, via) = None THEN New ELSE MainLoop(f, via)
           /\ frame'[New].exec = None /\ frame'[New].old = frame[f].cur
           /\ frame'[New].cur = New /\ frame'[New].dl = frame[f].dl
           /\ frame'[New].state \in {"running", "waiting"}
<1> DEFINE main == MainLoop(f, via)
           loop == IF main = None THEN New ELSE main
           state == IF main = None /\ frame[f].one THEN "waiting" ELSE "running"
           child == [Blank EXCEPT
                        !.kind = "async", !.via = via, !.parent = f, !.loop = loop,
                        !.old = frame[f].cur, !.cur = New, !.dl = frame[f].dl,
                        !.one = frame[f].one, !.state = state]
<1>1. New <= MaxFrames /\ frame[f].kind = "sync" /\ frame[f].state = "running" /\ tl' = tl
  BY DEF CallAsync
<1>2. /\ Frames = 1 .. Len(frame) /\ Len(frame) \in Nat /\ Frames \subseteq 1 .. MaxFrames
      /\ frame[f] \in FrameType /\ New \in 1 .. MaxFrames
  BY <1>1, FramesTyped, NumbersTyped DEF New
<1>3. main \in 0 .. MaxFrames
  BY <1>2, PartsTyped, NumbersTyped DEF MainLoop, Typed
<1>4. child \in FrameType
  <2>1. loop \in 0 .. MaxFrames /\ state \in States /\ via \in Vias
    BY <1>2, <1>3 DEF States, Vias
  <2>2. /\ frame[f].cur \in 0 .. MaxFrames /\ frame[f].dl \in BOOLEAN
        /\ frame[f].one \in BOOLEAN /\ f \in 0 .. MaxFrames /\ New \in 0 .. MaxFrames
    BY <1>2, PartsTyped, NumbersTyped
  <2> HIDE DEF loop, state
  <2> QED
    BY <1>2, <2>1, <2>2, BlankTyped DEF FrameType
<1>5. frame' = Append(Turn(f, "blocked", New, frame[f].dl, frame[f].thread), child)
  <2>1. [frame EXCEPT ![f].state = "blocked", ![f].cur = New]
          = Turn(f, "blocked", New, frame[f].dl, frame[f].thread)
    BY <1>2 DEF Turn, Turned, FrameType
  <2>2. Blank.state = "running"
    BY DEF Blank
  <2> QED
    BY <2>1, <2>2 DEF CallAsync
<1>6. TurnsWell(f, "blocked", New, frame[f].dl, frame[f].thread)
  BY <1>2, PartsTyped DEF TurnsWell, States
<1>7. /\ Kept /\ Grows /\ Steady({f}) /\ Typed' /\ frame'[New] = child
      /\ Becomes(f, "blocked", New, frame[f].dl) /\ SameThread(f)
  <2> HIDE DEF child
  <2>1. /\ Kept /\ Grows /\ Steady({f}) /\ Typed'
        /\ Becomes(f, "blocked", New, frame[f].dl) /\ frame'[f].thread = frame[f].thread
        /\ frame'[New] = child
    <3> DEFINE c == New
               d == frame[f].dl
               t == frame[f].thread
    <3>1. TurnsWell(f, "blocked", c, d, t) /\ frame' = Append(Turn(f, "blocked", c, d, t), child)
      BY <1>5, <1>6
    <3> HIDE DEF c, d, t
    <3>2. /\ Kept /\ Grows /\ Steady({f}) /\ Typed'
          /\ Becomes(f, "blocked", c, d) /\ frame'[f].thread = t
          /\ frame'[New] = child
      BY <1>1, <1>4, <3>1, OneMore
    <3> QED
      BY <3>2 DEF c, d, t
  <2> QED
    BY <2>1 DEF SameThread
<1>8. /\ child.kind = "async" /\ child.via = via /\ child.parent = f
      /\ child.loop = loop /\ child.exec = None /\ child.old = frame[f].cur
      /\ child.cur = New /\ child.dl = frame[f].dl /\ child.state = state
  <2> HIDE DEF loop, state
  <2> QED
    BY DEF Blank
<1> HIDE DEF main, child
<1> QED
  BY <1>1, <1>7, <1>8 DEF main

LEMMA NoTurn ==
    ASSUME Typed, NEW f \in Frames
    PROVE  frame = Turn(f, frame[f].state, frame[f].cur, frame[f].dl, frame[f].thread)
<1>1. /\ frame[f] \in FrameType /\ Frames = 1 .. Len(frame)
      /\ frame \in [1 .. Len(frame) -> FrameType]
  BY FramesTyped DEF Typed
<1> QED
  BY <1>1 DEF Turn, Turned, FrameType

\* What SyncToAsync makes of a call: a frame that waits, or is refused.
LEMMA SyncCallTyped ==
    ASSUME Typed, NEW f \in Frames, NEW via \in {"s2a", "pool"}, NEW e \in 0 .. MaxFrames + 1,
           NEW s \in {"queued"} \union Refusals, NEW d \in BOOLEAN,
           NEW child, child = SyncCall(f, via, e, s, d)
    PROVE  /\ child \in FrameType
           /\ child.kind = "sync" /\ child.via = via /\ child.parent = f
           /\ child.loop = None /\ child.exec = e /\ child.old = None
           /\ child.cur = frame[f].cur /\ child.dl = d /\ child.state = s
<1>1. /\ frame[f].cur \in 0 .. MaxFrames /\ frame[f].one \in BOOLEAN
      /\ f \in 0 .. MaxFrames /\ via \in Vias /\ s \in States
  BY FramesTyped, PartsTyped, NumbersTyped DEF Vias, States, Refusals
<1>2. child \in FrameType
  BY <1>1, BlankTyped DEF SyncCall, FrameType
<1>3. /\ child.kind = "sync" /\ child.via = via /\ child.parent = f
      /\ child.loop = None /\ child.exec = e /\ child.old = None
      /\ child.cur = frame[f].cur /\ child.dl = d /\ child.state = s
  BY DEF SyncCall, Blank
<1> QED
  BY <1>2, <1>3

LEMMA CallInsensitiveDoes ==
    ASSUME Typed, NEW f \in Frames, CallInsensitive(f)
    PROVE  /\ Kept /\ Grows /\ Steady({f}) /\ tl' = tl /\ Typed'
           /\ frame[f].kind = "async" /\ frame[f].state = "running"
           /\ Becomes(f, "blocked", frame[f].cur, frame[f].dl) /\ SameThread(f)
           /\ frame'[New].kind = "sync" /\ frame'[New].via = "pool"
           /\ frame'[New].parent = f /\ frame'[New].loop = None
           /\ frame'[New].exec = New /\ frame'[New].old = None
           /\ frame'[New].cur = frame[f].cur /\ frame'[New].dl = frame[f].dl
           /\ frame'[New].state = "queued"
<1> DEFINE c == frame[f].cur
           d == frame[f].dl
           t == frame[f].thread
           child == SyncCall(f, "pool", New, "queued", d)
<1>1. New <= MaxFrames /\ frame[f].kind = "async" /\ frame[f].state = "running" /\ tl' = tl
  BY DEF CallInsensitive
<1>2. /\ Frames = 1 .. Len(frame) /\ Len(frame) \in Nat /\ frame[f] \in FrameType
      /\ New \in 1 .. MaxFrames /\ New \in 0 .. MaxFrames + 1
  BY <1>1, FramesTyped, NumbersTyped DEF New
<1>3. c \in 0 .. MaxFrames /\ d \in BOOLEAN /\ t \in Threads
  BY <1>2, PartsTyped
<1>4. /\ child \in FrameType
      /\ child.kind = "sync" /\ child.via = "pool" /\ child.parent = f
      /\ child.loop = None /\ child.exec = New /\ child.old = None
      /\ child.cur = frame[f].cur /\ child.dl = d /\ child.state = "queued"
  <2> DEFINE e == New
  <2>1. e \in 0 .. MaxFrames + 1 /\ child = SyncCall(f, "pool", e, "queued", d)
    BY <1>2
  <2> HIDE DEF child, d, e
  <2>2. /\ child \in FrameType
        /\ child.kind = "sync" /\ child.via = "pool" /\ child.parent = f
        /\ child.loop = None /\ child.exec = e /\ child.old = None
        /\ child.cur = frame[f].cur /\ child.dl = d /\ child.state = "queued"
    BY <1>3, <2>1, SyncCallTyped
  <2> QED
    BY <2>2 DEF e
<1>5. frame' = Append(Turn(f, "blocked", c, d, t), child)
  <2>1. [frame EXCEPT ![f].state = "blocked"] = Turn(f, "blocked", c, d, t)
    BY <1>2 DEF Turn, Turned, FrameType
  <2> QED
    BY <2>1 DEF CallInsensitive
<1>6. TurnsWell(f, "blocked", c, d, t)
  BY <1>3 DEF TurnsWell, States
<1>7. /\ Kept /\ Grows /\ Steady({f}) /\ Typed' /\ frame'[New] = child
      /\ Becomes(f, "blocked", c, d) /\ frame'[f].thread = t
  <2>1. child \in FrameType
    BY <1>4
  <2> HIDE DEF c, d, t, child
  <2> QED
    BY <1>1, <1>5, <1>6, <2>1, OneMore
<1> QED
  BY <1>1, <1>4, <1>7 DEF SameThread

\* The executor that submit() chooses, None if it refuses.
OwnThread(f) ==
    /\ ChooseExecutor(f) \notin {None, Single}
    /\ LoopThread(frame[f].loop) = frame[frame[ChooseExecutor(f)].parent].thread

Chosen(f) ==
    IF ChooseExecutor(f) = None \/ OwnThread(f) THEN None
    ELSE IF ChooseExecutor(f) = Single THEN Single
    ELSE Closest(ChooseExecutor(f))

Mark(f) == IF ChooseExecutor(f) = Single THEN TRUE ELSE frame[f].dl

\* The call is refused.
Refused(f) ==
    /\ Chosen(f) = None /\ Steady({})
    /\ frame'[New].exec = None
    /\ frame'[New].state \in Refusals
    /\ frame'[New].state = "deadlock" => ChooseExecutor(f) = None
    /\ frame'[New].state = "quit" => ~ OwnThread(f) /\ ChooseExecutor(f) # None

\* It waits for its turn.
Submitted(f) ==
    /\ Chosen(f) # None /\ Steady({f})
    /\ Becomes(f, "blocked", frame[f].cur, Mark(f)) /\ SameThread(f)
    /\ frame'[New].exec = Chosen(f)
    /\ frame'[New].state = "queued"

LEMMA CallSensitiveDoes ==
    ASSUME Typed, NEW f \in Frames, CallSensitive(f), Chosen(f) \in 0 .. MaxFrames + 1
    PROVE  /\ Kept /\ Grows /\ tl' = tl /\ Typed'
           /\ frame[f].kind = "async" /\ frame[f].state = "running"
           /\ frame'[New].kind = "sync" /\ frame'[New].via = "s2a"
           /\ frame'[New].parent = f /\ frame'[New].loop = None /\ frame'[New].old = None
           /\ frame'[New].cur = frame[f].cur /\ frame'[New].dl = Mark(f)
           /\ Refused(f) \/ Submitted(f)
<1> DEFINE c == frame[f].cur
           d == frame[f].dl
           t == frame[f].thread
           s == frame[f].state
           e == Chosen(f)
           m == Mark(f)
           refusal == CASE ChooseExecutor(f) = None -> "deadlock"
                        [] OwnThread(f) -> "ownthread"
                        [] OTHER -> "quit"
           state == IF e = None THEN refusal ELSE "queued"
           child == SyncCall(f, "s2a", e, state, m)
<1>1. New <= MaxFrames /\ frame[f].kind = "async" /\ frame[f].state = "running" /\ tl' = tl
  BY DEF CallSensitive
<1>2. /\ Frames = 1 .. Len(frame) /\ Len(frame) \in Nat /\ frame[f] \in FrameType
      /\ New \in 1 .. MaxFrames
  BY <1>1, FramesTyped, NumbersTyped DEF New
<1>3. /\ c \in 0 .. MaxFrames /\ d \in BOOLEAN /\ t \in Threads /\ s \in States
      /\ m \in BOOLEAN
  BY <1>2, PartsTyped DEF Mark
<1>4. refusal \in Refusals /\ state \in {"queued"} \union Refusals
  BY DEF Refusals
<1>5. /\ child \in FrameType
      /\ child.kind = "sync" /\ child.via = "s2a" /\ child.parent = f
      /\ child.loop = None /\ child.exec = e /\ child.old = None
      /\ child.cur = frame[f].cur /\ child.dl = m /\ child.state = state
  <2>1. /\ e \in 0 .. MaxFrames + 1 /\ child = SyncCall(f, "s2a", e, state, m)
        /\ m \in BOOLEAN /\ state \in {"queued"} \union Refusals
    BY <1>3, <1>4
  <2> HIDE DEF child, m, e, state
  <2> QED
    BY <2>1, SyncCallTyped
<1>6. CASE e = None
  <2>1. frame' = Append(frame, child)
    BY <1>6 DEF CallSensitive, Chosen, OwnThread, Mark
  <2>2. frame' = Append(Turn(f, s, c, d, t), child)
    BY <2>1, NoTurn
  <2>3. TurnsWell(f, s, c, d, t)
    BY <1>3 DEF TurnsWell
  <2>4. /\ Kept /\ Grows /\ Steady({f}) /\ Typed' /\ frame'[New] = child
        /\ Becomes(f, s, c, d) /\ frame'[f].thread = t
    <3>1. child \in FrameType /\ New <= MaxFrames /\ tl' = tl
      BY <1>1, <1>5
    <3> HIDE DEF c, d, t, s, child
    <3> QED
      BY <2>2, <2>3, <3>1, OneMore, ZenonT(60)
  <2>5. Steady({})
    BY <2>4 DEF Steady, Becomes
  <2>6. Refused(f)
    <3>1. /\ frame'[New].exec = None /\ frame'[New].state = refusal
      BY <1>5, <1>6, <2>4
    <3> QED
      BY <1>4, <1>6, <2>5, <3>1 DEF Refused
  <2> QED
    BY <1>1, <1>5, <2>4, <2>6
<1>7. CASE e # None
  <2>1. frame' = Append([frame EXCEPT ![f].state = "blocked", ![f].dl = m], child)
    BY <1>7 DEF CallSensitive, Chosen, OwnThread, Mark
  <2>2. frame' = Append(Turn(f, "blocked", c, m, t), child)
    <3>1. [frame EXCEPT ![f].state = "blocked", ![f].dl = m] = Turn(f, "blocked", c, m, t)
      BY <1>2 DEF Turn, Turned, FrameType
    <3> QED
      BY <2>1, <3>1
  <2>3. TurnsWell(f, "blocked", c, m, t)
    BY <1>3 DEF TurnsWell, States
  <2>4. /\ Kept /\ Grows /\ Steady({f}) /\ Typed' /\ frame'[New] = child
        /\ Becomes(f, "blocked", c, m) /\ frame'[f].thread = t
    <3>1. child \in FrameType /\ New <= MaxFrames /\ tl' = tl
      BY <1>1, <1>5
    <3> HIDE DEF c, m, t, child
    <3> QED
      BY <2>2, <2>3, <3>1, OneMore, ZenonT(60)
  <2>5. Submitted(f)
    BY <1>5, <1>7, <2>4 DEF Submitted, SameThread
  <2> QED
    BY <1>1, <1>5, <2>4, <2>5
<1> QED
  BY <1>6, <1>7

LEMMA StartLoopDoes ==
    ASSUME Typed, NEW f \in Frames, StartLoop(f)
    PROVE  /\ Kept /\ Stays /\ Steady({f}) /\ tl' = tl /\ Typed'
           /\ frame[f].state = "waiting"
           /\ Becomes(f, "running", frame[f].cur, frame[f].dl) /\ SameThread(f)
<1> DEFINE c == frame[f].cur
           d == frame[f].dl
           t == frame[f].thread
           s == "running"
<1>1. tl' = tl /\ frame[f].state = "waiting"
  BY DEF StartLoop
<1>2. c \in 0 .. MaxFrames /\ d \in BOOLEAN /\ t \in Threads /\ s \in States
  BY FramesTyped, PartsTyped DEF States
<1>3. frame' = Turn(f, s, c, d, t)
  <2>1. [frame EXCEPT ![f].state = s] = Turn(f, s, c, d, t)
    BY FramesTyped DEF Turn, Turned, FrameType
  <2> QED
    BY <2>1 DEF StartLoop
<1>4. TurnsWell(f, s, c, d, t) /\ tl' \in [Threads -> 0 .. MaxFrames]
  BY <1>1, <1>2 DEF TurnsWell, Typed
<1>5. /\ Kept /\ Stays /\ Steady({f}) /\ Typed'
      /\ Becomes(f, s, c, d) /\ frame'[f].thread = t
  <2> HIDE DEF s, c, d, t
  <2> QED
    BY <1>3, <1>4, OneTurns
<1> QED
  BY <1>1, <1>5 DEF SameThread

LEMMA JoinDoes ==
    ASSUME Typed, NEW f \in Frames, Join(f)
    PROVE  /\ Kept /\ Stays /\ Steady({f}) /\ tl' = tl /\ Typed'
           /\ frame[f].kind = "async" /\ frame[f].state = "running"
           /\ Becomes(f, "joining", frame[f].cur, frame[f].dl) /\ SameThread(f)
<1> DEFINE c == frame[f].cur
           d == frame[f].dl
           t == frame[f].thread
           s == "joining"
<1>1. tl' = tl /\ frame[f].kind = "async" /\ frame[f].state = "running"
  BY DEF Join
<1>2. c \in 0 .. MaxFrames /\ d \in BOOLEAN /\ t \in Threads /\ s \in States
  BY FramesTyped, PartsTyped DEF States
<1>3. frame' = Turn(f, s, c, d, t)
  <2>1. [frame EXCEPT ![f].state = s] = Turn(f, s, c, d, t)
    BY FramesTyped DEF Turn, Turned, FrameType
  <2> QED
    BY <2>1 DEF Join
<1>4. TurnsWell(f, s, c, d, t) /\ tl' \in [Threads -> 0 .. MaxFrames]
  BY <1>1, <1>2 DEF TurnsWell, Typed
<1>5. /\ Kept /\ Stays /\ Steady({f}) /\ Typed'
      /\ Becomes(f, s, c, d) /\ frame'[f].thread = t
  <2> HIDE DEF s, c, d, t
  <2> QED
    BY <1>3, <1>4, OneTurns
<1> QED
  BY <1>1, <1>5 DEF SameThread

LEMMA JoinedDoes ==
    ASSUME Typed, NEW f \in Frames, Joined(f)
    PROVE  /\ Kept /\ Stays /\ Steady({f}) /\ tl' = tl /\ Typed'
           /\ frame[f].state = "joining"
           /\ Becomes(f, "running", frame[f].cur, frame[f].dl) /\ SameThread(f)
<1> DEFINE c == frame[f].cur
           d == frame[f].dl
           t == frame[f].thread
           s == "running"
<1>1. tl' = tl /\ frame[f].state = "joining"
  BY DEF Joined
<1>2. c \in 0 .. MaxFrames /\ d \in BOOLEAN /\ t \in Threads /\ s \in States
  BY FramesTyped, PartsTyped DEF States
<1>3. frame' = Turn(f, s, c, d, t)
  <2>1. [frame EXCEPT ![f].state = s] = Turn(f, s, c, d, t)
    BY FramesTyped DEF Turn, Turned, FrameType
  <2> QED
    BY <2>1 DEF Joined
<1>4. TurnsWell(f, s, c, d, t) /\ tl' \in [Threads -> 0 .. MaxFrames]
  BY <1>1, <1>2 DEF TurnsWell, Typed
<1>5. /\ Kept /\ Stays /\ Steady({f}) /\ Typed'
      /\ Becomes(f, s, c, d) /\ frame'[f].thread = t
  <2> HIDE DEF s, c, d, t
  <2> QED
    BY <1>3, <1>4, OneTurns
<1> QED
  BY <1>1, <1>5 DEF SameThread

\* The state that code which returns is left in.
Ending(f) == IF frame[f].via \in {"outer", "task", "fresh"} THEN "done" ELSE "returned"

LEMMA ReturnDoes ==
    ASSUME Typed, NEW f \in Frames, Return(f)
    PROVE  /\ Kept /\ Stays /\ Steady({f}) /\ tl' = tl /\ Typed'
           /\ frame[f].state = "running"
           /\ Becomes(f, Ending(f), frame[f].cur, frame[f].dl) /\ SameThread(f)
<1> DEFINE c == frame[f].cur
           d == frame[f].dl
           t == frame[f].thread
           s == Ending(f)
<1>1. tl' = tl /\ frame[f].state = "running"
  BY DEF Return
<1>2. c \in 0 .. MaxFrames /\ d \in BOOLEAN /\ t \in Threads /\ s \in States
  BY FramesTyped, PartsTyped DEF States, Ending
<1>3. frame' = Turn(f, s, c, d, t)
  <2>1. [frame EXCEPT ![f].state = s] = Turn(f, s, c, d, t)
    BY FramesTyped DEF Turn, Turned, FrameType
  <2> QED
    BY <2>1 DEF Return, Ending
<1>4. TurnsWell(f, s, c, d, t) /\ tl' \in [Threads -> 0 .. MaxFrames]
  BY <1>1, <1>2 DEF TurnsWell, Typed
<1>5. /\ Kept /\ Stays /\ Steady({f}) /\ Typed'
      /\ Becomes(f, s, c, d) /\ frame'[f].thread = t
  <2> HIDE DEF s, c, d, t
  <2> QED
    BY <1>3, <1>4, OneTurns
<1> QED
  BY <1>1, <1>5 DEF SameThread

LEMMA StartSyncDoes ==
    ASSUME Typed, NEW t \in Threads, NEW f \in Frames, StartSync(t, f),
           frame[f].parent \in Frames
    PROVE  /\ Kept /\ Stays /\ Steady({f}) /\ Typed'
           /\ tl' = [tl EXCEPT ![t] = frame[frame[f].parent].loop]
           /\ frame[f].state = "queued"
           /\ Becomes(f, "running", frame[f].cur, frame[f].dl) /\ frame'[f].thread = t
<1> DEFINE c == frame[f].cur
           d == frame[f].dl
           s == "running"
<1>1. tl' = [tl EXCEPT ![t] = frame[frame[f].parent].loop] /\ frame[f].state = "queued"
  BY DEF StartSync
<1>2. c \in 0 .. MaxFrames /\ d \in BOOLEAN /\ s \in States
  BY FramesTyped, PartsTyped DEF States
<1>3. frame' = Turn(f, s, c, d, t)
  <2>1. [frame EXCEPT ![f].state = s, ![f].thread = t] = Turn(f, s, c, d, t)
    BY FramesTyped DEF Turn, Turned, FrameType
  <2> QED
    BY <2>1 DEF StartSync
<1>4. tl' \in [Threads -> 0 .. MaxFrames]
  <2>1. frame[frame[f].parent].loop \in 0 .. MaxFrames
    BY FramesTyped, PartsTyped
  <2> QED
    BY <1>1, <2>1 DEF Typed
<1>5. TurnsWell(f, s, c, d, t)
  BY <1>2 DEF TurnsWell
<1>6. /\ Kept /\ Stays /\ Steady({f}) /\ Typed'
      /\ Becomes(f, s, c, d) /\ frame'[f].thread = t
  <2> HIDE DEF s, c, d
  <2> QED
    BY <1>3, <1>4, <1>5, OneTurns
<1> QED
  BY <1>1, <1>6

LEMMA ReturnAsyncDoes ==
    ASSUME Typed, NEW f \in Frames, NEW g \in Frames, f # g, ReturnAsync(f, g)
    PROVE  /\ Kept /\ Stays /\ Steady({f, g}) /\ tl' = tl /\ Typed'
           /\ frame[g].via \in {"a2s", "force"} /\ frame[g].parent = f
           /\ frame[g].state = "returned"
           /\ Becomes(g, "done", frame[g].cur, frame[g].dl) /\ SameThread(g)
           /\ frame'[f].state = "running" /\ frame'[f].cur = frame[g].old /\ SameThread(f)
           /\ frame'[f].dl \in {frame[f].dl, frame[g].dl}
           /\ Queued(g) = {} /\ Innermost(f)
<1> DEFINE c == frame[g].old
           t == frame[f].thread
           s == "running"
<1>1. /\ tl' = tl /\ frame[g].via \in {"a2s", "force"} /\ frame[g].parent = f
      /\ frame[g].state = "returned"
  BY DEF ReturnAsync
<1>2. /\ Frames = 1 .. Len(frame) /\ frame \in [1 .. Len(frame) -> FrameType]
      /\ frame[f] \in FrameType /\ frame[g] \in FrameType
  BY FramesTyped DEF Typed
<1>3. PICK d \in {frame[f].dl, frame[g].dl} :
         frame' = [frame EXCEPT ![g].state = "done", ![f].state = "running",
                            ![f].dl = d, ![f].cur = c]
  <2>1. PICK d \in {frame[g].dl} \union (IF frame[g].loop = g THEN {} ELSE {frame[f].dl}) :
           frame' = [frame EXCEPT ![g].state = "done", ![f].state = "running",
                            ![f].dl = d, ![f].cur = c]
    BY DEF ReturnAsync
  <2> QED
    BY <2>1
<1>4. /\ c \in 0 .. MaxFrames /\ t \in Threads /\ s \in States /\ d \in BOOLEAN
      /\ frame[g].state \in States
  BY <1>2, <1>3, PartsTyped DEF States
<1>5. frame' = [Turn(f, s, c, d, t) EXCEPT
                   ![g] = Turned(frame[g], "done", frame[g].cur, frame[g].dl,
                                 frame[g].thread)]
  <2> DEFINE r == Turned(frame[g], "done", frame[g].cur, frame[g].dl, frame[g].thread)
             q == Turned(frame[f], s, c, d, t)
  <2>1. r = [frame[g] EXCEPT !.state = "done"]
    BY <1>2 DEF Turned, FrameType
  <2>2. q = [frame[f] EXCEPT !.state = "running", !.dl = d, !.cur = c]
    BY <1>2 DEF Turned, FrameType
  <2>3. [frame EXCEPT ![g].state = "done", ![f].state = "running",
                            ![f].dl = d, ![f].cur = c]
          = [[frame EXCEPT ![g] = r] EXCEPT ![f] = q]
    BY <1>2, <2>1, <2>2
  <2> HIDE DEF r, q
  <2>4. [[frame EXCEPT ![g] = r] EXCEPT ![f] = q] = [[frame EXCEPT ![f] = q] EXCEPT ![g] = r]
    BY <1>2
  <2> QED
    BY <1>3, <2>3, <2>4 DEF Turn, r, q
<1>6. TurnsWell(f, s, c, d, t)
  BY <1>4 DEF TurnsWell
<1>7. /\ Kept /\ Stays /\ Steady({f, g}) /\ Typed'
      /\ Becomes(f, s, c, d) /\ frame'[f].thread = t
      /\ Becomes(g, "done", frame[g].cur, frame[g].dl) /\ SameThread(g)
  <2>1. tl' = tl /\ frame[g].state \in States /\ g \in Frames \ {f}
    BY <1>1, <1>4
  <2> HIDE DEF s, c, t
  <2> QED
    BY <1>5, <1>6, <2>1, TwoTurn, ZenonT(60)
<1> QED
  BY <1>1, <1>3, <1>7 DEF SameThread, Becomes, ReturnAsync

LEMMA ReturnSyncDoes ==
    ASSUME Typed, NEW f \in Frames, NEW g \in Frames, f # g, ReturnSync(f, g)
    PROVE  /\ Kept /\ Stays /\ Steady({f, g}) /\ tl' = tl /\ Typed'
           /\ frame[g].via \in {"s2a", "pool"} /\ frame[g].parent = f
           /\ frame[g].state = "returned"
           /\ Becomes(g, "done", frame[g].cur, frame[g].dl) /\ SameThread(g)
           /\ frame'[f].state = "running" /\ frame'[f].cur = frame[g].cur /\ SameThread(f)
           /\ frame'[f].dl \in {FALSE}
<1> DEFINE c == frame[g].cur
           t == frame[f].thread
           s == "running"
<1>1. /\ tl' = tl /\ frame[g].via \in {"s2a", "pool"} /\ frame[g].parent = f
      /\ frame[g].state = "returned"
  BY DEF ReturnSync
<1>2. /\ Frames = 1 .. Len(frame) /\ frame \in [1 .. Len(frame) -> FrameType]
      /\ frame[f] \in FrameType /\ frame[g] \in FrameType
  BY FramesTyped DEF Typed
<1> DEFINE d == FALSE
<1>3. frame' = [frame EXCEPT ![g].state = "done", ![f].state = "running",
                            ![f].cur = c, ![f].dl = d]
  BY DEF ReturnSync
<1>4. /\ c \in 0 .. MaxFrames /\ t \in Threads /\ s \in States /\ d \in BOOLEAN
      /\ frame[g].state \in States
  BY <1>2, <1>3, PartsTyped DEF States
<1>5. frame' = [Turn(f, s, c, d, t) EXCEPT
                   ![g] = Turned(frame[g], "done", frame[g].cur, frame[g].dl,
                                 frame[g].thread)]
  <2> DEFINE r == Turned(frame[g], "done", frame[g].cur, frame[g].dl, frame[g].thread)
             q == Turned(frame[f], s, c, d, t)
  <2>1. r = [frame[g] EXCEPT !.state = "done"]
    BY <1>2 DEF Turned, FrameType
  <2>2. q = [frame[f] EXCEPT !.state = "running", !.cur = c, !.dl = d]
    BY <1>2 DEF Turned, FrameType
  <2>3. [frame EXCEPT ![g].state = "done", ![f].state = "running",
                            ![f].cur = c, ![f].dl = d]
          = [[frame EXCEPT ![g] = r] EXCEPT ![f] = q]
    BY <1>2, <2>1, <2>2
  <2> HIDE DEF r, q
  <2>4. [[frame EXCEPT ![g] = r] EXCEPT ![f] = q] = [[frame EXCEPT ![f] = q] EXCEPT ![g] = r]
    BY <1>2
  <2> QED
    BY <1>3, <2>3, <2>4 DEF Turn, r, q
<1>6. TurnsWell(f, s, c, d, t)
  BY <1>4 DEF TurnsWell
<1>7. /\ Kept /\ Stays /\ Steady({f, g}) /\ Typed'
      /\ Becomes(f, s, c, d) /\ frame'[f].thread = t
      /\ Becomes(g, "done", frame[g].cur, frame[g].dl) /\ SameThread(g)
  <2>1. tl' = tl /\ frame[g].state \in States /\ g \in Frames \ {f}
    BY <1>1, <1>4
  <2> HIDE DEF s, c, d, t
  <2> QED
    BY <1>5, <1>6, <2>1, TwoTurn, ZenonT(60)
<1> QED
  BY <1>1, <1>3, <1>7 DEF SameThread, Becomes

LEMMA ReturnLoopDoes ==
    ASSUME Typed, NEW f \in Frames, NEW g \in Frames, f # g, ReturnLoop(f, g)
    PROVE  /\ Kept /\ Stays /\ Steady({f, g}) /\ tl' = tl /\ Typed'
           /\ frame[g].via = "run" /\ frame[g].parent = f
           /\ frame[g].state = "returned"
           /\ Becomes(g, "done", frame[g].cur, frame[g].dl) /\ SameThread(g)
           /\ frame'[f].state = "running" /\ frame'[f].cur = frame[f].cur /\ SameThread(f)
           /\ frame'[f].dl \in {frame[f].dl}
<1> DEFINE c == frame[f].cur
           t == frame[f].thread
           s == "running"
<1>1. /\ tl' = tl /\ frame[g].via = "run" /\ frame[g].parent = f
      /\ frame[g].state = "returned"
  BY DEF ReturnLoop
<1>2. /\ Frames = 1 .. Len(frame) /\ frame \in [1 .. Len(frame) -> FrameType]
      /\ frame[f] \in FrameType /\ frame[g] \in FrameType
  BY FramesTyped DEF Typed
<1> DEFINE d == frame[f].dl
<1>3. frame' = [frame EXCEPT ![g].state = "done", ![f].state = "running"]
  BY DEF ReturnLoop
<1>4. /\ c \in 0 .. MaxFrames /\ t \in Threads /\ s \in States /\ d \in BOOLEAN
      /\ frame[g].state \in States
  BY <1>2, <1>3, PartsTyped DEF States
<1>5. frame' = [Turn(f, s, c, d, t) EXCEPT
                   ![g] = Turned(frame[g], "done", frame[g].cur, frame[g].dl,
                                 frame[g].thread)]
  <2> DEFINE r == Turned(frame[g], "done", frame[g].cur, frame[g].dl, frame[g].thread)
             q == Turned(frame[f], s, c, d, t)
  <2>1. r = [frame[g] EXCEPT !.state = "done"]
    BY <1>2 DEF Turned, FrameType
  <2>2. q = [frame[f] EXCEPT !.state = "running"]
    BY <1>2 DEF Turned, FrameType
  <2>3. [frame EXCEPT ![g].state = "done", ![f].state = "running"]
          = [[frame EXCEPT ![g] = r] EXCEPT ![f] = q]
    BY <1>2, <2>1, <2>2
  <2> HIDE DEF r, q
  <2>4. [[frame EXCEPT ![g] = r] EXCEPT ![f] = q] = [[frame EXCEPT ![f] = q] EXCEPT ![g] = r]
    BY <1>2
  <2> QED
    BY <1>3, <2>3, <2>4 DEF Turn, r, q
<1>6. TurnsWell(f, s, c, d, t)
  BY <1>4 DEF TurnsWell
<1>7. /\ Kept /\ Stays /\ Steady({f, g}) /\ Typed'
      /\ Becomes(f, s, c, d) /\ frame'[f].thread = t
      /\ Becomes(g, "done", frame[g].cur, frame[g].dl) /\ SameThread(g)
  <2>1. tl' = tl /\ frame[g].state \in States /\ g \in Frames \ {f}
    BY <1>1, <1>4
  <2> HIDE DEF s, c, d, t
  <2> QED
    BY <1>5, <1>6, <2>1, TwoTurn, ZenonT(60)
<1> QED
  BY <1>1, <1>3, <1>7 DEF SameThread, Becomes

LEMMA CreateTaskDoes ==
    ASSUME Typed, NEW f \in Frames, NEW via \in {"task", "fresh"}, CreateTask(f, via)
    PROVE  /\ Kept /\ Grows /\ Steady({}) /\ tl' = tl /\ Typed'
           /\ frame[f].kind = "async" /\ frame[f].state = "running"
           /\ frame'[New].kind = "async" /\ frame'[New].via = via
           /\ frame'[New].parent = f /\ frame'[New].loop = frame[f].loop
           /\ frame'[New].exec = None /\ frame'[New].old = None
           /\ frame'[New].cur = (IF via = "task" THEN frame[f].cur ELSE None)
           /\ frame'[New].dl = (via = "task" /\ frame[f].dl)
           /\ frame'[New].state = "running"
<1> DEFINE c == frame[f].cur
           d == frame[f].dl
           t == frame[f].thread
           s == frame[f].state
           loop == frame[f].loop
           cur == IF via = "task" THEN frame[f].cur ELSE None
           dl == via = "task" /\ frame[f].dl
           one == via = "task" /\ frame[f].one
           child == [Blank EXCEPT !.kind = "async", !.via = via, !.parent = f, !.loop = loop,
                                  !.cur = cur, !.dl = dl, !.one = one]
<1>1. New <= MaxFrames /\ frame[f].kind = "async" /\ frame[f].state = "running" /\ tl' = tl
  BY DEF CreateTask
<1>2. /\ frame[f] \in FrameType /\ f \in 0 .. MaxFrames /\ via \in Vias
  BY FramesTyped, NumbersTyped DEF Vias
<1>3. /\ c \in 0 .. MaxFrames /\ d \in BOOLEAN /\ t \in Threads /\ s \in States
      /\ loop \in 0 .. MaxFrames /\ cur \in 0 .. MaxFrames /\ dl \in BOOLEAN /\ one \in BOOLEAN
  BY <1>2, PartsTyped, NumbersTyped
<1>4. child \in FrameType
  <2> HIDE DEF loop, cur, dl, one
  <2> QED
    BY <1>2, <1>3, BlankTyped DEF FrameType
<1>5. /\ child.kind = "async" /\ child.via = via /\ child.parent = f /\ child.loop = loop
      /\ child.exec = None /\ child.old = None /\ child.cur = cur /\ child.dl = dl
      /\ child.state = "running"
  <2> HIDE DEF loop, cur, dl, one
  <2> QED
    BY DEF Blank
<1>6. frame' = Append(Turn(f, s, c, d, t), child)
  <2>1. frame' = Append(frame, child)
    BY DEF CreateTask
  <2> QED
    BY <2>1, NoTurn
<1>7. TurnsWell(f, s, c, d, t)
  BY <1>3 DEF TurnsWell
<1>8. /\ Kept /\ Grows /\ Steady({f}) /\ Typed' /\ frame'[New] = child
      /\ Becomes(f, s, c, d) /\ frame'[f].thread = t
  <2>1. New <= MaxFrames /\ tl' = tl
    BY <1>1
  <2> HIDE DEF s, c, d, t, child
  <2> QED
    BY <1>4, <1>6, <1>7, <2>1, OneMore, ZenonT(60)
<1>9. Steady({})
  BY <1>8 DEF Steady, Becomes
<1> HIDE DEF child
<1> QED
  BY <1>1, <1>5, <1>8, <1>9

LEMMA RunLoopDoes ==
    ASSUME Typed, NEW f \in Frames, RunLoop(f)
    PROVE  /\ Kept /\ Grows /\ Steady({f}) /\ tl' = tl /\ Typed'
           /\ frame[f].kind = "sync" /\ frame[f].state = "running"
           /\ Becomes(f, "blocked", frame[f].cur, frame[f].dl) /\ SameThread(f)
           /\ frame'[New].kind = "async" /\ frame'[New].via = "run"
           /\ frame'[New].parent = f /\ frame'[New].loop = New
           /\ frame'[New].exec = None /\ frame'[New].old = None
           /\ frame'[New].cur = frame[f].cur /\ frame'[New].dl = frame[f].dl
           /\ frame'[New].state = "running"
<1> DEFINE c == frame[f].cur
           d == frame[f].dl
           t == frame[f].thread
           one == frame[f].one
           child == [Blank EXCEPT !.kind = "async", !.via = "run", !.parent = f, !.loop = New,
                                  !.cur = c, !.dl = d, !.one = one]
<1>1. New <= MaxFrames /\ frame[f].kind = "sync" /\ frame[f].state = "running" /\ tl' = tl
  BY DEF RunLoop
<1>2. /\ frame[f] \in FrameType /\ f \in 0 .. MaxFrames /\ New \in 0 .. MaxFrames
      /\ "run" \in Vias
  BY <1>1, FramesTyped, NumbersTyped DEF Vias, New
<1>3. /\ c \in 0 .. MaxFrames /\ d \in BOOLEAN /\ t \in Threads /\ one \in BOOLEAN
  BY <1>2, PartsTyped
<1>4. child \in FrameType
  <2> HIDE DEF c, d, one
  <2> QED
    BY <1>2, <1>3, BlankTyped DEF FrameType
<1>5. /\ child.kind = "async" /\ child.via = "run" /\ child.parent = f /\ child.loop = New
      /\ child.exec = None /\ child.old = None /\ child.cur = c /\ child.dl = d
      /\ child.state = "running"
  <2> HIDE DEF c, d, one
  <2> QED
    BY DEF Blank
<1>6. frame' = Append(Turn(f, "blocked", c, d, t), child)
  <2>1. [frame EXCEPT ![f].state = "blocked"] = Turn(f, "blocked", c, d, t)
    BY FramesTyped DEF Turn, Turned, FrameType
  <2> QED
    BY <2>1 DEF RunLoop
<1>7. TurnsWell(f, "blocked", c, d, t)
  BY <1>3 DEF TurnsWell, States
<1>8. /\ Kept /\ Grows /\ Steady({f}) /\ Typed' /\ frame'[New] = child
      /\ Becomes(f, "blocked", c, d) /\ frame'[f].thread = t
  <2>1. New <= MaxFrames /\ tl' = tl
    BY <1>1
  <2> HIDE DEF c, d, t, child
  <2> QED
    BY <1>4, <1>6, <1>7, <2>1, OneMore, ZenonT(60)
<1> HIDE DEF child
<1> QED
  BY <1>1, <1>5, <1>8 DEF SameThread

-----------------------------------------------------------------------------
(* The structure of a program                                               *)

\* How a frame was born: from an earlier frame of the other kind, or a task
\* from a coroutine of its loop; a loop is named after its root; executors are
\* named after coroutines of AsyncToSync calls, older than what they serve.
BornWell(f) ==
    /\ By(f) \in 0 .. f - 1 /\ (f = 1 <=> frame[f].via = "outer")
    /\ f # 1 => By(f) \in Frames
    /\ frame[f].via \in {"a2s", "force", "run"} =>
          frame[f].kind = "async" /\ frame[By(f)].kind = "sync"
    /\ frame[f].via \in {"s2a", "pool"} =>
          frame[f].kind = "sync" /\ frame[By(f)].kind = "async"
    /\ frame[f].via \in {"task", "fresh"} =>
          /\ frame[f].kind = "async" /\ frame[By(f)].kind = "async"
          /\ frame[f].loop = frame[By(f)].loop
    /\ frame[f].kind = "sync" => frame[f].loop = None
    /\ frame[f].kind = "async" =>
          /\ frame[f].loop \in 1 .. f /\ frame[frame[f].loop].kind = "async"
          /\ frame[frame[f].loop].loop = frame[f].loop
          /\ frame[f].via \in {"run", "outer"} => frame[f].loop = f
    /\ frame[f].loop = f => frame[f].via \notin {"task", "fresh"}
    /\ frame[f].old \in {None} \union Executors /\ frame[f].old \in 0 .. f - 1
    /\ \/ frame[f].exec \in {None, Single}
       \/ frame[f].exec \in Executors /\ frame[f].exec < f
       \/ frame[f].exec = f
    /\ frame[f].exec # None => frame[f].via \in {"s2a", "pool"}
    /\ frame[f].via = "pool" <=> frame[f].exec = f

\* The states a frame of its kind can be in.
InState(f) ==
    /\ frame[f].kind = "sync" =>
          frame[f].state \in {"queued", "running", "blocked", "returned", "done"} \union Refusals
    /\ frame[f].kind = "async" =>
          frame[f].state \in {"waiting", "running", "blocked", "joining", "returned", "done"}
    /\ frame[f].state = "returned" => frame[f].via \notin {"outer", "task", "fresh"}
    /\ frame[f].state = "queued" => frame[f].exec # None
    /\ frame[f].cur \in {None} \union Executors

Tree == \A f \in Frames : BornWell(f)
Stations == \A f \in Frames : InState(f)

\* The threadlocals hold loops.
Remembered ==
    \A t \in Threads : tl[t] # None =>
        tl[t] \in Frames /\ frame[tl[t]].kind = "async" /\ frame[tl[t]].loop = tl[t]

\* c is a call that is not a task, and has not ended.
Pending(c) == c # 1 /\ frame[c].via \notin {"task", "fresh"} /\ Live(c)

\* A frame is blocked while, and only while, a call of its is pending, one.
Waits ==
    /\ \A c \in Frames : Pending(c) => frame[By(c)].state = "blocked"
    /\ \A f \in Frames : frame[f].state = "blocked" =>
          \E c \in Frames : Pending(c) /\ By(c) = f
    /\ \A c, d \in Frames : Pending(c) /\ Pending(d) /\ By(c) = By(d) => c = d

\* Work is queued at an executor that still serves.
Served ==
    \A g \in Frames : frame[g].state = "queued" /\ frame[g].exec # Single
        => Live(frame[g].exec)

Structure == Typed /\ Tree /\ Stations /\ Remembered /\ Waits /\ Served

LEMMA TreeOrdered == ASSUME Typed, Tree PROVE Ordered
  BY FramesTyped DEF Tree, BornWell, Ordered

\* How the frames were born does not change.
LEMMA TreeKept ==
    ASSUME Typed, Tree, Kept, \A n \in Frames' \ Frames : BornWell(n)'
    PROVE  Tree'
<1>1. Frames = 1 .. Len(frame) /\ Len(frame) \in Nat
  BY FramesTyped
<1>2. \A e \in Executors : e \in Executors'
  BY DEF Executors, Kept
<1>3. ASSUME NEW f \in Frames PROVE BornWell(f)'
  <2>1. BornWell(f) /\ f \in Frames' /\ By(f)' = By(f)
    BY DEF Tree, Kept, By
  <2>2. frame[f].kind = "async" => frame[f].loop \in Frames
    BY <1>1, <2>1 DEF BornWell
  <2>3. f # 1 => By(f) \in Frames
    BY <2>1 DEF BornWell
  <2>4. /\ f # 1 => By(f) \in Frames' /\ frame'[By(f)].kind = frame[By(f)].kind
                    /\ frame'[By(f)].loop = frame[By(f)].loop
        /\ frame[f].kind = "async" =>
              /\ frame'[frame[f].loop].kind = frame[frame[f].loop].kind
              /\ frame'[frame[f].loop].loop = frame[frame[f].loop].loop
    BY <2>2, <2>3 DEF Kept
  <2> QED
    BY <1>2, <2>1, <2>4 DEF BornWell, Kept, By, Single
<1> QED
  BY <1>3 DEF Tree

LEMMA RememberedKept ==
    ASSUME Remembered, Kept, tl' = tl
    PROVE  Remembered'
  BY DEF Remembered, Kept

\* A frame that runs makes a call and waits for it.
LEMMA WaitsCalled ==
    ASSUME Typed, Tree, Waits, Kept, Grows, NEW f \in Frames, Steady({f}),
           frame[f].state = "running", frame'[f].state = "blocked",
           frame'[New].parent = f, frame'[New].via \notin {"task", "fresh"},
           frame'[New].state \notin {"done", "blocked"} \union Refusals
    PROVE  Waits'
<1>1. Frames = 1 .. Len(frame) /\ Len(frame) \in Nat /\ New # 1 /\ 1 \in Frames
  BY FramesTyped DEF New
<1>2. \A c \in Frames : c # 1 => By(c) \in Frames
  BY DEF Tree, BornWell
<1>3. ASSUME NEW c \in Frames
      PROVE  /\ (Pending(c)' <=> Pending(c)) /\ By(c)' = By(c)
             /\ c # f => frame'[c].state = frame[c].state
  BY DEF Pending, Live, Kept, Steady, By, Refusals
<1>4. Frames' = Frames \union {New} /\ New \notin Frames
  BY DEF Grows
<1>5. PICK n : n = New
  OBVIOUS
<1>6. /\ n # 1 /\ n \notin Frames /\ Frames' = Frames \union {n}
      /\ frame'[n].parent = f /\ frame'[n].via \notin {"task", "fresh"}
      /\ frame'[n].state \notin {"done", "blocked"} \union Refusals
  BY <1>1, <1>4, <1>5
<1>7. Pending(n)' /\ By(n)' = f
  BY <1>6 DEF Pending, Live, By, Refusals
<1>8. ASSUME NEW c \in Frames, Pending(c) PROVE By(c) # f
  BY <1>8 DEF Waits
<1>9. ASSUME NEW c \in Frames', Pending(c)' PROVE frame'[By(c)'].state = "blocked"
  <2>1. CASE c = n
    <3>1. c = n /\ By(c)' = f
      BY <1>7, <2>1
    <3> QED
      BY <3>1
  <2>2. CASE c \in Frames
    <3>1. Pending(c) /\ By(c) \in Frames /\ By(c)' = By(c)
      BY <1>2, <1>3, <1>9, <2>2 DEF Pending
    <3>2. frame[By(c)].state = "blocked" /\ By(c) # f
      BY <1>8, <2>2, <3>1 DEF Waits
    <3> QED
      BY <1>3, <3>1, <3>2
  <2> QED
    BY <1>6, <2>1, <2>2
<1>10. ASSUME NEW g \in Frames', frame'[g].state = "blocked"
       PROVE  \E c \in Frames' : Pending(c)' /\ By(c)' = g
  <2>1. CASE g = f
    BY <1>6, <1>7, <2>1
  <2>2. CASE g # f
    <3>1. g \in Frames /\ frame[g].state = "blocked"
      BY <1>3, <1>6, <1>10, <2>2
    <3>2. PICK c \in Frames : Pending(c) /\ By(c) = g
      BY <3>1 DEF Waits
    <3> QED
      BY <1>3, <1>6, <3>2
  <2> QED
    BY <2>1, <2>2
<1>11. ASSUME NEW c \in Frames', NEW d \in Frames', Pending(c)', Pending(d)', By(c)' = By(d)'
       PROVE  c = d
  <2>1. CASE c \in Frames /\ d \in Frames
    BY <1>3, <1>11, <2>1 DEF Waits
  <2>2. CASE c = n /\ d \in Frames
    BY <1>3, <1>7, <1>8, <1>11, <2>2
  <2>3. CASE c \in Frames /\ d = n
    BY <1>3, <1>7, <1>8, <1>11, <2>3
  <2> QED
    BY <1>6, <2>1, <2>2, <2>3
<1> QED
  BY <1>9, <1>10, <1>11 DEF Waits, By

\* A task is created, or a call refused.
LEMMA WaitsAdded ==
    ASSUME Typed, Tree, Waits, Kept, Grows, Steady({}), frame'[New].state # "blocked",
           frame'[New].via \in {"task", "fresh"} \/ frame'[New].state \in Refusals
    PROVE  Waits'
<1>1. \A c \in Frames : c # 1 => By(c) \in Frames
  BY DEF Tree, BornWell
<1>2. ASSUME NEW c \in Frames
      PROVE  /\ (Pending(c)' <=> Pending(c)) /\ By(c)' = By(c)
             /\ frame'[c].state = frame[c].state
  BY DEF Pending, Live, Kept, Steady, By, Refusals
<1>3. PICK n : n = New
  OBVIOUS
<1>4. /\ Frames' = Frames \union {n} /\ frame'[n].state # "blocked"
      /\ frame'[n].via \in {"task", "fresh"} \/ frame'[n].state \in Refusals
  BY <1>3 DEF Grows
<1>5. ~ Pending(n)'
  BY <1>4 DEF Pending, Live
<1>6. \A c \in Frames' : Pending(c)' => frame'[By(c)'].state = "blocked"
  BY <1>1, <1>2, <1>4, <1>5 DEF Waits, Pending
<1>7. \A g \in Frames' : frame'[g].state = "blocked" =>
         \E c \in Frames' : Pending(c)' /\ By(c)' = g
  BY <1>2, <1>4 DEF Waits
<1>8. \A c, d \in Frames' : Pending(c)' /\ Pending(d)' /\ By(c)' = By(d)' => c = d
  BY <1>2, <1>4, <1>5 DEF Waits
<1> QED
  BY <1>6, <1>7, <1>8 DEF Waits, By

\* A frame that is not blocked, and will not be, turns.
LEMMA WaitsTurned ==
    ASSUME Typed, Tree, Waits, Kept, Stays, NEW f \in Frames, Steady({f}), Live(f),
           frame[f].state # "blocked", frame'[f].state # "blocked",
           frame[f].via \in {"outer", "task", "fresh"} \/ Live(f)'
    PROVE  Waits'
<1>1. \A c \in Frames : c # 1 => By(c) \in Frames
  BY DEF Tree, BornWell
<1>2. ASSUME NEW c \in Frames
      PROVE  /\ By(c)' = By(c)
             /\ frame'[c].state = "blocked" <=> frame[c].state = "blocked"
  BY DEF Kept, Steady, By
<1>3. ASSUME NEW c \in Frames
      PROVE  Pending(c)' <=> Pending(c)
  <2>1. CASE c = f
    <3>1. frame'[c].via = frame[c].via
      BY DEF Kept
    <3>2. frame[c].via = "outer" => c = 1
      BY DEF Tree, BornWell
    <3> QED
      BY <2>1, <3>1, <3>2 DEF Pending, Live, Refusals
  <2>2. CASE c # f
    BY <2>2 DEF Pending, Live, Kept, Steady, Refusals
  <2> QED
    BY <2>1, <2>2
<1>4. Frames' = Frames
  BY DEF Stays
<1>5. \A c \in Frames : Pending(c)' => frame'[By(c)'].state = "blocked"
  BY <1>1, <1>2, <1>3 DEF Waits, Pending
<1>6. \A g \in Frames : frame'[g].state = "blocked" =>
         \E c \in Frames : Pending(c)' /\ By(c)' = g
  BY <1>2, <1>3 DEF Waits
<1>7. \A c, d \in Frames : Pending(c)' /\ Pending(d)' /\ By(c)' = By(d)' => c = d
  BY <1>2, <1>3 DEF Waits
<1> QED
  BY <1>4, <1>5, <1>6, <1>7 DEF Waits, By

\* A call ends, and its caller runs again.
LEMMA WaitsReturned ==
    ASSUME Typed, Tree, Waits, Kept, Stays, NEW f \in Frames, NEW g \in Frames,
           Steady({f, g}), By(g) = f, frame[g].via \notin {"outer", "task", "fresh"},
           frame[g].state = "returned", frame'[g].state = "done", frame'[f].state = "running"
    PROVE  Waits'
<1>1. /\ \A c \in Frames : c # 1 => By(c) \in Frames
      /\ f # g /\ g # 1
  BY FramesTyped DEF Tree, BornWell
<1>2. \A c \in Frames : By(c)' = By(c)
  BY DEF Kept, By
<1>3. Pending(g) /\ frame[f].state = "blocked"
  BY <1>1 DEF Pending, Live, Refusals, Waits
<1>4. ASSUME NEW c \in Frames
      PROVE  Pending(c)' <=> Pending(c) /\ c # g
  <2>1. CASE c = f
    BY <1>1, <1>3, <2>1 DEF Pending, Live, Kept, Refusals
  <2>2. CASE c = g
    BY <2>2 DEF Pending, Live
  <2>3. CASE c \notin {f, g}
    BY <2>3 DEF Pending, Live, Kept, Steady, Refusals
  <2> QED
    BY <2>1, <2>2, <2>3
<1>5. \A c \in Frames : frame'[c].state = "blocked" <=> frame[c].state = "blocked" /\ c # f
  BY DEF Steady
<1>6. ASSUME NEW c \in Frames, Pending(c)' PROVE frame'[By(c)'].state = "blocked"
  <2>1. Pending(c) /\ c # g /\ By(c) \in Frames
    BY <1>1, <1>4, <1>6 DEF Pending
  <2>2. By(c) # f /\ frame[By(c)].state = "blocked"
    BY <1>3, <2>1 DEF Waits
  <2> QED
    BY <1>2, <1>5, <2>1, <2>2
<1>7. ASSUME NEW h \in Frames, frame'[h].state = "blocked"
      PROVE  \E c \in Frames : Pending(c)' /\ By(c)' = h
  <2>1. frame[h].state = "blocked" /\ h # f
    BY <1>5, <1>7
  <2>2. PICK c \in Frames : Pending(c) /\ By(c) = h
    BY <2>1 DEF Waits
  <2> QED
    BY <1>2, <1>4, <2>1, <2>2
<1>8. \A c, d \in Frames : Pending(c)' /\ Pending(d)' /\ By(c)' = By(d)' => c = d
  BY <1>2, <1>4 DEF Waits
<1> QED
  BY <1>6, <1>7, <1>8 DEF Waits, By, Stays

LEMMA StationsKept ==
    ASSUME Stations, Kept, NEW S, Steady(S), \A g \in S : g \in Frames /\ InState(g)',
           \A n \in Frames' \ Frames : InState(n)'
    PROVE  Stations'
<1>1. \A e \in Executors : e \in Executors'
  BY DEF Executors, Kept
<1>2. ASSUME NEW g \in Frames \ S PROVE InState(g)'
  BY <1>1 DEF Stations, InState, Kept, Steady
<1> QED
  BY <1>2 DEF Stations

\* No work is queued but in a new frame, and no executor ends that has some.
LEMMA ServedKept ==
    ASSUME Tree, Stations, Served, Kept,
           \A g \in Frames : frame'[g].state = "queued" => frame[g].state = "queued",
           \A e, g \in Frames : Live(e) /\ frame[g].exec = e /\ frame[g].state = "queued"
                                => Live(e)' \/ frame'[g].state # "queued",
           \A n \in Frames' \ Frames : frame'[n].state = "queued" /\ frame'[n].exec # Single
                                          => Live(frame[n].exec)'
    PROVE  Served'
<1>1. ASSUME NEW g \in Frames', frame'[g].state = "queued", frame'[g].exec # Single
      PROVE  Live(frame[g].exec)'
  <2>1. CASE g \in Frames
    <3>1. frame[g].state = "queued" /\ frame[g].exec = frame'[g].exec
      BY <1>1, <2>1 DEF Kept
    <3>2. Live(frame[g].exec)
      BY <1>1, <2>1, <3>1 DEF Served
    <3> QED
      <4>1. PICK e : e = frame[g].exec
        OBVIOUS
      <4>2. e \in Frames
        BY <2>1, <3>1, <3>2, <4>1, <1>1 DEF Tree, BornWell, Executors, Stations, InState
      <4> QED
        BY <1>1, <2>1, <3>1, <3>2, <4>1, <4>2 DEF Kept
  <2> QED
    BY <1>1, <2>1 DEF Single
<1> QED
  BY <1>1 DEF Served, Single

\* The walk up the executors stays among those it can reach, and ends at one
\* that runs, if not at the bottom.
LEMMA RunningWithin ==
    ASSUME Ordered, NEW S \in SUBSET ({None} \union Frames),
           \A e \in S : e # None /\ Broken(e) => frame[e].old \in S
    PROVE  \A e \in S : /\ StillRunning[e] \in S
                        /\ StillRunning[e] = None \/ ~ Broken(StillRunning[e])
<1> DEFINE Good(e) == /\ StillRunning[e] \in S
                      /\ StillRunning[e] = None \/ ~ Broken(StillRunning[e])
           Bad == {e \in S : ~ Good(e)}
<1>1. Frames = 1 .. Len(frame) /\ Len(frame) \in Nat /\ RunningDefined
  BY FramesNumbered, RunningUnfolds DEF Ordered
<1>2. ASSUME NEW e \in S, \A x \in S : x < e => Good(x)
      PROVE  Good(e)
  <2>1. CASE e = None
    BY <1>1, <2>1 DEF RunningDefined
  <2>2. CASE e # None /\ ~ Broken(e)
    <3>1. StillRunning[e] = e
      BY <1>1, <2>2 DEF RunningDefined
    <3> QED
      BY <2>2, <3>1
  <2>3. CASE e # None /\ Broken(e)
    <3>1. StillRunning[e] = StillRunning[frame[e].old]
      BY <1>1, <2>3 DEF RunningDefined
    <3>2. frame[e].old \in S /\ frame[e].old < e
      BY <1>1, <2>3 DEF Ordered
    <3> QED
      BY <1>2, <3>1, <3>2
  <2> QED
    BY <2>1, <2>2, <2>3
<1> HIDE DEF Good
<1>3. Bad = {}
  <2> SUFFICES ASSUME Bad # {} PROVE FALSE
    OBVIOUS
  <2>1. PICK e \in Bad : \A x \in Bad : e <= x
    <3>1. S \in SUBSET Nat
      BY <1>1 DEF None
    <3>2. Bad \in SUBSET Nat
      BY <3>1
    <3> QED
      BY <3>2, LeastNumber
  <2>2. \A x \in S : x < e => Good(x)
    <3>1. S \in SUBSET Nat /\ e \in S
      BY <1>1 DEF None
    <3> QED
      BY <2>1, <3>1
  <2> QED
    BY <1>2, <2>1, <2>2
<1> QED
  BY <1>3 DEF Good

LEMMA ClosestExecutor ==
    ASSUME Structure, NEW e \in {None} \union Executors
    PROVE  /\ Closest(e) \in {None} \union Executors
           /\ Closest(e) = None \/ ~ Broken(Closest(e))
<1> DEFINE S == {None} \union Executors
<1>1. Ordered /\ S \in SUBSET ({None} \union Frames) /\ e \in S
  BY TreeOrdered DEF Structure, Executors
<1>2. \A x \in S : x # None /\ Broken(x) => frame[x].old \in S
  BY DEF Structure, Tree, BornWell, Executors
<1> HIDE DEF S
<1>3. \A x \in S : /\ StillRunning[x] \in S
                   /\ StillRunning[x] = None \/ ~ Broken(StillRunning[x])
  BY <1>1, <1>2, RunningWithin
<1> QED
  BY <1>1, <1>3 DEF S, Closest

LEMMA ChosenWell ==
    ASSUME Structure, NEW f \in Frames, frame[f].kind = "async"
    PROVE  /\ ChooseExecutor(f) \in {None, Single} \union Executors
           /\ Chosen(f) \in {None, Single} \union Executors
           /\ Chosen(f) \in Executors => Live(Chosen(f))
<1>1. /\ Frames = 1 .. Len(frame) /\ Len(frame) \in Nat /\ Frames \subseteq 1 .. MaxFrames
      /\ MaxFrames \in Nat
  BY FramesTyped, NumbersTyped DEF Structure
<1>2. BornWell(f) /\ InState(f) /\ frame[f].loop \in Frames
  BY <1>1 DEF Structure, Tree, Stations, BornWell
<1>3. ChooseExecutor(f) \in {None, Single} \union Executors
  BY <1>2 DEF ChooseExecutor, InState, LoopThreadExecutor, Executors
<1>4. \A e \in Executors : e # Single /\ e # None /\ e \in Frames
  BY <1>1 DEF Executors, Single, None
<1>5. \A e \in {None} \union Executors :
         /\ Closest(e) \in {None} \union Executors
         /\ Closest(e) = None \/ ~ Broken(Closest(e))
  BY ClosestExecutor
<1>6. \A e \in Executors : ~ Broken(e) => Live(e)
  BY DEF Executors, Broken, Live, Structure, Tree, Stations, BornWell, InState, Refusals
<1>7. Chosen(f) \in {None, Single} \/ Chosen(f) = Closest(ChooseExecutor(f))
  BY DEF Chosen
<1>8. Chosen(f) \in Executors =>
         ChooseExecutor(f) \in Executors /\ Chosen(f) = Closest(ChooseExecutor(f))
  BY <1>3, <1>4 DEF Chosen
<1> QED
  <2>1. Chosen(f) \in {None, Single} \union Executors
    BY <1>3, <1>5 DEF Chosen
  <2>2. Chosen(f) \in Executors => Live(Chosen(f))
    BY <1>4, <1>5, <1>6, <1>8
  <2> QED
    BY <1>3, <2>1, <2>2

-----------------------------------------------------------------------------
(* The structure is kept.                                                   *)

LEMMA StructureCallAsync ==
    ASSUME Structure, NEW f \in Frames, NEW via \in {"a2s", "force"}, CallAsync(f, via)
    PROVE  Structure'
<1>1. /\ Typed /\ Tree /\ Stations /\ Remembered /\ Waits /\ Served
      /\ Frames = 1 .. Len(frame) /\ Len(frame) \in Nat
  BY FramesTyped DEF Structure
<1>2. PICK n : n = New
  OBVIOUS
<1>3. /\ Kept /\ Steady({f}) /\ tl' = tl /\ Typed'
      /\ Frames' = Frames \union {n} /\ n \notin Frames /\ n # 1 /\ n \in Nat
      /\ frame[f].kind = "sync" /\ frame[f].state = "running"
      /\ Becomes(f, "blocked", n, frame[f].dl)
      /\ frame'[n].kind = "async" /\ frame'[n].via = via /\ frame'[n].parent = f
      /\ frame'[n].loop = IF MainLoop(f, via) = None THEN n ELSE MainLoop(f, via)
      /\ frame'[n].exec = None /\ frame'[n].old = frame[f].cur
      /\ frame'[n].cur = n /\ frame'[n].dl = frame[f].dl
      /\ frame'[n].state \in {"running", "waiting"}
  <2>1. /\ Kept /\ Grows /\ Steady({f}) /\ tl' = tl /\ Typed'
        /\ frame[f].kind = "sync" /\ frame[f].state = "running"
        /\ frame'[f].state = "blocked" /\ frame'[f].cur = New /\ frame'[f].dl = frame[f].dl
        /\ frame'[New].kind = "async" /\ frame'[New].via = via /\ frame'[New].parent = f
        /\ frame'[New].loop = (IF MainLoop(f, via) = None THEN New ELSE MainLoop(f, via))
        /\ frame'[New].exec = None /\ frame'[New].old = frame[f].cur
        /\ frame'[New].cur = New /\ frame'[New].dl = frame[f].dl
        /\ frame'[New].state \in {"running", "waiting"}
    BY <1>1, CallAsyncDoes DEF Becomes
  <2>2. Frames' = Frames \union {n} /\ n \notin Frames /\ n # 1 /\ n \in Nat
    BY <1>1, <1>2, <2>1, FramesTyped DEF Grows, New
  <2> QED
    BY <1>2, <2>1, <2>2 DEF Becomes
<1>4. MainLoop(f, via) # None =>
         /\ MainLoop(f, via) \in Frames /\ frame[MainLoop(f, via)].kind = "async"
         /\ frame[MainLoop(f, via)].loop = MainLoop(f, via)
  <2>1. frame[f].thread \in Threads
    BY <1>1, FramesTyped, PartsTyped
  <2> QED
    BY <1>1, <2>1 DEF MainLoop, Remembered
<1>5. BornWell(n)'
  <2>1. frame[f].cur \in {None} \union Executors
    BY <1>1 DEF Stations, InState
  <2>2. /\ n \in Executors' /\ \A e \in Executors : e \in Executors' /\ e \in 1 .. n - 1
    BY <1>1, <1>2, <1>3 DEF Executors, Kept, New
  <2>3. f \in 1 .. n - 1 /\ By(n)' = f /\ frame'[f].kind = "sync"
    BY <1>1, <1>2, <1>3 DEF By, New, Kept
  <2>4. /\ frame'[n].loop \in 1 .. n /\ frame'[frame'[n].loop].kind = "async"
        /\ frame'[frame'[n].loop].loop = frame'[n].loop
    <3>1. CASE MainLoop(f, via) = None
      BY <1>1, <1>2, <1>3, <3>1 DEF New
    <3>2. CASE MainLoop(f, via) # None
      <4>1. /\ MainLoop(f, via) \in Frames /\ frame'[MainLoop(f, via)].kind = "async"
            /\ frame'[MainLoop(f, via)].loop = MainLoop(f, via)
        BY <1>3, <1>4, <3>2 DEF Kept
      <4> QED
        BY <1>1, <1>2, <1>3, <3>2, <4>1 DEF New
    <3> QED
      BY <3>1, <3>2
  <2> QED
    BY <1>3, <2>1, <2>2, <2>3, <2>4 DEF BornWell, By, None
<1>6. Tree'
  BY <1>1, <1>3, <1>5, TreeKept
<1>7. Stations'
  <2>1. n \in Executors'
    BY <1>3 DEF Executors
  <2>2. InState(f)' /\ InState(n)'
    BY <1>3, <2>1 DEF InState, Becomes, Kept
  <2> QED
    BY <1>1, <1>3, <2>2, StationsKept
<1>8. Remembered'
  BY <1>1, <1>3, RememberedKept
<1>9. Waits'
  <2>1. Grows
    BY <1>1, CallAsyncDoes
  <2>2. frame'[f].state = "blocked"
    BY <1>3 DEF Becomes
  <2>3. /\ frame'[New].parent = f /\ frame'[New].via \notin {"task", "fresh"}
        /\ frame'[New].state \notin {"done", "blocked"} \union Refusals
    BY <1>2, <1>3 DEF Refusals
  <2> QED
    BY <1>1, <1>3, <2>1, <2>2, <2>3, WaitsCalled
<1>10. Served'
  <2>1. \A g \in Frames : frame'[g].state = "queued" => frame[g].state = "queued"
    BY <1>3 DEF Becomes, Steady
  <2>2. \A e \in Frames : Live(e) => Live(e)'
    BY <1>3 DEF Becomes, Steady, Live, Refusals
  <2> QED
    BY <1>1, <1>3, <2>1, <2>2, ServedKept
<1> QED
  BY <1>3, <1>6, <1>7, <1>8, <1>9, <1>10 DEF Structure

\* The frame a call is born in.
LEMMA NewFrame ==
    ASSUME Typed, Grows, NEW n, n = New
    PROVE  /\ Frames' = Frames \union {n} /\ n \notin Frames /\ n # 1 /\ n \in Nat
           /\ n \in 1 .. MaxFrames /\ \A f \in Frames : f \in 1 .. n - 1
  BY FramesTyped, NumbersTyped DEF Grows, New

LEMMA StructureCallSensitive ==
    ASSUME Structure, NEW f \in Frames, CallSensitive(f)
    PROVE  Structure'
<1>1. /\ Typed /\ Tree /\ Stations /\ Remembered /\ Waits /\ Served
      /\ Frames = 1 .. Len(frame) /\ Len(frame) \in Nat
  BY FramesTyped DEF Structure
<1>2. PICK n : n = New
  OBVIOUS
<1>3. frame[f].kind = "async"
  BY DEF CallSensitive
<1>4. /\ Chosen(f) \in {None, Single} \union Executors
      /\ Chosen(f) \in Executors => Live(Chosen(f))
  BY <1>3, ChosenWell
<1>5. Chosen(f) \in 0 .. MaxFrames + 1
  BY <1>1, <1>4, FramesTyped, NumbersTyped DEF Single, None, Executors
<1>6. /\ Kept /\ Grows /\ tl' = tl /\ Typed'
      /\ frame[f].kind = "async" /\ frame[f].state = "running"
      /\ frame'[New].kind = "sync" /\ frame'[New].via = "s2a"
      /\ frame'[New].parent = f /\ frame'[New].loop = None /\ frame'[New].old = None
      /\ frame'[New].cur = frame[f].cur /\ frame'[New].dl = Mark(f)
      /\ Refused(f) \/ Submitted(f)
  BY <1>1, <1>5, CallSensitiveDoes
<1>7. /\ Frames' = Frames \union {n} /\ n \notin Frames /\ n # 1 /\ n \in Nat
      /\ n \in 1 .. MaxFrames /\ \A g \in Frames : g \in 1 .. n - 1
  BY <1>1, <1>2, <1>6, NewFrame
<1>8. frame[f].cur \in {None} \union Executors
  BY <1>1 DEF Stations, InState
<1>9. \A e \in Executors : e \in Executors' /\ e \in 1 .. n - 1
  BY <1>6, <1>7 DEF Executors, Kept
<1>10. frame'[n].exec = Chosen(f)
  BY <1>2, <1>6 DEF Refused, Submitted
<1>11. BornWell(n)'
  <2>1. f \in 1 .. n - 1 /\ By(n)' = f /\ frame'[f].kind = "async"
    BY <1>2, <1>6, <1>7 DEF By, Kept
  <2>2. /\ frame'[n].exec \in {None, Single}' \/ (frame'[n].exec \in Executors' /\ frame'[n].exec < n)
        /\ frame'[n].exec # n
    BY <1>4, <1>7, <1>9, <1>10, NumbersTyped DEF Single, None
  <2> QED
    BY <1>2, <1>6, <1>7, <2>1, <2>2 DEF BornWell, By, None
<1>12. Tree'
  BY <1>1, <1>6, <1>7, <1>11, TreeKept
<1>13. Remembered'
  BY <1>1, <1>6, RememberedKept
<1>14. InState(n)'
  BY <1>2, <1>6, <1>8, <1>9, <1>10 DEF InState, Refused, Submitted, Refusals
<1>15. CASE Refused(f)
  <2>1. Steady({}) /\ frame'[n].state \in Refusals
    BY <1>2, <1>15 DEF Refused
  <2>2. Stations'
    BY <1>1, <1>6, <1>7, <1>14, <2>1, StationsKept
  <2>3. Waits'
    BY <1>1, <1>2, <1>6, <2>1, WaitsAdded DEF Refusals
  <2>4. \A g \in Frames : frame'[g].state = frame[g].state
    BY <2>1 DEF Steady
  <2>5. \A e \in Frames : Live(e) => Live(e)'
    BY <2>4 DEF Live, Refusals
  <2>6. frame'[n].state # "queued"
    BY <2>1 DEF Refusals
  <2>7. Served'
    BY <1>1, <1>6, <1>7, <2>4, <2>5, <2>6, ServedKept
  <2> QED
    BY <1>6, <1>12, <1>13, <2>2, <2>3, <2>7 DEF Structure
<1>16. CASE Submitted(f)
  <2>1. /\ Steady({f}) /\ Becomes(f, "blocked", frame[f].cur, Mark(f))
        /\ frame'[n].state = "queued" /\ Chosen(f) # None
    BY <1>2, <1>16 DEF Submitted
  <2>2. frame'[f].state = "blocked" /\ frame'[f].cur = frame[f].cur
    BY <2>1 DEF Becomes
  <2>3. InState(f)'
    BY <1>6, <1>8, <1>9, <2>2 DEF InState, Kept
  <2>4. Stations'
    BY <1>1, <1>6, <1>7, <1>14, <2>1, <2>3, StationsKept
  <2>5. Waits'
    <3>1. /\ frame'[New].via \notin {"task", "fresh"}
          /\ frame'[New].state \notin {"done", "blocked"} \union Refusals
      BY <1>2, <1>6, <2>1 DEF Refusals
    <3> QED
      BY <1>1, <1>6, <2>1, <2>2, <3>1, WaitsCalled
  <2>6. \A g \in Frames : frame'[g].state = "queued" => frame[g].state = "queued"
    BY <2>1, <2>2 DEF Steady
  <2>7. \A e \in Frames : Live(e) => Live(e)'
    BY <2>1, <2>2 DEF Steady, Live, Refusals
  <2>8. frame'[n].exec # Single => Live(frame[n].exec)'
    <3>1. PICK e : e = frame'[n].exec
      OBVIOUS
    <3>2. e # Single => e \in Frames /\ Live(e)
      BY <1>4, <1>10, <2>1, <3>1 DEF Executors
    <3> QED
      BY <2>7, <3>1, <3>2
  <2>9. Served'
    BY <1>1, <1>6, <1>7, <2>6, <2>7, <2>8, ServedKept
  <2> QED
    BY <1>6, <1>12, <1>13, <2>4, <2>5, <2>9 DEF Structure
<1> QED
  BY <1>6, <1>15, <1>16

LEMMA StructureCallInsensitive ==
    ASSUME Structure, NEW f \in Frames, CallInsensitive(f)
    PROVE  Structure'
<1>1. /\ Typed /\ Tree /\ Stations /\ Remembered /\ Waits /\ Served
      /\ Frames = 1 .. Len(frame) /\ Len(frame) \in Nat
  BY FramesTyped DEF Structure
<1>2. PICK n : n = New
  OBVIOUS
<1>3. /\ Kept /\ Grows /\ Steady({f}) /\ tl' = tl /\ Typed'
      /\ frame[f].kind = "async" /\ frame[f].state = "running"
      /\ frame'[f].state = "blocked" /\ frame'[f].cur = frame[f].cur
      /\ frame'[n].kind = "sync" /\ frame'[n].via = "pool" /\ frame'[n].parent = f
      /\ frame'[n].loop = None /\ frame'[n].exec = n /\ frame'[n].old = None
      /\ frame'[n].cur = frame[f].cur /\ frame'[n].state = "queued"
  BY <1>1, <1>2, CallInsensitiveDoes DEF Becomes
<1>4. /\ Frames' = Frames \union {n} /\ n \notin Frames /\ n # 1 /\ n \in Nat
      /\ n \in 1 .. MaxFrames /\ \A g \in Frames : g \in 1 .. n - 1
  BY <1>1, <1>2, <1>3, NewFrame
<1>5. frame[f].cur \in {None} \union Executors
  BY <1>1 DEF Stations, InState
<1>6. \A e \in Executors : e \in Executors' /\ e \in 1 .. n - 1
  BY <1>3, <1>4 DEF Executors, Kept
<1>7. BornWell(n)'
  <2>1. f \in 1 .. n - 1 /\ By(n)' = f /\ frame'[f].kind = "async"
    BY <1>3, <1>4 DEF By, Kept
  <2> QED
    BY <1>3, <1>4, <2>1 DEF BornWell, By, None
<1>8. Tree'
  BY <1>1, <1>3, <1>4, <1>7, TreeKept
<1>9. Stations'
  <2>1. InState(f)' /\ InState(n)'
    BY <1>3, <1>4, <1>5, <1>6 DEF InState, Kept, None
  <2> QED
    BY <1>1, <1>3, <1>4, <2>1, StationsKept
<1>10. Remembered'
  BY <1>1, <1>3, RememberedKept
<1>11. Waits'
  <2>1. /\ frame'[New].parent = f /\ frame'[New].via \notin {"task", "fresh"}
        /\ frame'[New].state \notin {"done", "blocked"} \union Refusals
    BY <1>2, <1>3 DEF Refusals
  <2> QED
    BY <1>1, <1>3, <2>1, WaitsCalled
<1>12. Served'
  <2>1. \A g \in Frames : frame'[g].state = "queued" => frame[g].state = "queued"
    BY <1>3 DEF Steady
  <2>2. \A e \in Frames : Live(e) => Live(e)'
    BY <1>3 DEF Steady, Live, Refusals
  <2>3. Live(frame[n].exec)'
    BY <1>3 DEF Live, Refusals
  <2> QED
    BY <1>1, <1>3, <1>4, <2>1, <2>2, <2>3, ServedKept
<1> QED
  BY <1>3, <1>8, <1>9, <1>10, <1>11, <1>12 DEF Structure

LEMMA StructureCreateTask ==
    ASSUME Structure, NEW f \in Frames, NEW via \in {"task", "fresh"}, CreateTask(f, via)
    PROVE  Structure'
<1>1. /\ Typed /\ Tree /\ Stations /\ Remembered /\ Waits /\ Served
      /\ Frames = 1 .. Len(frame) /\ Len(frame) \in Nat
  BY FramesTyped DEF Structure
<1>2. PICK n : n = New
  OBVIOUS
<1>3. /\ Kept /\ Grows /\ Steady({}) /\ tl' = tl /\ Typed'
      /\ frame[f].kind = "async" /\ frame[f].state = "running"
      /\ frame'[n].kind = "async" /\ frame'[n].via = via /\ frame'[n].parent = f
      /\ frame'[n].loop = frame[f].loop /\ frame'[n].exec = None /\ frame'[n].old = None
      /\ frame'[n].cur \in {None, frame[f].cur} /\ frame'[n].state = "running"
  BY <1>1, <1>2, CreateTaskDoes
<1>4. /\ Frames' = Frames \union {n} /\ n \notin Frames /\ n # 1 /\ n \in Nat
      /\ n \in 1 .. MaxFrames /\ \A g \in Frames : g \in 1 .. n - 1
  BY <1>1, <1>2, <1>3, NewFrame
<1>5. frame[f].cur \in {None} \union Executors
  BY <1>1 DEF Stations, InState
<1>6. \A e \in Executors : e \in Executors' /\ e \in 1 .. n - 1
  BY <1>3, <1>4 DEF Executors, Kept
<1>7. BornWell(n)'
  <2>1. f \in 1 .. n - 1 /\ By(n)' = f /\ frame'[f].kind = "async" /\ frame'[f].loop = frame[f].loop
    BY <1>3, <1>4 DEF By, Kept
  <2>2. /\ frame[f].loop \in 1 .. f /\ frame[f].loop \in Frames
        /\ frame[frame[f].loop].kind = "async" /\ frame[frame[f].loop].loop = frame[f].loop
    BY <1>1, <1>3 DEF Tree, BornWell
  <2>3. /\ frame'[n].loop \in 1 .. n - 1 /\ frame'[frame'[n].loop].kind = "async"
        /\ frame'[frame'[n].loop].loop = frame'[n].loop
    BY <1>3, <1>4, <2>2 DEF Kept
  <2> QED
    BY <1>3, <1>4, <2>1, <2>3 DEF BornWell, By, None
<1>8. Tree'
  BY <1>1, <1>3, <1>4, <1>7, TreeKept
<1>9. Stations'
  <2>1. InState(n)'
    BY <1>3, <1>4, <1>5, <1>6 DEF InState, None
  <2> QED
    BY <1>1, <1>3, <1>4, <2>1, StationsKept
<1>10. Remembered'
  BY <1>1, <1>3, RememberedKept
<1>11. Waits'
  BY <1>1, <1>2, <1>3, WaitsAdded
<1>12. Served'
  <2>1. \A g \in Frames : frame'[g].state = frame[g].state
    BY <1>3 DEF Steady
  <2>2. \A e \in Frames : Live(e) => Live(e)'
    BY <2>1 DEF Live, Refusals
  <2> QED
    BY <1>1, <1>3, <1>4, <2>1, <2>2, ServedKept
<1> QED
  BY <1>3, <1>8, <1>9, <1>10, <1>11, <1>12 DEF Structure

LEMMA StructureRunLoop ==
    ASSUME Structure, NEW f \in Frames, RunLoop(f)
    PROVE  Structure'
<1>1. /\ Typed /\ Tree /\ Stations /\ Remembered /\ Waits /\ Served
      /\ Frames = 1 .. Len(frame) /\ Len(frame) \in Nat
  BY FramesTyped DEF Structure
<1>2. PICK n : n = New
  OBVIOUS
<1>3. /\ Kept /\ Grows /\ Steady({f}) /\ tl' = tl /\ Typed'
      /\ frame[f].kind = "sync" /\ frame[f].state = "running"
      /\ frame'[f].state = "blocked" /\ frame'[f].cur = frame[f].cur
      /\ frame'[n].kind = "async" /\ frame'[n].via = "run" /\ frame'[n].parent = f
      /\ frame'[n].loop = n /\ frame'[n].exec = None /\ frame'[n].old = None
      /\ frame'[n].cur = frame[f].cur /\ frame'[n].state = "running"
  BY <1>1, <1>2, RunLoopDoes DEF Becomes
<1>4. /\ Frames' = Frames \union {n} /\ n \notin Frames /\ n # 1 /\ n \in Nat
      /\ n \in 1 .. MaxFrames /\ \A g \in Frames : g \in 1 .. n - 1
  BY <1>1, <1>2, <1>3, NewFrame
<1>5. frame[f].cur \in {None} \union Executors
  BY <1>1 DEF Stations, InState
<1>6. \A e \in Executors : e \in Executors' /\ e \in 1 .. n - 1
  BY <1>3, <1>4 DEF Executors, Kept
<1>7. BornWell(n)'
  <2>1. f \in 1 .. n - 1 /\ By(n)' = f /\ frame'[f].kind = "sync"
    BY <1>3, <1>4 DEF By, Kept
  <2> QED
    BY <1>3, <1>4, <2>1 DEF BornWell, By, None
<1>8. Tree'
  BY <1>1, <1>3, <1>4, <1>7, TreeKept
<1>9. Stations'
  <2>1. InState(f)' /\ InState(n)'
    BY <1>3, <1>4, <1>5, <1>6 DEF InState, Kept, None
  <2> QED
    BY <1>1, <1>3, <1>4, <2>1, StationsKept
<1>10. Remembered'
  BY <1>1, <1>3, RememberedKept
<1>11. Waits'
  <2>1. /\ frame'[New].parent = f /\ frame'[New].via \notin {"task", "fresh"}
        /\ frame'[New].state \notin {"done", "blocked"} \union Refusals
    BY <1>2, <1>3 DEF Refusals
  <2> QED
    BY <1>1, <1>3, <2>1, WaitsCalled
<1>12. Served'
  <2>1. \A g \in Frames : frame'[g].state = "queued" => frame[g].state = "queued"
    BY <1>3 DEF Steady
  <2>2. \A e \in Frames : Live(e) => Live(e)'
    BY <1>3 DEF Steady, Live, Refusals
  <2> QED
    BY <1>1, <1>3, <1>4, <2>1, <2>2, ServedKept
<1> QED
  BY <1>3, <1>8, <1>9, <1>10, <1>11, <1>12 DEF Structure

\* A frame that is not blocked turns.
LEMMA StructureTurned ==
    ASSUME Structure, Kept, Stays, NEW f \in Frames, Steady({f}), Typed', Remembered',
           Live(f), frame[f].state # "blocked", frame'[f].cur = frame[f].cur, InState(f)',
           frame'[f].state \notin {"blocked", "queued"},
           frame[f].via \in {"outer", "task", "fresh"} \/ Live(f)'
    PROVE  Structure'
<1>1. /\ Typed /\ Tree /\ Stations /\ Remembered /\ Waits /\ Served
      /\ Frames = 1 .. Len(frame) /\ Len(frame) \in Nat
  BY FramesTyped DEF Structure
<1>2. Frames' = Frames
  BY DEF Stays
<1>3. Tree'
  BY <1>1, <1>2, TreeKept
<1>4. Stations'
  BY <1>1, <1>2, StationsKept
<1>5. Waits'
  BY <1>1, WaitsTurned
<1>6. Served'
  <2>1. \A g \in Frames : frame'[g].state = "queued" => frame[g].state = "queued"
    BY DEF Steady
  <2>2. ASSUME NEW e \in Frames, NEW g \in Frames, Live(e), frame[g].exec = e,
               frame[g].state = "queued"
        PROVE  Live(e)' \/ frame'[g].state # "queued"
    <3>1. CASE e # f
      BY <2>2, <3>1 DEF Live, Steady, Refusals
    <3>2. CASE e = f /\ g = f
      BY <3>2
    <3>3. CASE e = f /\ g # f
      <4>1. e \notin {None, Single}
        BY <1>1, NumbersTyped, FramesTyped DEF None
      <4>2. e \in Executors
        BY <1>1, <2>2, <3>3, <4>1 DEF Tree, BornWell
      <4> QED
        BY <3>3, <4>2 DEF Executors
    <3> QED
      BY <3>1, <3>2, <3>3
  <2> QED
    BY <1>1, <1>2, <2>1, <2>2, ServedKept
<1> QED
  BY <1>3, <1>4, <1>5, <1>6 DEF Structure

LEMMA StructureStartLoop ==
    ASSUME Structure, NEW f \in Frames, StartLoop(f) PROVE Structure'
<1>1. /\ Typed /\ Tree /\ Stations /\ Remembered /\ Waits /\ Served
      /\ Frames = 1 .. Len(frame) /\ Len(frame) \in Nat
  BY FramesTyped DEF Structure
<1>2. /\ Kept /\ Stays /\ Steady({f}) /\ tl' = tl /\ Typed'
      /\ frame[f].state = "waiting" /\ frame'[f].state = "running"
      /\ frame'[f].cur = frame[f].cur
  BY <1>1, StartLoopDoes DEF Becomes
<1>3. InState(f)'
  BY <1>1, <1>2 DEF Stations, InState, Kept, Executors, Refusals
<1>4. Live(f) /\ Live(f)'
  BY <1>2 DEF Live, Refusals
<1> QED
  BY <1>1, <1>2, <1>3, <1>4, RememberedKept, StructureTurned

LEMMA StructureJoin ==
    ASSUME Structure, NEW f \in Frames, Join(f) PROVE Structure'
<1>1. /\ Typed /\ Tree /\ Stations /\ Remembered /\ Waits /\ Served
      /\ Frames = 1 .. Len(frame) /\ Len(frame) \in Nat
  BY FramesTyped DEF Structure
<1>2. /\ Kept /\ Stays /\ Steady({f}) /\ tl' = tl /\ Typed'
      /\ frame[f].kind = "async" /\ frame[f].state = "running"
      /\ frame'[f].state = "joining" /\ frame'[f].cur = frame[f].cur
  BY <1>1, JoinDoes DEF Becomes
<1>3. InState(f)'
  BY <1>1, <1>2 DEF Stations, InState, Kept, Executors, Refusals
<1>4. Live(f) /\ Live(f)'
  BY <1>2 DEF Live, Refusals
<1> QED
  BY <1>1, <1>2, <1>3, <1>4, RememberedKept, StructureTurned

LEMMA StructureJoined ==
    ASSUME Structure, NEW f \in Frames, Joined(f) PROVE Structure'
<1>1. /\ Typed /\ Tree /\ Stations /\ Remembered /\ Waits /\ Served
      /\ Frames = 1 .. Len(frame) /\ Len(frame) \in Nat
  BY FramesTyped DEF Structure
<1>2. /\ Kept /\ Stays /\ Steady({f}) /\ tl' = tl /\ Typed'
      /\ frame[f].state = "joining" /\ frame'[f].state = "running"
      /\ frame'[f].cur = frame[f].cur
  BY <1>1, JoinedDoes DEF Becomes
<1>3. InState(f)'
  BY <1>1, <1>2 DEF Stations, InState, Kept, Executors, Refusals
<1>4. Live(f) /\ Live(f)'
  BY <1>2 DEF Live, Refusals
<1> QED
  BY <1>1, <1>2, <1>3, <1>4, RememberedKept, StructureTurned

LEMMA StructureReturn ==
    ASSUME Structure, NEW f \in Frames, Return(f) PROVE Structure'
<1>1. /\ Typed /\ Tree /\ Stations /\ Remembered /\ Waits /\ Served
      /\ Frames = 1 .. Len(frame) /\ Len(frame) \in Nat
  BY FramesTyped DEF Structure
<1>2. /\ Kept /\ Stays /\ Steady({f}) /\ tl' = tl /\ Typed'
      /\ frame[f].state = "running" /\ frame'[f].state = Ending(f)
      /\ frame'[f].cur = frame[f].cur
  BY <1>1, ReturnDoes DEF Becomes
<1>3. InState(f)'
  BY <1>1, <1>2 DEF Stations, InState, Kept, Executors, Refusals, Ending
<1>4. Live(f) /\ (frame[f].via \in {"outer", "task", "fresh"} \/ Live(f)')
  BY <1>2 DEF Live, Refusals, Ending
<1>5. frame'[f].state \notin {"blocked", "queued"}
  BY <1>2 DEF Ending
<1> QED
  BY <1>1, <1>2, <1>3, <1>4, <1>5, RememberedKept, StructureTurned

LEMMA StructureStartSync ==
    ASSUME Structure, NEW t \in Threads, NEW f \in Frames, StartSync(t, f) PROVE Structure'
<1>1. /\ Typed /\ Tree /\ Stations /\ Remembered /\ Waits /\ Served
      /\ Frames = 1 .. Len(frame) /\ Len(frame) \in Nat
  BY FramesTyped DEF Structure
<1>2. /\ f # 1 /\ By(f) \in Frames
      /\ frame[By(f)].loop \in Frames /\ frame[frame[By(f)].loop].kind = "async"
      /\ frame[frame[By(f)].loop].loop = frame[By(f)].loop
  <2>1. frame[f].exec # None /\ BornWell(f)
    BY <1>1 DEF Tree, Stations, InState, StartSync
  <2>2. f # 1 /\ By(f) \in Frames /\ frame[By(f)].kind = "async"
    BY <2>1 DEF BornWell
  <2>3. BornWell(By(f))
    BY <1>1, <2>2 DEF Tree
  <2> QED
    BY <1>1, <2>2, <2>3 DEF BornWell
<1>3. /\ Kept /\ Stays /\ Steady({f}) /\ Typed'
      /\ tl' = [tl EXCEPT ![t] = frame[By(f)].loop]
      /\ frame[f].state = "queued" /\ frame'[f].state = "running"
      /\ frame'[f].cur = frame[f].cur
  BY <1>1, <1>2, StartSyncDoes DEF Becomes, By
<1>4. InState(f)'
  BY <1>1, <1>3 DEF Stations, InState, Kept, Executors, Refusals
<1>5. Live(f) /\ Live(f)'
  BY <1>3 DEF Live, Refusals
<1>6. Remembered'
  <2>1. ASSUME NEW u \in Threads, tl'[u] # None
        PROVE  tl'[u] \in Frames /\ frame[tl'[u]].kind = "async" /\ frame[tl'[u]].loop = tl'[u]
    BY <1>1, <1>2, <1>3, <2>1 DEF Remembered, Typed
  <2> QED
    BY <1>3, <2>1 DEF Remembered, Kept, Stays
<1> QED
  BY <1>1, <1>3, <1>4, <1>5, <1>6, StructureTurned

\* A call returns to its caller.
LEMMA StructureReturned ==
    ASSUME Structure, Kept, Stays, NEW f \in Frames, NEW g \in Frames, Steady({f, g}),
           tl' = tl, Typed', By(g) = f, frame[g].via \notin {"outer", "task", "fresh"},
           frame[g].state = "returned", frame'[g].state = "done", frame'[f].state = "running",
           frame'[g].cur = frame[g].cur, frame'[f].cur \in {None} \union Executors,
           frame[g].via \in {"a2s", "force"} => Queued(g) = {}
    PROVE  Structure'
<1>1. /\ Typed /\ Tree /\ Stations /\ Remembered /\ Waits /\ Served
      /\ Frames = 1 .. Len(frame) /\ Len(frame) \in Nat
  BY FramesTyped DEF Structure
<1>2. Frames' = Frames
  BY DEF Stays
<1>3. Tree'
  BY <1>1, <1>2, TreeKept
<1>4. Stations'
  <2>1. InState(f) /\ InState(g)
    BY <1>1 DEF Stations
  <2>2. Executors \subseteq Executors'
    BY DEF Executors, Kept
  <2>3. InState(f)' /\ InState(g)'
    BY <2>1, <2>2 DEF InState, Kept
  <2> QED
    BY <1>1, <1>2, <2>3, StationsKept
<1>5. Waits'
  BY <1>1, WaitsReturned
<1>6. Remembered'
  BY <1>1, RememberedKept
<1>7. Served'
  <2>1. f # g
    BY <1>1 DEF Tree, BornWell
  <2>2. \A h \in Frames : frame'[h].state = "queued" => frame[h].state = "queued"
    BY DEF Steady
  <2>3. ASSUME NEW e \in Frames, NEW h \in Frames, Live(e), frame[h].exec = e,
               frame[h].state = "queued"
        PROVE  Live(e)' \/ frame'[h].state # "queued"
    <3>1. CASE e = g
      <4>1. h # g
        BY <2>3
      <4>2. e \in Executors
        BY <1>1, <2>3, <3>1, <4>1, NumbersTyped, FramesTyped DEF Tree, BornWell, None
      <4>3. Queued(g) = {}
        BY <3>1, <4>2 DEF Executors
      <4> QED
        BY <2>3, <3>1, <4>3 DEF Queued
    <3>2. CASE e = f
      BY <3>2 DEF Live, Refusals
    <3>3. CASE e \notin {f, g}
      BY <2>3, <3>3 DEF Live, Steady, Refusals
    <3> QED
      BY <3>1, <3>2, <3>3
  <2> QED
    BY <1>1, <1>2, <2>2, <2>3, ServedKept
<1> QED
  BY <1>3, <1>4, <1>5, <1>6, <1>7 DEF Structure

LEMMA StructureReturnAsync ==
    ASSUME Structure, NEW f \in Frames, NEW g \in Frames, ReturnAsync(f, g) PROVE Structure'
<1>1. /\ Typed /\ Tree /\ Stations /\ Remembered /\ Waits /\ Served
      /\ Frames = 1 .. Len(frame) /\ Len(frame) \in Nat
  BY FramesTyped DEF Structure
<1>2. f # g /\ By(g) = f
  BY <1>1 DEF ReturnAsync, Tree, BornWell, By
<1>3. /\ Kept /\ Stays /\ Steady({f, g}) /\ tl' = tl /\ Typed'
      /\ frame[g].via \in {"a2s", "force"} /\ frame[g].state = "returned"
      /\ frame'[g].state = "done" /\ frame'[g].cur = frame[g].cur
      /\ frame'[f].state = "running" /\ frame'[f].cur = frame[g].old /\ Queued(g) = {}
  BY <1>1, <1>2, ReturnAsyncDoes DEF Becomes
<1>4. frame[g].old \in {None} \union Executors
  BY <1>1 DEF Tree, BornWell
<1> QED
  BY <1>1, <1>2, <1>3, <1>4, StructureReturned

LEMMA StructureReturnSync ==
    ASSUME Structure, NEW f \in Frames, NEW g \in Frames, ReturnSync(f, g) PROVE Structure'
<1>1. /\ Typed /\ Tree /\ Stations /\ Remembered /\ Waits /\ Served
      /\ Frames = 1 .. Len(frame) /\ Len(frame) \in Nat
  BY FramesTyped DEF Structure
<1>2. f # g /\ By(g) = f
  BY <1>1 DEF ReturnSync, Tree, BornWell, By
<1>3. /\ Kept /\ Stays /\ Steady({f, g}) /\ tl' = tl /\ Typed'
      /\ frame[g].via \in {"s2a", "pool"} /\ frame[g].state = "returned"
      /\ frame'[g].state = "done" /\ frame'[g].cur = frame[g].cur
      /\ frame'[f].state = "running" /\ frame'[f].cur = frame[g].cur
  <2>1. Typed /\ f # g /\ ReturnSync(f, g)
    BY <1>1, <1>2
  <2>2. /\ Kept /\ Stays /\ Steady({f, g}) /\ tl' = tl /\ Typed'
        /\ frame[g].via \in {"s2a", "pool"} /\ frame[g].state = "returned"
        /\ Becomes(g, "done", frame[g].cur, frame[g].dl)
        /\ frame'[f].state = "running" /\ frame'[f].cur = frame[g].cur
    BY <2>1, ReturnSyncDoes
  <2> QED
    BY <2>2 DEF Becomes
<1>4. frame[g].cur \in {None} \union Executors
  BY <1>1 DEF Stations, InState
<1> QED
  BY <1>1, <1>2, <1>3, <1>4, StructureReturned

LEMMA StructureReturnLoop ==
    ASSUME Structure, NEW f \in Frames, NEW g \in Frames, ReturnLoop(f, g) PROVE Structure'
<1>1. /\ Typed /\ Tree /\ Stations /\ Remembered /\ Waits /\ Served
      /\ Frames = 1 .. Len(frame) /\ Len(frame) \in Nat
  BY FramesTyped DEF Structure
<1>2. f # g /\ By(g) = f
  BY <1>1 DEF ReturnLoop, Tree, BornWell, By
<1>3. /\ Kept /\ Stays /\ Steady({f, g}) /\ tl' = tl /\ Typed'
      /\ frame[g].via = "run" /\ frame[g].state = "returned"
      /\ frame'[g].state = "done" /\ frame'[g].cur = frame[g].cur
      /\ frame'[f].state = "running" /\ frame'[f].cur = frame[f].cur
  <2>1. Typed /\ f # g /\ ReturnLoop(f, g)
    BY <1>1, <1>2
  <2>2. /\ Kept /\ Stays /\ Steady({f, g}) /\ tl' = tl /\ Typed'
        /\ frame[g].via = "run" /\ frame[g].state = "returned"
        /\ Becomes(g, "done", frame[g].cur, frame[g].dl)
        /\ frame'[f].state = "running" /\ frame'[f].cur = frame[f].cur
    BY <2>1, ReturnLoopDoes
  <2> QED
    BY <2>2 DEF Becomes
<1>4. frame[f].cur \in {None} \union Executors
  BY <1>1 DEF Stations, InState
<1> QED
  BY <1>1, <1>2, <1>3, <1>4, StructureReturned

\* The outermost program.
LEMMA FirstFrame ==
    ASSUME Init
    PROVE  /\ frame \in Seq(FrameType) /\ Len(frame) = 1 /\ Frames = {1}
           /\ frame[1].kind \in {"sync", "async"} /\ frame[1].via = "outer"
           /\ frame[1].parent = None
           /\ frame[1].loop = (IF frame[1].kind = "async" THEN 1 ELSE None)
           /\ frame[1].thread = Main /\ frame[1].exec = None /\ frame[1].old = None
           /\ frame[1].cur = None /\ frame[1].dl = FALSE /\ frame[1].state = "running"
           /\ tl = [t \in Threads |-> None]
<1>1. PICK k \in Outers, one \in InContext :
         frame = <<[Blank EXCEPT !.kind = k, !.loop = IF k = "async" THEN 1 ELSE None,
                                 !.one = one]>>
  BY DEF Init
<1> DEFINE loop == IF k = "async" THEN 1 ELSE None
           r == [Blank EXCEPT !.kind = k, !.loop = loop, !.one = one]
<1>2. /\ k \in {"sync", "async"} /\ one \in BOOLEAN /\ loop \in 0 .. MaxFrames
  BY BridgeAssumption, NumbersTyped
<1>3. r \in FrameType
  <2> HIDE DEF loop
  <2> QED
    BY <1>2, BlankTyped DEF FrameType
<1>4. /\ r.kind = k /\ r.via = "outer" /\ r.parent = None /\ r.loop = loop
      /\ r.thread = Main /\ r.exec = None /\ r.old = None /\ r.cur = None /\ r.dl = FALSE
      /\ r.state = "running"
  <2> HIDE DEF loop
  <2> QED
    BY DEF Blank
<1>5. frame = <<r>>
  BY <1>1
<1> HIDE DEF r
<1>6. frame \in Seq(FrameType) /\ Len(frame) = 1 /\ Frames = {1} /\ frame[1] = r
  BY <1>3, <1>5 DEF Frames
<1> QED
  BY <1>2, <1>4, <1>6 DEF Init

LEMMA StructureInitial == Init => Structure
<1> SUFFICES ASSUME Init PROVE Structure
  OBVIOUS
<1>1. Typed
  <2>1. frame \in Seq(FrameType) /\ Len(frame) \in 1 .. MaxFrames
    <3>1. frame \in Seq(FrameType) /\ Len(frame) = 1
      BY FirstFrame
    <3>2. 1 \in 1 .. MaxFrames
      BY NumbersTyped
    <3> QED
      BY <3>1, <3>2
  <2>2. tl \in [Threads -> 0 .. MaxFrames]
    BY FirstFrame, NumbersTyped
  <2> QED
    BY <2>1, <2>2 DEF Typed
<1>2. Tree
  BY FirstFrame DEF Tree, BornWell, By, None
<1>3. Stations
  BY FirstFrame DEF Stations, InState
<1>4. Remembered
  BY FirstFrame DEF Remembered
<1>5. Waits
  BY FirstFrame DEF Waits, Pending
<1>6. Served
  BY FirstFrame DEF Served
<1> QED
  BY <1>1, <1>2, <1>3, <1>4, <1>5, <1>6 DEF Structure

LEMMA StructureStutters == Structure /\ UNCHANGED vars => Structure'
<1> SUFFICES ASSUME Structure, UNCHANGED vars PROVE Structure'
  OBVIOUS
<1>1. frame' = frame /\ tl' = tl
  BY DEF vars
<1>2. Typed' /\ Remembered'
  BY <1>1 DEF Structure, Typed, Remembered, Frames
<1>3. Tree'
  BY <1>1 DEF Structure, Tree, BornWell, By, Executors, Frames, Single
<1>4. Stations'
  BY <1>1 DEF Structure, Stations, InState, Executors, Frames
<1>5. Waits'
  BY <1>1 DEF Structure, Waits, Pending, By, Live, Frames
<1>6. Served'
  BY <1>1 DEF Structure, Served, Live, Frames, Single
<1> QED
  BY <1>2, <1>3, <1>4, <1>5, <1>6 DEF Structure

\* Whatever the program does, the tree of calls keeps its shape: each frame has
\* the loop, the executor and the contexts that the call that made it gave it
\* (AsyncToSync.__call__, SyncToAsync.__call__), a caller is blocked while its one
\* call is pending, and work waits only where it will be served.
THEOREM StructureInvariant == Spec => []Structure
<1>1. Init => Structure
  BY StructureInitial
<1>2. Structure /\ [Next]_vars => Structure'
  <2> SUFFICES ASSUME Structure, [Next]_vars PROVE Structure'
    OBVIOUS
  <2>1. ASSUME NEW f \in Frames, NEW via \in {"a2s", "force"}, CallAsync(f, via)
        PROVE  Structure'
    BY <2>1, StructureCallAsync
  <2>2. ASSUME NEW f \in Frames, StartLoop(f) PROVE Structure'
    BY <2>2, StructureStartLoop
  <2>3. ASSUME NEW f \in Frames, CallSensitive(f) PROVE Structure'
    BY <2>3, StructureCallSensitive
  <2>4. ASSUME NEW f \in Frames, CallInsensitive(f) PROVE Structure'
    BY <2>4, StructureCallInsensitive
  <2>5. ASSUME NEW f \in Frames, NEW via \in {"task", "fresh"}, CreateTask(f, via)
        PROVE  Structure'
    BY <2>5, StructureCreateTask
  <2>6. ASSUME NEW f \in Frames, Join(f) PROVE Structure'
    BY <2>6, StructureJoin
  <2>7. ASSUME NEW f \in Frames, Joined(f) PROVE Structure'
    BY <2>7, StructureJoined
  <2>8. ASSUME NEW f \in Frames, RunLoop(f) PROVE Structure'
    BY <2>8, StructureRunLoop
  <2>9. ASSUME NEW f \in Frames, Return(f) PROVE Structure'
    BY <2>9, StructureReturn
  <2>10. ASSUME NEW f \in Frames, NEW c \in Frames, ReturnAsync(f, c) PROVE Structure'
    BY <2>10, StructureReturnAsync
  <2>11. ASSUME NEW f \in Frames, NEW c \in Frames, ReturnSync(f, c) PROVE Structure'
    BY <2>11, StructureReturnSync
  <2>12. ASSUME NEW f \in Frames, NEW c \in Frames, ReturnLoop(f, c) PROVE Structure'
    BY <2>12, StructureReturnLoop
  <2>13. ASSUME NEW t \in Threads, NEW g \in Frames, StartSync(t, g) PROVE Structure'
    BY <2>13, StructureStartSync
  <2>14. CASE UNCHANGED vars
    BY <2>14, StructureStutters
  <2>15. Ended => UNCHANGED vars
    BY DEF Ended
  <2> QED
    BY <2>1, <2>2, <2>3, <2>4, <2>5, <2>6, <2>7, <2>8, <2>9, <2>10, <2>11, <2>12, <2>13,
       <2>14, <2>15 DEF Next
<1> QED
  BY <1>1, <1>2, PTL DEF Spec

LEMMA StructureTypes == Structure => TypeOK
<1> SUFFICES ASSUME Structure PROVE TypeOK
  OBVIOUS
<1>1. Frames = 1 .. Len(frame) /\ \A f \in Frames : BornWell(f)
  BY FramesTyped DEF Structure, Tree
<1>2. ASSUME NEW f \in Frames
      PROVE  {c \in Calls(f) : Live(c)} = {c \in Frames : Pending(c) /\ By(c) = f}
  <2>1. \A c \in Frames : By(c) = f => c # 1
    BY <1>1 DEF BornWell
  <2> QED
    BY <2>1 DEF Calls, Pending, By
<1>3. ASSUME NEW f \in Frames
      PROVE  Cardinality({c \in Calls(f) : Live(c)})
                = IF frame[f].state = "blocked" THEN 1 ELSE 0
  <2> DEFINE P == {c \in Frames : Pending(c) /\ By(c) = f}
  <2>1. CASE frame[f].state = "blocked"
    <3>1. PICK c \in Frames : Pending(c) /\ By(c) = f
      BY <2>1 DEF Structure, Waits
    <3>2. P = {c}
      BY <3>1 DEF Structure, Waits
    <3> QED
      BY <1>2, <2>1, <3>2, FS_Singleton
  <2>2. CASE frame[f].state # "blocked"
    <3>1. P = {}
      BY <2>2 DEF Structure, Waits
    <3> QED
      BY <1>2, <2>2, <3>1, FS_EmptySet
  <2> QED
    BY <2>1, <2>2
<1> QED
  BY <1>3 DEF TypeOK, Structure, Typed, Served

\* The types are kept; a frame is blocked in exactly one call, and only while
\* that call is pending; queued work waits in an executor whose future is not
\* done: run_until_future drains the queue before it returns.
THEOREM TypeCorrect == Spec => []TypeOK
<1>1. Structure => TypeOK
  BY StructureTypes
<1> QED
  BY <1>1, StructureInvariant, PTL

-----------------------------------------------------------------------------
(* A refusal as a deadlock is justified.                                    *)

\* The single thread runs f, or what f was called from.
BelowSingle(f) == \E a \in Lineage[f] : frame[a].exec = Single

\* deadlock_context is set below the single thread, and in the coroutine that
\* waits for it.
MarkedAt(f) ==
    frame[f].dl =>
       \/ BelowSingle(f)
       \/ /\ frame[f].kind = "async" /\ frame[f].state = "blocked"
          /\ \E c \in Frames : Pending(c) /\ By(c) = f /\ frame[c].exec = Single

RefusedAt(f) == frame[f].state = "deadlock" => BelowSingle(By(f))

Justified == \A f \in Frames : MarkedAt(f) /\ RefusedAt(f)

LEMMA StructureOrdered == Structure => Ordered
  BY TreeOrdered DEF Structure

\* What a step leaves of the lineages.
LEMMA LineageStep ==
    ASSUME Structure, Structure', Kept
    PROVE  /\ LineageDefined /\ LineageDefined' /\ LineageClosed /\ LineageClosed'
           /\ \A x \in {None} \union Frames : Lineage'[x] = Lineage[x]
           /\ Frames = 1 .. Len(frame) /\ Len(frame) \in Nat
           /\ \A f \in Frames : f # 1 => By(f) \in Frames
           /\ By(1) = None
<1>1. Ordered /\ Ordered'
  <2>1. Structure' => Ordered'
    BY StructureOrdered, PTL
  <2> QED
    BY <2>1, StructureOrdered
<1>2. LineageDefined /\ LineageClosed
  BY <1>1, LineageUnfolds, LineageIsClosed
<1>3. LineageDefined' /\ LineageClosed'
  <2>2. Ordered' => LineageDefined' /\ LineageClosed'
    BY LineageUnfolds, LineageIsClosed, PTL
  <2> QED
    BY <1>1, <2>2
<1>4. \A x \in {None} \union Frames : Lineage'[x] = Lineage[x]
  BY <1>1, LineageKept DEF Kept
<1> QED
  BY <1>2, <1>3, <1>4, FramesTyped DEF Structure, Tree, BornWell, None

LEMMA BelowKept ==
    ASSUME Structure, Structure', Kept, NEW x \in {None} \union Frames, BelowSingle(x)
    PROVE  BelowSingle(x)'
<1>1. PICK a \in Lineage[x] : frame[a].exec = Single
  BY DEF BelowSingle
<1>2. Lineage'[x] = Lineage[x] /\ Lineage[x] \subseteq Frames
  BY LineageStep DEF LineageDefined, LineageClosed
<1>3. a \in Frames /\ frame'[a].exec = frame[a].exec
  BY <1>2 DEF Kept
<1> QED
  BY <1>1, <1>2, <1>3 DEF BelowSingle, Single

LEMMA BelowNew ==
    ASSUME Structure, Structure', Kept, NEW n \in Frames', NEW f \in Frames,
           frame'[n].parent = f
    PROVE  /\ BelowSingle(f) => BelowSingle(n)'
           /\ frame'[n].exec = Single => BelowSingle(n)'
<1>1. Lineage'[n] = {n} \union Lineage'[f]
  BY LineageStep DEF LineageDefined, By
<1>2. BelowSingle(f) => BelowSingle(f)'
  BY BelowKept
<1> QED
  BY <1>1, <1>2 DEF BelowSingle, Single

LEMMA JustifiedKept ==
    ASSUME Structure, Structure', Justified, Kept, NEW S, Steady(S),
           \A c \in Frames : Pending(c) => Pending(c)' \/ By(c) \in S,
           \A g \in S : MarkedAt(g)' /\ frame'[g].state # "deadlock",
           \A n \in Frames' \ Frames : MarkedAt(n)' /\ RefusedAt(n)'
    PROVE  Justified'
<1>1. ASSUME NEW f \in Frames PROVE f \in S \/ MarkedAt(f)'
  <2>1. SUFFICES ASSUME f \notin S, frame'[f].dl
                 PROVE  MarkedAt(f)'
    BY DEF MarkedAt
  <2>2. frame[f].dl /\ frame'[f].state = frame[f].state /\ frame'[f].kind = frame[f].kind
    BY <2>1 DEF Steady, Kept
  <2>3. CASE BelowSingle(f)
    BY <2>3, BelowKept DEF MarkedAt
  <2>4. CASE ~ BelowSingle(f)
    <3>1. /\ frame[f].kind = "async" /\ frame[f].state = "blocked"
          /\ \E c \in Frames : Pending(c) /\ By(c) = f /\ frame[c].exec = Single
      BY <2>2, <2>4 DEF Justified, MarkedAt
    <3>2. PICK c \in Frames : Pending(c) /\ By(c) = f /\ frame[c].exec = Single
      BY <3>1
    <3>3. c \in Frames' /\ Pending(c)' /\ By(c)' = f /\ frame'[c].exec = Single
      BY <2>1, <3>2 DEF Kept, By
    <3> QED
      BY <2>2, <3>1, <3>3 DEF MarkedAt, Single
  <2> QED
    BY <2>3, <2>4
<1>2. ASSUME NEW f \in Frames PROVE f \in S \/ RefusedAt(f)'
  <2>1. SUFFICES ASSUME f \notin S, frame'[f].state = "deadlock"
                 PROVE  RefusedAt(f)'
    BY DEF RefusedAt
  <2>2. BelowSingle(By(f)) /\ By(f)' = By(f)
    BY <2>1 DEF Steady, Kept, Justified, RefusedAt, By
  <2>3. By(f) \in {None} \union Frames
    BY LineageStep
  <2>4. BelowSingle(By(f))'
    <3>1. PICK x : x = By(f)
      OBVIOUS
    <3>2. BelowSingle(x)'
      BY <2>2, <2>3, <3>1, BelowKept
    <3> QED
      BY <2>2, <3>1, <3>2 DEF BelowSingle
  <2> QED
    BY <2>4 DEF RefusedAt
<1> QED
  BY <1>1, <1>2 DEF Justified, RefusedAt

LEMMA PendingKept ==
    ASSUME Kept, NEW c \in Frames, Pending(c), Live(c)'
    PROVE  Pending(c)'
  BY DEF Pending, Kept

\* A frame that runs, or turns to something else than blocked and keeps its
\* mark, is marked well: it does not wait for the single thread.
LEMMA MarkedRunning ==
    ASSUME Justified, NEW f \in Frames, frame[f].dl,
           frame[f].kind = "sync" \/ frame[f].state # "blocked"
    PROVE  BelowSingle(f)
  BY DEF Justified, MarkedAt

LEMMA JustifiedTurned ==
    ASSUME Structure, Structure', Justified, Kept, Stays, NEW f \in Frames, Steady({f}),
           frame[f].state # "blocked", frame'[f].dl = frame[f].dl,
           frame'[f].state # "deadlock",
           frame[f].via \in {"outer", "task", "fresh"} \/ Live(f)'
    PROVE  Justified'
<1>1. MarkedAt(f)'
  <2>1. frame[f].dl => BelowSingle(f)'
    BY MarkedRunning, BelowKept
  <2> QED
    BY <2>1 DEF MarkedAt
<1>2. ASSUME NEW c \in Frames, Pending(c) PROVE Pending(c)'
  <2>1. CASE c = f
    <3>1. frame[f].via # "outer"
      BY <1>2, <2>1 DEF Pending, Structure, Tree, BornWell
    <3>2. Live(c)'
      BY <1>2, <2>1, <3>1 DEF Pending
    <3> QED
      BY <1>2, <3>2, PendingKept
  <2>2. CASE c # f
    <3>1. Live(c)'
      BY <1>2, <2>2 DEF Steady, Pending, Live, Refusals
    <3> QED
      BY <1>2, <3>1, PendingKept
  <2> QED
    BY <2>1, <2>2
<1> QED
  BY <1>1, <1>2, JustifiedKept DEF Stays

LEMMA JustifiedReturned ==
    ASSUME Structure, Structure', Justified, Kept, Stays, NEW f \in Frames, NEW g \in Frames,
           f # g, By(g) = f, Steady({f, g}), frame[g].state = "returned",
           Becomes(g, "done", frame[g].cur, frame[g].dl), frame'[f].state = "running",
           frame'[f].dl => BelowSingle(f)
    PROVE  Justified'
<1>1. MarkedAt(f)'
  BY BelowKept DEF MarkedAt
<1>2. MarkedAt(g)'
  <2>1. frame[g].dl => BelowSingle(g)'
    BY MarkedRunning, BelowKept
  <2> QED
    BY <2>1 DEF MarkedAt, Becomes
<1>3. ASSUME NEW c \in Frames, Pending(c) PROVE Pending(c)' \/ By(c) \in {f, g}
  <2>1. CASE c = g
    BY <2>1
  <2>2. CASE c # g
    <3>1. Live(c)'
      BY <1>3, <2>2 DEF Steady, Pending, Live, Refusals
    <3> QED
      BY <1>3, <3>1, PendingKept
  <2> QED
    BY <2>1, <2>2
<1> QED
  BY <1>1, <1>2, <1>3, JustifiedKept DEF Stays, Becomes

LEMMA JustifiedNext ==
    ASSUME Structure, Structure', Justified, [Next]_vars
    PROVE  Justified'
<1> USE DEF Structure
<1>1. ASSUME NEW f \in Frames, NEW via \in {"a2s", "force"}, CallAsync(f, via)
      PROVE  Justified'
  <2>1. PICK n : n = New
    OBVIOUS
  <2>2. /\ Kept /\ Grows /\ Steady({f})
        /\ frame[f].kind = "sync" /\ frame[f].state = "running"
        /\ Becomes(f, "blocked", New, frame[f].dl)
        /\ frame'[n].parent = f /\ frame'[n].dl = frame[f].dl
        /\ frame'[n].state \in {"running", "waiting"}
    BY <1>1, <2>1, CallAsyncDoes
  <2>3. Frames' = Frames \union {n}
    BY <2>1, <2>2 DEF Grows
  <2>4. frame[f].dl => BelowSingle(f) /\ BelowSingle(f)' /\ BelowSingle(n)'
    BY <2>2, <2>3, MarkedRunning, BelowKept, BelowNew
  <2>5. MarkedAt(f)' /\ MarkedAt(n)' /\ RefusedAt(n)' /\ frame'[f].state # "deadlock"
    BY <2>2, <2>4 DEF MarkedAt, RefusedAt, Becomes
  <2>6. \A c \in Frames : Pending(c) => Pending(c)'
    BY <2>2, PendingKept DEF Steady, Pending, Live, Becomes, Refusals
  <2> QED
    BY <2>2, <2>3, <2>5, <2>6, JustifiedKept
<1>2. ASSUME NEW f \in Frames, StartLoop(f) PROVE Justified'
  BY <1>2, StartLoopDoes, JustifiedTurned DEF Becomes, Live, Refusals
<1>3. ASSUME NEW f \in Frames, CallSensitive(f) PROVE Justified'
  <2>1. PICK n : n = New
    OBVIOUS
  <2>2. frame[f].kind = "async"
    BY <1>3 DEF CallSensitive
  <2>3. Chosen(f) \in 0 .. MaxFrames + 1
    BY <2>2, ChosenWell, FramesTyped, NumbersTyped DEF Single, None, Executors
  <2>4. /\ Kept /\ Grows /\ frame[f].state = "running"
        /\ frame'[n].parent = f /\ frame'[n].dl = Mark(f) /\ frame'[n].via = "s2a"
        /\ frame'[n].kind = "sync"
        /\ Refused(f) \/ Submitted(f)
    BY <1>3, <2>1, <2>3, CallSensitiveDoes
  <2>5. Frames' = Frames \union {n} /\ n # 1
    BY <2>1, <2>4, FramesTyped DEF Grows, New
  <2>6. frame[f].dl => BelowSingle(f) /\ BelowSingle(f)' /\ BelowSingle(n)'
    BY <2>4, <2>5, MarkedRunning, BelowKept, BelowNew
  <2>7. CASE Refused(f)
    <3>1. /\ Steady({}) /\ Chosen(f) = None
          /\ frame'[n].state = "deadlock" => ChooseExecutor(f) = None
      BY <2>1, <2>7 DEF Refused
    <3>2. ChooseExecutor(f) # Single /\ (ChooseExecutor(f) = None => frame[f].dl)
      BY <3>1, NumbersTyped DEF Chosen, ChooseExecutor, OwnThread, None
    <3>3. MarkedAt(n)'
      BY <2>4, <2>6, <3>2 DEF MarkedAt, Mark
    <3>4. RefusedAt(n)'
      <4>1. frame'[n].state = "deadlock" => BelowSingle(f)'
        BY <2>6, <3>1, <3>2
      <4> QED
        BY <2>4, <4>1 DEF RefusedAt, By, BelowSingle
    <3>5. \A c \in Frames : Pending(c) => Pending(c)'
      BY <2>4, <3>1, PendingKept DEF Steady, Pending, Live, Refusals
    <3> QED
      BY <2>4, <2>5, <3>1, <3>3, <3>4, <3>5, JustifiedKept
  <2>8. CASE Submitted(f)
    <3>1. /\ Steady({f}) /\ frame'[f].state = "blocked" /\ frame'[f].dl = Mark(f)
          /\ frame'[n].exec = Chosen(f) /\ frame'[n].state = "queued"
      BY <2>1, <2>8 DEF Submitted, Becomes
    <3>2. ChooseExecutor(f) = Single => frame'[n].exec = Single
      BY <3>1, NumbersTyped DEF Chosen, OwnThread, None
    <3>3. MarkedAt(n)' /\ RefusedAt(n)'
      BY <2>4, <2>5, <2>6, <3>1, <3>2, BelowNew DEF MarkedAt, RefusedAt, Mark
    <3>4. MarkedAt(f)'
      <4>1. CASE ChooseExecutor(f) = Single
        <5>1. Pending(n)' /\ By(n)' = f /\ frame'[n].exec = Single /\ n \in Frames'
          BY <2>4, <2>5, <3>1, <3>2, <4>1 DEF Pending, Live, By, Refusals
        <5> QED
          BY <2>2, <2>4, <3>1, <5>1 DEF MarkedAt, Kept, Single
      <4>2. CASE ChooseExecutor(f) # Single
        BY <2>6, <3>1, <4>2 DEF MarkedAt, Mark
      <4> QED
        BY <4>1, <4>2
    <3>5. \A c \in Frames : Pending(c) => Pending(c)'
      BY <2>4, <3>1, PendingKept DEF Steady, Pending, Live, Refusals
    <3> QED
      BY <2>4, <2>5, <3>1, <3>3, <3>4, <3>5, JustifiedKept
  <2> QED
    BY <2>4, <2>7, <2>8
<1>4. ASSUME NEW f \in Frames, CallInsensitive(f) PROVE Justified'
  <2>1. PICK n : n = New
    OBVIOUS
  <2>2. /\ Kept /\ Grows /\ Steady({f}) /\ frame[f].state = "running"
        /\ Becomes(f, "blocked", frame[f].cur, frame[f].dl)
        /\ frame'[n].parent = f /\ frame'[n].dl = frame[f].dl /\ frame'[n].state = "queued"
    BY <1>4, <2>1, CallInsensitiveDoes
  <2>3. Frames' = Frames \union {n}
    BY <2>1, <2>2 DEF Grows
  <2>4. frame[f].dl => BelowSingle(f) /\ BelowSingle(f)' /\ BelowSingle(n)'
    BY <2>2, <2>3, MarkedRunning, BelowKept, BelowNew
  <2>5. MarkedAt(f)' /\ MarkedAt(n)' /\ RefusedAt(n)' /\ frame'[f].state # "deadlock"
    BY <2>2, <2>4 DEF MarkedAt, RefusedAt, Becomes
  <2>6. \A c \in Frames : Pending(c) => Pending(c)'
    BY <2>2, PendingKept DEF Steady, Pending, Live, Becomes, Refusals
  <2> QED
    BY <2>2, <2>3, <2>5, <2>6, JustifiedKept
<1>5. ASSUME NEW f \in Frames, NEW via \in {"task", "fresh"}, CreateTask(f, via)
      PROVE  Justified'
  <2>1. PICK n : n = New
    OBVIOUS
  <2>2. /\ Kept /\ Grows /\ Steady({}) /\ frame[f].state = "running"
        /\ frame'[n].parent = f /\ frame'[n].state = "running"
        /\ frame'[n].dl = (via = "task" /\ frame[f].dl)
    BY <1>5, <2>1, CreateTaskDoes
  <2>3. Frames' = Frames \union {n}
    BY <2>1, <2>2 DEF Grows
  <2>4. frame[f].dl => BelowSingle(n)'
    BY <2>2, <2>3, MarkedRunning, BelowNew
  <2>5. MarkedAt(n)' /\ RefusedAt(n)'
    BY <2>2, <2>4 DEF MarkedAt, RefusedAt
  <2>6. \A c \in Frames : Pending(c) => Pending(c)'
    BY <2>2, PendingKept DEF Steady, Pending, Live, Refusals
  <2> QED
    BY <2>2, <2>3, <2>5, <2>6, JustifiedKept
<1>6. ASSUME NEW f \in Frames, Join(f) PROVE Justified'
  BY <1>6, JoinDoes, JustifiedTurned DEF Becomes, Live, Refusals
<1>7. ASSUME NEW f \in Frames, Joined(f) PROVE Justified'
  BY <1>7, JoinedDoes, JustifiedTurned DEF Becomes, Live, Refusals
<1>8. ASSUME NEW f \in Frames, RunLoop(f) PROVE Justified'
  <2>1. PICK n : n = New
    OBVIOUS
  <2>2. /\ Kept /\ Grows /\ Steady({f}) /\ frame[f].state = "running"
        /\ Becomes(f, "blocked", frame[f].cur, frame[f].dl)
        /\ frame'[n].parent = f /\ frame'[n].dl = frame[f].dl /\ frame'[n].state = "running"
    BY <1>8, <2>1, RunLoopDoes
  <2>3. Frames' = Frames \union {n}
    BY <2>1, <2>2 DEF Grows
  <2>4. frame[f].dl => BelowSingle(f) /\ BelowSingle(f)' /\ BelowSingle(n)'
    BY <2>2, <2>3, MarkedRunning, BelowKept, BelowNew
  <2>5. MarkedAt(f)' /\ MarkedAt(n)' /\ RefusedAt(n)' /\ frame'[f].state # "deadlock"
    BY <2>2, <2>4 DEF MarkedAt, RefusedAt, Becomes
  <2>6. \A c \in Frames : Pending(c) => Pending(c)'
    BY <2>2, PendingKept DEF Steady, Pending, Live, Becomes, Refusals
  <2> QED
    BY <2>2, <2>3, <2>5, <2>6, JustifiedKept
<1>9. ASSUME NEW f \in Frames, Return(f) PROVE Justified'
  BY <1>9, ReturnDoes, JustifiedTurned DEF Becomes, Live, Refusals, Ending
<1>10. ASSUME NEW f \in Frames, NEW g \in Frames, ReturnAsync(f, g) PROVE Justified'
  <2>1. f # g /\ By(g) = f
    BY <1>10 DEF ReturnAsync, Tree, BornWell, By
  <2>2. /\ Kept /\ Stays /\ Steady({f, g}) /\ frame[g].via \in {"a2s", "force"}
        /\ frame[g].state = "returned" /\ Becomes(g, "done", frame[g].cur, frame[g].dl)
        /\ frame'[f].state = "running" /\ frame'[f].dl \in {frame[f].dl, frame[g].dl}
    <3>1. Typed /\ f # g /\ ReturnAsync(f, g)
      BY <1>10, <2>1
    <3> HIDE DEF Structure
    <3> QED
      BY <3>1, ReturnAsyncDoes
  <2>3. frame[f].dl => BelowSingle(f)
    <3>1. frame[f].kind = "sync"
      BY <2>1, <2>2 DEF Tree, BornWell
    <3> QED
      BY <3>1, MarkedRunning
  <2>4. frame[g].dl => BelowSingle(f)
    <3>1. frame[g].dl => BelowSingle(g)
      BY <2>2, MarkedRunning
    <3>2. Lineage[g] = {g} \union Lineage[f] /\ frame[g].exec # Single
      BY <2>1, <2>2, LineageStep, NumbersTyped DEF LineageDefined, Tree, BornWell, None
    <3> QED
      BY <3>1, <3>2 DEF BelowSingle
  <2> QED
    BY <2>1, <2>2, <2>3, <2>4, JustifiedReturned
<1>11. ASSUME NEW f \in Frames, NEW g \in Frames, ReturnSync(f, g) PROVE Justified'
  <2>1. f # g /\ By(g) = f
    BY <1>11 DEF ReturnSync, Tree, BornWell, By
  <2>2. /\ Kept /\ Stays /\ Steady({f, g})
        /\ frame[g].state = "returned" /\ Becomes(g, "done", frame[g].cur, frame[g].dl)
        /\ frame'[f].state = "running" /\ frame'[f].dl \in {FALSE}
    <3>1. Typed /\ f # g /\ ReturnSync(f, g)
      BY <1>11, <2>1
    <3> HIDE DEF Structure
    <3> QED
      BY <3>1, ReturnSyncDoes
  <2> QED
    BY <2>1, <2>2, JustifiedReturned
<1>12. ASSUME NEW f \in Frames, NEW g \in Frames, ReturnLoop(f, g) PROVE Justified'
  <2>1. f # g /\ By(g) = f
    BY <1>12 DEF ReturnLoop, Tree, BornWell, By
  <2>2. /\ Kept /\ Stays /\ Steady({f, g}) /\ frame[g].via = "run"
        /\ frame[g].state = "returned" /\ Becomes(g, "done", frame[g].cur, frame[g].dl)
        /\ frame'[f].state = "running" /\ frame'[f].dl \in {frame[f].dl}
    BY <1>12, <2>1, ReturnLoopDoes
  <2>3. frame[f].dl => BelowSingle(f)
    <3>1. frame[f].kind = "sync"
      BY <2>1, <2>2 DEF Tree, BornWell
    <3> QED
      BY <3>1, MarkedRunning
  <2> QED
    BY <2>1, <2>2, <2>3, JustifiedReturned
<1>13. ASSUME NEW t \in Threads, NEW f \in Frames, StartSync(t, f) PROVE Justified'
  <2>1. By(f) \in Frames
    BY <1>13 DEF StartSync, Stations, InState, Tree, BornWell
  <2> QED
    BY <1>13, <2>1, StartSyncDoes, JustifiedTurned DEF Becomes, Live, Refusals, By
<1>14. CASE UNCHANGED vars
  <2>1. /\ frame' = frame /\ Frames' = Frames /\ Kept /\ Steady({})
    BY <1>14 DEF vars, Kept, Steady, Frames
  <2>2. \A c \in Frames : Pending(c) => Pending(c)'
    BY <2>1 DEF Pending, Live
  <2> QED
    BY <2>1, <2>2, JustifiedKept
<1>15. Ended => UNCHANGED vars
  BY DEF Ended
<1> QED
  BY <1>1, <1>2, <1>3, <1>4, <1>5, <1>6, <1>7, <1>8, <1>9, <1>10, <1>11, <1>12, <1>13,
     <1>14, <1>15 DEF Next

\* deadlock_context is set only in code below the single thread and in the
\* coroutine that waits for it, however it is copied between contexts and
\* cleared (SyncToAsync.__call__); a call refused as a deadlock comes from there.
THEOREM JustifiedInvariant == Spec => []Justified
<1>1. Init => Justified
  BY FirstFrame DEF Justified, MarkedAt, RefusedAt
<1>2. Structure /\ Structure' /\ Justified /\ [Next]_vars => Justified'
  BY JustifiedNext
<1> QED
  BY <1>1, <1>2, StructureInvariant, PTL DEF Spec

\* SyncToAsync reports a deadlock only where there is one: the call comes from
\* code that the single thread, which would have to run it, is busy with.
THEOREM DeadlockReal == Spec => []DeadlockErrorIsReal
<1>1. Justified => DeadlockErrorIsReal
  BY DEF Justified, RefusedAt, DeadlockErrorIsReal, BelowSingle, Ancestors, By
<1> QED
  BY <1>1, JustifiedInvariant, PTL

-----------------------------------------------------------------------------
(* Thread-sensitive code stays in one thread.                               *)

\* The thread of the outermost program, or the one that stands for it.
HomeThread == IF frame[1].kind = "sync" THEN Main ELSE Single

\* All sync code runs there, and the single thread serves only async programs.
AtHome(f) ==
    frame[f].kind = "sync" =>
       /\ Started(f) => frame[f].thread = HomeThread
       /\ frame[f].exec = Single => frame[1].kind = "async"

OneThread == Uses({"pool", "run"}) \/ \A f \in Frames : AtHome(f)

LEMMA UsesKept ==
    ASSUME Kept, NEW S, Uses(S)
    PROVE  Uses(S)'
  BY DEF Kept, Uses

\* The frames outside S do not change; those in S do not start, nor move.
LEMMA OneThreadKept ==
    ASSUME Structure, OneThread, Kept, NEW S, Steady(S),
           \A f \in S : Uses({"pool", "run"})' \/ AtHome(f)',
           \A n \in Frames' \ Frames : Uses({"pool", "run"})' \/ AtHome(n)'
    PROVE  OneThread'
<1> SUFFICES ASSUME ~ Uses({"pool", "run"})'
             PROVE  \A f \in Frames' : AtHome(f)'
  BY DEF OneThread
<1>1. 1 \in Frames /\ frame'[1].kind = frame[1].kind
  BY FramesTyped DEF Structure, Kept
<1>2. ~ Uses({"pool", "run"})
  BY UsesKept
<1>3. ASSUME NEW f \in Frames \ S PROVE AtHome(f)'
  BY <1>1, <1>2 DEF OneThread, AtHome, HomeThread, Started, Kept, Steady, Single, Main, Refusals
<1> QED
  BY <1>3

\* A frame that had started, or has not, stays where it is.
LEMMA AtHomeKept ==
    ASSUME Structure, OneThread, Kept, NEW f \in Frames, SameThread(f), Started(f)' => Started(f)
    PROVE  Uses({"pool", "run"})' \/ AtHome(f)'
<1>1. 1 \in Frames /\ frame'[1].kind = frame[1].kind
  BY FramesTyped DEF Structure, Kept
<1> QED
  BY <1>1, UsesKept DEF OneThread, AtHome, HomeThread, Kept, Single, Main, SameThread

LEMMA OneThreadReturned ==
    ASSUME Structure, OneThread, Kept, Stays, NEW f \in Frames, NEW g \in Frames, f # g,
           By(g) = f, Steady({f, g}), SameThread(f), SameThread(g),
           frame[g].state = "returned", frame[g].via \notin {"outer", "task", "fresh"}
    PROVE  OneThread'
<1>1. frame[f].state = "blocked"
  BY DEF Structure, Waits, Pending, Tree, BornWell, Live, Refusals
<1>2. (Started(f)' => Started(f)) /\ (Started(g)' => Started(g))
  BY <1>1 DEF Started, Kept, Refusals
<1> QED
  BY <1>2, AtHomeKept, OneThreadKept DEF Stays

LEMMA OneThreadNext ==
    ASSUME Structure, OneThread, [Next]_vars
    PROVE  OneThread'
<1>0. Typed /\ 1 \in Frames
  BY FramesTyped DEF Structure
<1>1. ASSUME NEW f \in Frames, NEW via \in {"a2s", "force"}, CallAsync(f, via)
      PROVE  OneThread'
  <2>1. PICK n : n = New
    OBVIOUS
  <2>2. /\ Kept /\ Grows /\ Steady({f}) /\ SameThread(f) /\ frame[f].state = "running"
        /\ frame'[n].kind = "async"
    BY <1>0, <1>1, <2>1, CallAsyncDoes
  <2>3. Frames' = Frames \union {n}
    BY <2>1, <2>2 DEF Grows
  <2>4. AtHome(n)' /\ (Started(f)' => Started(f))
    BY <2>2 DEF AtHome, Started, Kept, Refusals
  <2> QED
    BY <2>2, <2>3, <2>4, AtHomeKept, OneThreadKept
<1>2. ASSUME NEW f \in Frames, StartLoop(f) PROVE OneThread'
  <2>1. /\ Kept /\ Stays /\ Steady({f}) /\ SameThread(f) /\ frame[f].state = "waiting"
    BY <1>0, <1>2, StartLoopDoes
  <2>2. Started(f)' => Started(f)
    BY <2>1 DEF Started, Kept, Refusals
  <2> QED
    BY <2>1, <2>2, AtHomeKept, OneThreadKept DEF Stays
<1>3. ASSUME NEW f \in Frames, CallSensitive(f) PROVE OneThread'
  <2>1. PICK n : n = New
    OBVIOUS
  <2>2. frame[f].kind = "async"
    BY <1>3 DEF CallSensitive
  <2>3. Chosen(f) \in 0 .. MaxFrames + 1 /\ Chosen(f) \in {None, Single} \union Executors
    BY <1>0, <2>2, ChosenWell, FramesTyped, NumbersTyped DEF Single, None, Executors
  <2>4. /\ Kept /\ Grows /\ frame[f].state = "running"
        /\ frame'[n].parent = f /\ frame'[n].kind = "sync"
        /\ Refused(f) \/ Submitted(f)
    BY <1>0, <1>3, <2>1, <2>3, CallSensitiveDoes
  <2>5. Frames' = Frames \union {n}
    BY <2>1, <2>4 DEF Grows
  <2>6. frame'[n].exec = Chosen(f) /\ frame'[n].state \in {"queued"} \union Refusals
    BY <2>1, <2>4 DEF Refused, Submitted, Refusals
  <2>7. Uses({"pool", "run"})' \/ AtHome(n)'
    <3> SUFFICES ASSUME ~ Uses({"pool", "run"})', frame'[n].exec = Single
                 PROVE  frame'[1].kind = "async"
      BY <2>6 DEF AtHome, Started, Single
    <3>1. ChooseExecutor(f) = Single
      <4>1. Single # None
        BY NumbersTyped DEF None
      <4>2. ChooseExecutor(f) \in {None, Single} \union Executors
        BY <2>2, ChosenWell
      <4>3. Single \notin Executors
        BY <1>0, FramesTyped, NumbersTyped DEF Executors
      <4>4. Chosen(f) = Single
        BY <2>6
      <4>5. ASSUME ChooseExecutor(f) \in Executors PROVE FALSE
        <5>1. Chosen(f) = Closest(ChooseExecutor(f))
          BY <4>1, <4>3, <4>4, <4>5 DEF Chosen
        <5>2. Chosen(f) \in {None} \union Executors
          BY <5>1, <4>5, ClosestExecutor
        <5> QED
          BY <4>1, <4>3, <4>4, <5>2
      <4> QED
        BY <4>1, <4>2, <4>4, <4>5 DEF Chosen
    <3>2. LoopThreadExecutor(frame[f].loop) = None
      <4>1. Single \notin Frames /\ Single # None
        BY <1>0, FramesTyped, NumbersTyped DEF None
      <4>2. frame[f].cur # Single
        BY <4>1 DEF Structure, Stations, InState, Executors
      <4>3. LoopThreadExecutor(frame[f].loop) # Single
        <5>1. frame[f].loop \in Frames
          BY <1>0, <2>2, FramesTyped DEF Structure, Tree, BornWell
        <5> QED
          BY <4>1, <5>1 DEF LoopThreadExecutor
      <4> QED
        BY <3>1, <4>2, <4>3 DEF ChooseExecutor
    <3>3. PICK l : l = frame[f].loop
      OBVIOUS
    <3>4. l \in Frames /\ frame[l].kind = "async" /\ frame[l].loop = l
      BY <1>0, <2>2, <3>3, FramesTyped DEF Structure, Tree, BornWell
    <3>5. frame[l].via \notin {"a2s", "force"}
      BY <3>2, <3>3, <3>4, FramesTyped, <1>0 DEF LoopThreadExecutor, None
    <3>6. frame[l].via # "run"
      BY <3>4, UsesKept, <2>4 DEF Uses
    <3>7. frame[l].via = "outer"
      <4>1. frame[l].via \in Vias
        BY <1>0, <3>4, FramesTyped, PartsTyped
      <4> QED
        BY <3>4, <3>5, <3>6, <4>1 DEF Structure, Tree, BornWell, Vias
    <3>8. l = 1
      BY <3>4, <3>7 DEF Structure, Tree, BornWell
    <3> QED
      BY <1>0, <2>4, <3>4, <3>8 DEF Kept
  <2>8. CASE Refused(f)
    BY <2>4, <2>5, <2>7, <2>8, OneThreadKept DEF Refused
  <2>9. CASE Submitted(f)
    <3>1. Steady({f}) /\ SameThread(f)
      BY <2>9 DEF Submitted
    <3>2. Started(f)' => Started(f)
      BY <2>2, <2>4 DEF Started, Kept
    <3> QED
      BY <2>4, <2>5, <2>7, <3>1, <3>2, AtHomeKept, OneThreadKept
  <2> QED
    BY <2>4, <2>8, <2>9
<1>4. ASSUME NEW f \in Frames, CallInsensitive(f) PROVE OneThread'
  <2>1. PICK n : n = New
    OBVIOUS
  <2>2. /\ Kept /\ Grows /\ Steady({f}) /\ SameThread(f) /\ frame[f].kind = "async"
        /\ frame'[n].via = "pool"
    BY <1>0, <1>4, <2>1, CallInsensitiveDoes
  <2>3. n \in Frames'
    BY <2>1, <2>2 DEF Grows
  <2> QED
    BY <2>2, <2>3 DEF OneThread, Uses
<1>5. ASSUME NEW f \in Frames, NEW via \in {"task", "fresh"}, CreateTask(f, via)
      PROVE  OneThread'
  <2>1. PICK n : n = New
    OBVIOUS
  <2>2. Kept /\ Grows /\ Steady({}) /\ frame'[n].kind = "async"
    BY <1>0, <1>5, <2>1, CreateTaskDoes
  <2>3. Frames' = Frames \union {n} /\ AtHome(n)'
    BY <2>1, <2>2 DEF Grows, AtHome
  <2> QED
    BY <2>2, <2>3, OneThreadKept
<1>6. ASSUME NEW f \in Frames, Join(f) PROVE OneThread'
  <2>1. /\ Kept /\ Stays /\ Steady({f}) /\ SameThread(f) /\ frame[f].state = "running"
    BY <1>0, <1>6, JoinDoes
  <2>2. Started(f)' => Started(f)
    BY <2>1 DEF Started, Kept, Refusals
  <2> QED
    BY <2>1, <2>2, AtHomeKept, OneThreadKept DEF Stays
<1>7. ASSUME NEW f \in Frames, Joined(f) PROVE OneThread'
  <2>1. /\ Kept /\ Stays /\ Steady({f}) /\ SameThread(f) /\ frame[f].state = "joining"
    BY <1>0, <1>7, JoinedDoes
  <2>2. Started(f)' => Started(f)
    BY <2>1 DEF Started, Kept, Refusals
  <2> QED
    BY <2>1, <2>2, AtHomeKept, OneThreadKept DEF Stays
<1>8. ASSUME NEW f \in Frames, RunLoop(f) PROVE OneThread'
  <2>1. PICK n : n = New
    OBVIOUS
  <2>2. Kept /\ Grows /\ frame'[n].via = "run"
    BY <1>0, <1>8, <2>1, RunLoopDoes
  <2>3. n \in Frames'
    BY <2>1, <2>2 DEF Grows
  <2> QED
    BY <2>2, <2>3 DEF OneThread, Uses
<1>9. ASSUME NEW f \in Frames, Return(f) PROVE OneThread'
  <2>1. /\ Kept /\ Stays /\ Steady({f}) /\ SameThread(f) /\ frame[f].state = "running"
    BY <1>0, <1>9, ReturnDoes
  <2>2. Started(f)' => Started(f)
    BY <2>1 DEF Started, Kept, Refusals
  <2> QED
    BY <2>1, <2>2, AtHomeKept, OneThreadKept DEF Stays
<1>10. ASSUME NEW f \in Frames, NEW g \in Frames, ReturnAsync(f, g) PROVE OneThread'
  <2>1. f # g /\ By(g) = f
    BY <1>10 DEF ReturnAsync, Structure, Tree, BornWell, By
  <2>2. /\ Kept /\ Stays /\ Steady({f, g}) /\ SameThread(f) /\ SameThread(g)
        /\ frame[g].state = "returned" /\ frame[g].via \in {"a2s", "force"}
    BY <1>0, <1>10, <2>1, ReturnAsyncDoes
  <2> QED
    BY <2>1, <2>2, OneThreadReturned
<1>11. ASSUME NEW f \in Frames, NEW g \in Frames, ReturnSync(f, g) PROVE OneThread'
  <2>1. f # g /\ By(g) = f
    BY <1>11 DEF ReturnSync, Structure, Tree, BornWell, By
  <2>2. /\ Kept /\ Stays /\ Steady({f, g}) /\ SameThread(f) /\ SameThread(g)
        /\ frame[g].state = "returned" /\ frame[g].via \in {"s2a", "pool"}
    <3>1. Typed /\ f # g /\ ReturnSync(f, g)
      BY <1>0, <1>11, <2>1
    <3> QED
      BY <3>1, ReturnSyncDoes
  <2> QED
    BY <2>1, <2>2, OneThreadReturned
<1>12. ASSUME NEW f \in Frames, NEW g \in Frames, ReturnLoop(f, g) PROVE OneThread'
  <2>1. f # g /\ By(g) = f
    BY <1>12 DEF ReturnLoop, Structure, Tree, BornWell, By
  <2>2. /\ Kept /\ Stays /\ Steady({f, g}) /\ SameThread(f) /\ SameThread(g)
        /\ frame[g].state = "returned" /\ frame[g].via = "run"
    BY <1>0, <1>12, <2>1, ReturnLoopDoes
  <2> QED
    BY <2>1, <2>2, OneThreadReturned
<1>13. ASSUME NEW t \in Threads, NEW f \in Frames, StartSync(t, f) PROVE OneThread'
  <2>1. /\ frame[f].state = "queued" /\ Serves(t, frame[f].exec) /\ frame[f].exec # None
        /\ By(f) \in Frames /\ f # 1
    BY <1>13 DEF StartSync, Structure, Stations, InState, Tree, BornWell
  <2>2. Kept /\ Stays /\ Steady({f}) /\ frame'[f].thread = t
    BY <1>0, <1>13, <2>1, StartSyncDoes DEF By
  <2>3. Uses({"pool", "run"})' \/ AtHome(f)'
    <3> SUFFICES ASSUME ~ Uses({"pool", "run"})', frame[f].kind = "sync"
                 PROVE  AtHome(f)'
      BY <2>2 DEF AtHome, Kept
    <3>1. /\ ~ Uses({"pool", "run"}) /\ AtHome(f) /\ frame'[1].kind = frame[1].kind
          /\ frame'[f].exec = frame[f].exec
      BY <1>0, <2>2, UsesKept DEF OneThread, Kept
    <3>2. CASE frame[f].exec = Single
      BY <2>1, <2>2, <3>1, <3>2 DEF AtHome, HomeThread, Serves, Single
    <3>3. CASE frame[f].exec # Single
      <4>1. PICK e : e = frame[f].exec
        OBVIOUS
      <4>2. frame[f].via # "pool"
        BY <3>1 DEF Uses
      <4>3. e \in Executors /\ Live(e) /\ e # Single
        BY <2>1, <3>3, <4>1, <4>2 DEF Structure, Tree, BornWell, Served
      <4>4. /\ e # 1 /\ Pending(e) /\ By(e) \in Frames /\ frame[By(e)].kind = "sync"
            /\ frame[By(e)].state = "blocked"
        BY <4>3 DEF Executors, Structure, Tree, BornWell, Pending, Waits
      <4>5. t = frame[By(e)].thread
        BY <2>1, <4>1, <4>3 DEF Serves, Executors, By
      <4>6. Started(By(e)) /\ AtHome(By(e))
        BY <3>1, <4>4 DEF Started, Refusals, OneThread
      <4> QED
        BY <2>2, <3>1, <3>3, <4>4, <4>5, <4>6 DEF AtHome, HomeThread, Single, Main
    <3> QED
      BY <3>2, <3>3
  <2> QED
    BY <2>2, <2>3, OneThreadKept DEF Stays
<1>14. CASE UNCHANGED vars
  <2>1. Frames' = Frames /\ Kept /\ Steady({})
    BY <1>14 DEF vars, Kept, Steady, Frames
  <2> QED
    BY <2>1, OneThreadKept
<1>15. Ended => UNCHANGED vars
  BY DEF Ended
<1> QED
  BY <1>1, <1>2, <1>3, <1>4, <1>5, <1>6, <1>7, <1>8, <1>9, <1>10, <1>11, <1>12, <1>13,
     <1>14, <1>15 DEF Next

\* All thread-sensitive code of a program that has not left its thread by
\* thread_sensitive=False, nor run a loop by hand, runs in one thread, the main
\* one if the outermost program is sync.
THEOREM Affinity == Spec => []SensitiveAffinity
<1>1. Init => OneThread
  BY FirstFrame, NumbersTyped DEF OneThread, AtHome, HomeThread, None
<1>2. Structure /\ OneThread /\ [Next]_vars => OneThread'
  BY OneThreadNext
<1>3. OneThread => SensitiveAffinity
  BY DEF OneThread, AtHome, SensitiveAffinity, SameThreadAlways, Sensitive, Started, HomeThread
<1> QED
  BY <1>1, <1>2, <1>3, StructureInvariant, PTL DEF Spec

-----------------------------------------------------------------------------
(* Where executors.current comes from                                       *)

\* The executor that f started with.
CallerCur(f) == IF f = 1 THEN None ELSE frame[By(f)].cur

\* A sync frame has the executor of its caller, or while it is blocked in an
\* AsyncToSync call the one of that call, which keeps the other.
CurKeptAt(f) ==
    frame[f].kind = "sync" /\ Live(f) =>
       \/ frame[f].cur = CallerCur(f) /\ \A c \in Executors : Live(c) => By(c) # f
       \/ \E c \in Executors : /\ Live(c) /\ By(c) = f
                               /\ frame[c].old = CallerCur(f) /\ frame[f].cur = c

\* The executor of a coroutine, and the one below an executor, belong to calls
\* the frame comes from.
CurAboveAt(f) ==
    /\ frame[f].kind = "async" => frame[f].cur \in {None} \union Lineage[f]
    /\ frame[f].via \in {"a2s", "force"} => frame[f].old \in {None} \union Lineage[By(f)]

\* Only the loops that are not AsyncToSync's have coroutines without one.
NoCurAt(f) ==
    frame[f].kind = "async" /\ frame[f].cur = None =>
       frame[frame[f].loop].via \in {"outer", "run"}

Contexts ==
    /\ \A f \in Frames : CurKeptAt(f) /\ CurAboveAt(f)
    /\ Uses({"fresh"}) \/ \A f \in Frames : NoCurAt(f)

\* A frame that runs has no executor but one of a call it comes from.
LEMMA RunningCur ==
    ASSUME Structure, Contexts, NEW f \in Frames, frame[f].state = "running"
    PROVE  /\ frame[f].kind = "sync" =>
                frame[f].cur = CallerCur(f) /\ \A c \in Executors : Live(c) => By(c) # f
           /\ frame[f].cur \in {None} \union Lineage[f]
<1>1. LineageDefined /\ LineageClosed
  BY StructureOrdered, LineageUnfolds, LineageIsClosed
<1>2. \A c \in Executors : Live(c) => By(c) # f
  BY DEF Executors, Structure, Waits, Pending, Tree, BornWell
<1>3. frame[f].kind = "sync" => frame[f].cur = CallerCur(f)
  BY <1>2 DEF Contexts, CurKeptAt, Live, Refusals
<1>4. CASE frame[f].kind = "async"
  BY <1>4 DEF Contexts, CurAboveAt
<1>5. CASE frame[f].kind = "sync" /\ f # 1
  <2>1. By(f) \in Frames /\ frame[By(f)].kind = "async"
    <3>1. frame[f].via \in Vias
      BY FramesTyped, PartsTyped DEF Structure
    <3> QED
      BY <1>5, <3>1 DEF Structure, Tree, BornWell, Vias
  <2>2. Lineage[By(f)] \subseteq Lineage[f]
    BY <1>1 DEF LineageDefined
  <2>3. frame[By(f)].cur \in {None} \union Lineage[By(f)]
    BY <2>1 DEF Contexts, CurAboveAt
  <2> QED
    BY <1>2, <1>3, <1>5, <2>2, <2>3 DEF CallerCur
<1>6. CASE frame[f].kind = "sync" /\ f = 1
  BY <1>2, <1>3, <1>6 DEF CallerCur
<1>7. frame[f].kind \in {"sync", "async"}
  BY FramesTyped, PartsTyped DEF Structure
<1> QED
  BY <1>2, <1>3, <1>4, <1>5, <1>6, <1>7

\* The contexts of the frames outside S do not change, nor do their calls.
LEMMA ContextsKept ==
    ASSUME Structure, Structure', Contexts, Kept, NEW S \in SUBSET Frames,
           \A f \in Frames \ S : frame'[f].cur = frame[f].cur,
           \A f \in S : frame[f].kind = "sync" /\ CurKeptAt(f)',
           \A f \in Frames : Live(f)' => Live(f),
           \A c \in Executors : Live(c) /\ By(c) \notin S => Live(c)',
           \A n \in Frames' \ Frames :
              /\ CurKeptAt(n)' /\ CurAboveAt(n)' /\ (Uses({"fresh"})' \/ NoCurAt(n)')
              /\ n \in Executors' => By(n)' \in S
    PROVE  Contexts'
<1>1. /\ \A f \in Frames : f # 1 => By(f) \in Frames
      /\ \A x \in {None} \union Frames : Lineage'[x] = Lineage[x]
      /\ By(1) = None
  BY LineageStep
<1>2. /\ \A c \in Executors : c \in Executors' /\ c \in Frames
      /\ \A c \in Executors' : c \in Executors \/ c \in Frames' \ Frames
      /\ \A f \in Frames : By(f)' = By(f)
  BY DEF Executors, Kept, By
<1>3. ASSUME NEW f \in Frames \ S PROVE CurKeptAt(f)'
  <2> SUFFICES ASSUME frame'[f].kind = "sync", Live(f)'
               PROVE  \/ /\ frame'[f].cur = CallerCur(f)'
                         /\ \A c \in Executors' : Live(c)' => By(c)' # f
                      \/ \E c \in Executors' : /\ Live(c)' /\ By(c)' = f
                                               /\ frame'[c].old = CallerCur(f)'
                                               /\ frame'[f].cur = c
    BY DEF CurKeptAt
  <2>1. frame[f].kind = "sync" /\ Live(f) /\ frame'[f].cur = frame[f].cur
    BY DEF Kept
  <2>2. CallerCur(f)' = CallerCur(f)
    <3>1. f # 1 => By(f) \in Frames /\ frame[By(f)].kind = "async"
      <4>1. frame[f].via \in Vias
        BY FramesTyped, PartsTyped DEF Structure
      <4> QED
        BY <2>1, <4>1 DEF Structure, Tree, BornWell, Vias
    <3>2. f # 1 => frame'[By(f)].cur = frame[By(f)].cur
      BY <3>1
    <3> QED
      BY <1>2, <3>2 DEF CallerCur
  <2>3. CASE frame[f].cur = CallerCur(f) /\ \A c \in Executors : Live(c) => By(c) # f
    <3>1. ASSUME NEW c \in Executors', Live(c)', By(c)' = f PROVE FALSE
      BY <1>2, <2>3, <3>1
    <3> QED
      BY <2>1, <2>2, <2>3, <3>1
  <2>4. CASE \E c \in Executors : /\ Live(c) /\ By(c) = f
                                  /\ frame[c].old = CallerCur(f) /\ frame[f].cur = c
    <3>1. PICK c \in Executors : /\ Live(c) /\ By(c) = f
                                 /\ frame[c].old = CallerCur(f) /\ frame[f].cur = c
      BY <2>4
    <3>2. c \in Executors' /\ Live(c)' /\ By(c)' = f /\ frame'[c].old = frame[c].old
      BY <1>2, <3>1 DEF Kept
    <3> QED
      BY <2>1, <2>2, <3>1, <3>2
  <2> QED
    BY <2>1, <2>3, <2>4 DEF Contexts, CurKeptAt
<1>4. ASSUME NEW f \in Frames PROVE CurAboveAt(f)'
  <2>1. CurAboveAt(f) /\ frame'[f].via = frame[f].via /\ frame'[f].kind = frame[f].kind
    BY DEF Contexts, Kept
  <2>2. frame[f].kind = "async" => frame'[f].cur = frame[f].cur
    OBVIOUS
  <2>3. Lineage'[f] = Lineage[f] /\ Lineage'[By(f)'] = Lineage[By(f)]
    BY <1>1, <1>2
  <2> QED
    BY <2>1, <2>2, <2>3 DEF CurAboveAt, Kept
<1>5. ASSUME NEW f \in Frames, ~ Uses({"fresh"})' PROVE NoCurAt(f)'
  <2>1. NoCurAt(f)
    BY <1>5, UsesKept DEF Contexts
  <2>2. frame[f].kind = "async" => frame[f].loop \in Frames /\ frame'[f].cur = frame[f].cur
    BY FramesTyped DEF Structure, Tree, BornWell
  <2> QED
    BY <2>1, <2>2 DEF NoCurAt, Kept
<1> QED
  BY <1>3, <1>4, <1>5 DEF Contexts

LEMMA LiveKept ==
    ASSUME Kept, NEW S, Steady(S), NEW g \in Frames \ S
    PROVE  Live(g)' <=> Live(g)
  BY DEF Steady, Live, Refusals

\* One frame turns, and keeps its executor.
LEMMA ContextsTurned ==
    ASSUME Structure, Structure', Contexts, Kept, Stays, NEW f \in Frames, Steady({f}),
           frame'[f].cur = frame[f].cur, Live(f)' => Live(f), f \in Executors => Live(f)'
    PROVE  Contexts'
<1>1. \A g \in Frames \ {f} : frame'[g].cur = frame[g].cur /\ (Live(g)' <=> Live(g))
  BY LiveKept DEF Steady
<1>2. PICK S \in SUBSET Frames : S = {}
  OBVIOUS
<1>3. /\ \A g \in Frames \ S : frame'[g].cur = frame[g].cur
      /\ \A g \in Frames : Live(g)' => Live(g)
      /\ \A c \in Executors : Live(c) /\ By(c) \notin S => Live(c)'
      /\ \A g \in S : frame[g].kind = "sync" /\ CurKeptAt(g)'
      /\ Frames' \ Frames = {}
  BY <1>1, <1>2 DEF Executors, Stays
<1> QED
  BY <1>3, ContextsKept

\* f calls n, in a copy of its context, or creates a task in a fresh one.
LEMMA ContextsBorn ==
    ASSUME Structure, Structure', Contexts, Kept, NEW f \in Frames, NEW n,
           Frames' = Frames \union {n}, n \notin Frames, Steady({f}),
           frame[f].state = "running", Live(f)', frame'[f].cur = frame[f].cur,
           frame'[n].parent = f, frame'[n].via \notin {"a2s", "force"},
           \/ frame'[n].cur = frame[f].cur
           \/ frame'[n].kind = "async" /\ frame'[n].via = "fresh" /\ frame'[n].cur = None,
           frame'[n].kind = "async" =>
              \/ frame'[n].via = "run" /\ frame'[n].loop = n
              \/ frame[f].kind = "async" /\ frame'[n].loop = frame[f].loop
    PROVE  Contexts'
<1>1. /\ LineageDefined' /\ \A x \in {None} \union Frames : Lineage'[x] = Lineage[x]
      /\ \A g \in Frames : g # 1 => By(g) \in Frames
      /\ By(1) = None /\ 1 \in Frames
  BY LineageStep
<1>2. None \notin Frames
  BY FramesTyped DEF Structure, None
<1>3. \A g \in Frames : frame'[g].cur = frame[g].cur /\ (Live(g)' <=> Live(g))
  <2>1. \A g \in Frames \ {f} : Live(g)' <=> Live(g)
    BY LiveKept
  <2> QED
    BY <2>1 DEF Steady, Live, Refusals
<1>4. Executors' = Executors
  BY <1>2 DEF Executors, Kept
<1>5. CurKeptAt(n)'
  <2> SUFFICES ASSUME frame'[n].kind = "sync"
               PROVE  /\ frame'[n].cur = CallerCur(n)'
                      /\ \A c \in Executors' : Live(c)' => By(c)' # n
    BY DEF CurKeptAt
  <2>1. n # 1 /\ By(n)' = f
    BY <1>1 DEF By
  <2>2. \A c \in Executors : By(c)' # n
    BY <1>1, <1>2, <2>1 DEF Executors, Kept, By, None, Structure, Tree, BornWell
  <2> QED
    BY <1>3, <1>4, <2>1, <2>2 DEF CallerCur
<1>6. CurAboveAt(n)'
  <2>1. Lineage'[n] = {n} \union Lineage'[f] /\ Lineage'[f] = Lineage[f]
    BY <1>1 DEF LineageDefined, By
  <2>2. frame[f].cur \in {None} \union Lineage[f]
    BY RunningCur
  <2> QED
    BY <2>1, <2>2 DEF CurAboveAt, None
<1>7. Uses({"fresh"})' \/ NoCurAt(n)'
  <2> SUFFICES ASSUME ~ Uses({"fresh"})', frame'[n].kind = "async", frame'[n].cur = None
               PROVE  frame'[frame'[n].loop].via \in {"outer", "run"}
    BY DEF NoCurAt, None
  <2>1. frame'[n].via # "fresh" /\ ~ Uses({"fresh"})
    BY UsesKept DEF Uses
  <2>2. frame[f].kind = "async" => frame[frame[f].loop].via \in {"outer", "run"} /\ frame[f].loop \in Frames
    BY <2>1, FramesTyped DEF Contexts, NoCurAt, Structure, Tree, BornWell
  <2> QED
    BY <2>1, <2>2 DEF Kept
<1> HIDE DEF Executors
<1>8. PICK S \in SUBSET Frames : S = {}
  OBVIOUS
<1>9. /\ \A g \in Frames \ S : frame'[g].cur = frame[g].cur
      /\ \A g \in Frames : Live(g)' => Live(g)
      /\ \A c \in Executors : Live(c) /\ By(c) \notin S => Live(c)'
      /\ \A g \in S : frame[g].kind = "sync" /\ CurKeptAt(g)'
  BY <1>3, <1>8 DEF Executors, Live, Refusals
<1>10. \A m \in Frames' \ Frames :
          /\ CurKeptAt(m)' /\ CurAboveAt(m)' /\ (Uses({"fresh"})' \/ NoCurAt(m)')
          /\ m \in Executors' => By(m)' \in S
  BY <1>4, <1>5, <1>6, <1>7 DEF Executors
<1> QED
  BY <1>9, <1>10, ContextsKept

LEMMA ContextsCallAsync ==
    ASSUME Structure, Structure', Contexts, NEW f \in Frames, NEW via \in {"a2s", "force"},
           CallAsync(f, via)
    PROVE  Contexts'
<1>1. PICK n : n = New
  OBVIOUS
<1>2. /\ Kept /\ Grows /\ Steady({f})
      /\ frame[f].kind = "sync" /\ frame[f].state = "running"
      /\ frame'[f].state = "blocked" /\ frame'[f].cur = n
      /\ frame'[n].kind = "async" /\ frame'[n].via = via /\ frame'[n].parent = f
      /\ frame'[n].old = frame[f].cur /\ frame'[n].cur = n
      /\ frame'[n].state \in {"running", "waiting"}
  BY <1>1, CallAsyncDoes DEF Structure, Becomes
<1>3. Frames' = Frames \union {n} /\ n \notin Frames /\ n # 1 /\ n \in Nat /\ n # None
  BY <1>1, <1>2, NewFrame DEF Structure, Grows, None
<1>4. /\ LineageDefined' /\ \A x \in {None} \union Frames : Lineage'[x] = Lineage[x]
      /\ \A g \in Frames : g # 1 => By(g) \in Frames
      /\ By(1) = None /\ 1 \in Frames /\ By(f) # f /\ None \notin Frames
  <2>1. By(f) \in 0 .. f - 1 /\ f \in Nat /\ None \notin Frames
    BY FramesTyped DEF Structure, Tree, BornWell, None
  <2> QED
    BY <1>2, <2>1, LineageStep
<1>5. /\ \A g \in Frames \ {f} : frame'[g].cur = frame[g].cur /\ (Live(g)' <=> Live(g))
      /\ Live(f) /\ Live(f)'
  BY <1>2, LiveKept DEF Steady, Live, Refusals
<1>6. frame[f].cur = CallerCur(f) /\ frame[f].cur \in {None} \union Lineage[f]
  BY <1>2, RunningCur
<1>7. CurKeptAt(f)'
  <2>1. n \in Executors' /\ Live(n)' /\ By(n)' = f
    BY <1>2, <1>3 DEF Executors, Live, Refusals, By
  <2>2. CallerCur(f)' = CallerCur(f)
    <3>1. f # 1 => By(f) \in Frames \ {f} /\ By(f)' = By(f)
      BY <1>2, <1>4 DEF Kept, By
    <3> QED
      BY <1>5, <3>1 DEF CallerCur, None
  <2> QED
    BY <1>2, <1>6, <2>1, <2>2 DEF CurKeptAt
<1>8. CurAboveAt(n)'
  <2>1. Lineage'[n] = {n} \union Lineage'[By(n)'] /\ Lineage'[f] = Lineage[f] /\ By(n)' = f
    BY <1>2, <1>3, <1>4 DEF LineageDefined, By
  <2> QED
    BY <1>2, <1>6, <2>1 DEF CurAboveAt, None
<1>9. CurKeptAt(n)' /\ NoCurAt(n)'
  BY <1>2, <1>3, <1>4 DEF CurKeptAt, NoCurAt, None
<1>10. PICK S \in SUBSET Frames : S = {f}
  OBVIOUS
<1>11. /\ \A g \in Frames \ S : frame'[g].cur = frame[g].cur
       /\ \A g \in Frames : Live(g)' => Live(g)
       /\ \A c \in Executors : Live(c) /\ By(c) \notin S => Live(c)'
       /\ \A g \in S : frame[g].kind = "sync" /\ CurKeptAt(g)'
  BY <1>2, <1>5, <1>7, <1>10 DEF Executors
<1>12. \A m \in Frames' \ Frames :
          /\ CurKeptAt(m)' /\ CurAboveAt(m)' /\ (Uses({"fresh"})' \/ NoCurAt(m)')
          /\ m \in Executors' => By(m)' \in S
  BY <1>2, <1>3, <1>8, <1>9, <1>10 DEF Executors, By
<1> QED
  BY <1>2, <1>11, <1>12, ContextsKept

LEMMA ContextsReturnAsync ==
    ASSUME Structure, Structure', Contexts, NEW f \in Frames, NEW g \in Frames,
           ReturnAsync(f, g)
    PROVE  Contexts'
<1>1. f # g /\ By(g) = f /\ By(f) \notin {f, g} /\ None \notin Frames
  <2>1. frame[g].parent = f
    BY DEF ReturnAsync
  <2>2. f \in 0 .. g - 1 /\ By(f) \in 0 .. f - 1 /\ f \in Nat /\ g \in Nat /\ None \notin Frames
    BY <2>1, FramesTyped DEF Structure, Tree, BornWell, By, None
  <2> QED
    BY <2>1, <2>2 DEF By
<1>2. /\ Kept /\ Stays /\ Steady({f, g})
      /\ frame[g].via \in {"a2s", "force"} /\ frame[g].state = "returned"
      /\ frame'[g].state = "done" /\ frame'[g].cur = frame[g].cur
      /\ frame'[f].state = "running" /\ frame'[f].cur = frame[g].old
  <2>1. Typed /\ f # g /\ ReturnAsync(f, g)
    BY <1>1 DEF Structure
  <2>2. /\ Kept /\ Stays /\ Steady({f, g})
        /\ frame[g].via \in {"a2s", "force"} /\ frame[g].state = "returned"
        /\ Becomes(g, "done", frame[g].cur, frame[g].dl)
        /\ frame'[f].state = "running" /\ frame'[f].cur = frame[g].old
    BY <2>1, ReturnAsyncDoes
  <2> QED
    BY <2>2 DEF Becomes
<1>3. g \in Executors /\ Pending(g) /\ frame[f].kind = "sync" /\ frame[f].state = "blocked"
  BY <1>1, <1>2 DEF Executors, Structure, Tree, BornWell, Pending, Waits, Live, Refusals
<1>4. \A c \in Executors : Live(c) /\ By(c) = f => c = g
  BY <1>1, <1>3 DEF Executors, Structure, Tree, BornWell, Pending, Waits
<1>5. frame[g].old = CallerCur(f)
  <2>1. Live(f) /\ Live(g)
    BY <1>3 DEF Live, Refusals, Pending
  <2> QED
    BY <1>1, <1>3, <1>4, <2>1 DEF Contexts, CurKeptAt
<1>6. /\ \A h \in Frames \ {f} : frame'[h].cur = frame[h].cur
      /\ \A h \in Frames \ {f, g} : Live(h)' <=> Live(h)
      /\ Live(f) /\ Live(g) /\ ~ Live(g)'
  BY <1>2, <1>3, LiveKept DEF Steady, Live, Refusals
<1>7. CurKeptAt(f)'
  <2>1. CallerCur(f)' = CallerCur(f)
    <3>1. f # 1 => By(f) \in Frames \ {f} /\ By(f)' = By(f)
      BY <1>1, <1>2 DEF Kept, By, Structure, Tree, BornWell
    <3> QED
      BY <1>6, <3>1 DEF CallerCur, None
  <2>2. ASSUME NEW c \in Executors', Live(c)', By(c)' = f PROVE FALSE
    <3>1. c \in Executors /\ By(c) = f
      BY <1>2, <2>2 DEF Executors, Kept, Stays, By
    <3>2. Live(c)
      BY <1>2, <1>6, <2>2 DEF Stays, Executors
    <3> QED
      BY <1>4, <1>6, <2>2, <3>1, <3>2
  <2> QED
    BY <1>2, <1>5, <2>1, <2>2 DEF CurKeptAt
<1>8. PICK S \in SUBSET Frames : S = {f}
  OBVIOUS
<1>9. /\ \A h \in Frames \ S : frame'[h].cur = frame[h].cur
      /\ \A h \in Frames : Live(h)' => Live(h)
      /\ \A c \in Executors : Live(c) /\ By(c) \notin S => Live(c)'
      /\ \A h \in S : frame[h].kind = "sync" /\ CurKeptAt(h)'
      /\ Frames' \ Frames = {}
  <2>1. \A c \in Executors : By(c) \notin S => c # g /\ c # f
    BY <1>1, <1>3, <1>8 DEF Executors, Structure, Tree, BornWell
  <2> QED
    BY <1>2, <1>3, <1>6, <1>7, <1>8, <2>1 DEF Executors, Stays
<1> QED
  BY <1>2, <1>9, ContextsKept

\* A call that is not of AsyncToSync returns: the caller has its executor still.
LEMMA ContextsReturned ==
    ASSUME Structure, Structure', Contexts, Kept, Stays, NEW f \in Frames, NEW g \in Frames,
           f # g, By(g) = f, Steady({f, g}), frame[g].state = "returned",
           frame[g].via \in {"s2a", "pool", "run"},
           Becomes(g, "done", frame[g].cur, frame[g].dl), frame'[f].state = "running",
           frame'[f].cur = frame[f].cur
    PROVE  Contexts'
<1>1. frame[f].state = "blocked"
  BY DEF Structure, Tree, BornWell, Pending, Waits, Live, Refusals
<1>2. /\ \A h \in Frames : frame'[h].cur = frame[h].cur
      /\ \A h \in Frames \ {g} : Live(h)' <=> Live(h)
      /\ Live(g) /\ ~ Live(g)'
  BY <1>1, LiveKept DEF Steady, Live, Refusals, Becomes
<1>3. g \notin Executors
  BY DEF Executors
<1>4. PICK S \in SUBSET Frames : S = {}
  OBVIOUS
<1>5. /\ \A h \in Frames \ S : frame'[h].cur = frame[h].cur
      /\ \A h \in Frames : Live(h)' => Live(h)
      /\ \A c \in Executors : Live(c) /\ By(c) \notin S => Live(c)'
      /\ \A h \in S : frame[h].kind = "sync" /\ CurKeptAt(h)'
      /\ Frames' \ Frames = {}
  BY <1>2, <1>3, <1>4 DEF Executors, Stays
<1> QED
  BY <1>5, ContextsKept

LEMMA ContextsNext ==
    ASSUME Structure, Structure', Contexts, [Next]_vars
    PROVE  Contexts'
<1>0. Typed
  BY DEF Structure
<1>1. ASSUME NEW f \in Frames, NEW via \in {"a2s", "force"}, CallAsync(f, via)
      PROVE  Contexts'
  BY <1>1, ContextsCallAsync
<1>2. ASSUME NEW f \in Frames, StartLoop(f) PROVE Contexts'
  <2>1. /\ Kept /\ Stays /\ Steady({f}) /\ Live(f) /\ (f \in Executors => Live(f)')
        /\ frame'[f].cur = frame[f].cur
    BY <1>0, <1>2, StartLoopDoes DEF Becomes, Live, Refusals
  <2> QED
    BY <2>1, ContextsTurned
<1>3. ASSUME NEW f \in Frames, CallSensitive(f) PROVE Contexts'
  <2>1. PICK n : n = New
    OBVIOUS
  <2>2. frame[f].kind = "async"
    BY <1>3 DEF CallSensitive
  <2>3. Chosen(f) \in 0 .. MaxFrames + 1
    BY <1>0, <2>2, ChosenWell, FramesTyped, NumbersTyped DEF Single, None, Executors
  <2>4. /\ Kept /\ Grows /\ frame[f].state = "running"
        /\ frame'[n].parent = f /\ frame'[n].kind = "sync" /\ frame'[n].via = "s2a"
        /\ frame'[n].cur = frame[f].cur
        /\ Refused(f) \/ Submitted(f)
    BY <1>0, <1>3, <2>1, <2>3, CallSensitiveDoes
  <2>5. Frames' = Frames \union {n} /\ n \notin Frames
    BY <2>1, <2>4 DEF Grows
  <2>6. Steady({f}) /\ frame'[f].cur = frame[f].cur /\ Live(f)'
    BY <2>4 DEF Refused, Submitted, Steady, Becomes, Live, Refusals
  <2> QED
    BY <2>4, <2>5, <2>6, ContextsBorn
<1>4. ASSUME NEW f \in Frames, CallInsensitive(f) PROVE Contexts'
  <2>1. PICK n : n = New
    OBVIOUS
  <2>2. /\ Kept /\ Grows /\ Steady({f}) /\ frame[f].state = "running"
        /\ frame'[f].cur = frame[f].cur /\ frame'[f].state = "blocked"
        /\ frame'[n].parent = f /\ frame'[n].kind = "sync" /\ frame'[n].via = "pool"
        /\ frame'[n].cur = frame[f].cur
    BY <1>0, <1>4, <2>1, CallInsensitiveDoes DEF Becomes
  <2>3. Frames' = Frames \union {n} /\ n \notin Frames /\ Live(f)'
    BY <2>1, <2>2 DEF Grows, Live, Refusals
  <2> QED
    BY <2>2, <2>3, ContextsBorn
<1>5. ASSUME NEW f \in Frames, NEW via \in {"task", "fresh"}, CreateTask(f, via)
      PROVE  Contexts'
  <2>1. PICK n : n = New
    OBVIOUS
  <2>2. /\ Kept /\ Grows /\ Steady({}) /\ frame[f].state = "running" /\ frame[f].kind = "async"
        /\ frame'[n].parent = f /\ frame'[n].kind = "async" /\ frame'[n].via = via
        /\ frame'[n].loop = frame[f].loop
        /\ frame'[n].cur = (IF via = "task" THEN frame[f].cur ELSE None)
    BY <1>0, <1>5, <2>1, CreateTaskDoes
  <2>3. Frames' = Frames \union {n} /\ n \notin Frames
    BY <2>1, <2>2 DEF Grows
  <2>4. Live(f)' /\ frame'[f].cur = frame[f].cur /\ Steady({f})
    BY <2>2 DEF Steady, Live, Refusals
  <2> QED
    BY <2>2, <2>3, <2>4, ContextsBorn
<1>6. ASSUME NEW f \in Frames, Join(f) PROVE Contexts'
  <2>1. /\ Kept /\ Stays /\ Steady({f}) /\ Live(f) /\ (f \in Executors => Live(f)')
        /\ frame'[f].cur = frame[f].cur
    BY <1>0, <1>6, JoinDoes DEF Becomes, Live, Refusals
  <2> QED
    BY <2>1, ContextsTurned
<1>7. ASSUME NEW f \in Frames, Joined(f) PROVE Contexts'
  <2>1. /\ Kept /\ Stays /\ Steady({f}) /\ Live(f) /\ (f \in Executors => Live(f)')
        /\ frame'[f].cur = frame[f].cur
    BY <1>0, <1>7, JoinedDoes DEF Becomes, Live, Refusals
  <2> QED
    BY <2>1, ContextsTurned
<1>8. ASSUME NEW f \in Frames, RunLoop(f) PROVE Contexts'
  <2>1. PICK n : n = New
    OBVIOUS
  <2>2. /\ Kept /\ Grows /\ Steady({f}) /\ frame[f].state = "running"
        /\ frame'[f].cur = frame[f].cur /\ frame'[f].state = "blocked"
        /\ frame'[n].parent = f /\ frame'[n].kind = "async" /\ frame'[n].via = "run"
        /\ frame'[n].loop = n /\ frame'[n].cur = frame[f].cur
    BY <1>0, <1>8, <2>1, RunLoopDoes DEF Becomes
  <2>3. Frames' = Frames \union {n} /\ n \notin Frames /\ Live(f)'
    BY <2>1, <2>2 DEF Grows, Live, Refusals
  <2> QED
    BY <2>2, <2>3, ContextsBorn
<1>9. ASSUME NEW f \in Frames, Return(f) PROVE Contexts'
  <2>1. /\ Kept /\ Stays /\ Steady({f}) /\ Live(f) /\ (f \in Executors => Live(f)')
        /\ frame'[f].cur = frame[f].cur
    BY <1>0, <1>9, ReturnDoes DEF Becomes, Live, Refusals, Ending, Executors
  <2> QED
    BY <2>1, ContextsTurned
<1>10. ASSUME NEW f \in Frames, NEW g \in Frames, ReturnAsync(f, g) PROVE Contexts'
  BY <1>10, ContextsReturnAsync
<1>11. ASSUME NEW f \in Frames, NEW g \in Frames, ReturnSync(f, g) PROVE Contexts'
  <2>1. f # g /\ By(g) = f
    BY <1>11 DEF ReturnSync, Structure, Tree, BornWell, By
  <2>2. /\ Kept /\ Stays /\ Steady({f, g})
        /\ frame[g].state = "returned" /\ frame[g].via \in {"s2a", "pool"}
        /\ Becomes(g, "done", frame[g].cur, frame[g].dl)
        /\ frame'[f].state = "running" /\ frame'[f].cur = frame[g].cur
    <3>1. Typed /\ f # g /\ ReturnSync(f, g)
      BY <1>0, <1>11, <2>1
    <3> QED
      BY <3>1, ReturnSyncDoes
  <2>3. frame[g].cur = frame[f].cur
    <3>1. frame[g].kind = "sync" /\ Live(g) /\ g # 1
      BY <2>2 DEF Structure, Tree, BornWell, Live, Refusals
    <3>2. \A c \in Executors : ~ (Live(c) /\ By(c) = g)
      BY <2>2 DEF Executors, Structure, Tree, BornWell, Pending, Waits
    <3> QED
      BY <2>1, <3>1, <3>2 DEF Contexts, CurKeptAt, CallerCur
  <2> QED
    BY <2>1, <2>2, <2>3, ContextsReturned
<1>12. ASSUME NEW f \in Frames, NEW g \in Frames, ReturnLoop(f, g) PROVE Contexts'
  <2>1. f # g /\ By(g) = f
    BY <1>12 DEF ReturnLoop, Structure, Tree, BornWell, By
  <2>2. /\ Kept /\ Stays /\ Steady({f, g})
        /\ frame[g].state = "returned" /\ frame[g].via = "run"
        /\ Becomes(g, "done", frame[g].cur, frame[g].dl)
        /\ frame'[f].state = "running" /\ frame'[f].cur = frame[f].cur
    <3>1. Typed /\ f # g /\ ReturnLoop(f, g)
      BY <1>0, <1>12, <2>1
    <3> QED
      BY <3>1, ReturnLoopDoes
  <2> QED
    BY <2>1, <2>2, ContextsReturned
<1>13. ASSUME NEW t \in Threads, NEW f \in Frames, StartSync(t, f) PROVE Contexts'
  <2>1. frame[f].state = "queued" /\ frame[f].parent \in Frames
    BY <1>13 DEF StartSync, Structure, Stations, InState, Tree, BornWell, By
  <2>2. Kept /\ Stays /\ Steady({f}) /\ Becomes(f, "running", frame[f].cur, frame[f].dl)
    <3>1. Typed /\ StartSync(t, f) /\ frame[f].parent \in Frames
      BY <1>0, <1>13, <2>1
    <3> QED
      BY <3>1, StartSyncDoes
  <2>3. Live(f) /\ Live(f)' /\ frame'[f].cur = frame[f].cur
    BY <2>1, <2>2 DEF Becomes, Live, Refusals
  <2> QED
    BY <2>2, <2>3, ContextsTurned
<1>14. CASE UNCHANGED vars
  BY <1>14 DEF vars, Contexts, CurKeptAt, CurAboveAt, NoCurAt, Executors, Frames, Live,
               CallerCur, By, Lineage, Uses
<1>15. Ended => UNCHANGED vars
  BY DEF Ended
<1> QED
  BY <1>1, <1>2, <1>3, <1>4, <1>5, <1>6, <1>7, <1>8, <1>9, <1>10, <1>11, <1>12, <1>13,
     <1>14, <1>15 DEF Next

LEMMA ContextsInitial == Init => Contexts
  BY FirstFrame DEF Contexts, CurKeptAt, CurAboveAt, NoCurAt, CallerCur, Executors, By, None

\* However its calls, tasks and loops interleave, code has in its context the
\* executor of the AsyncToSync call it runs below, put back when a call returns.
THEOREM ContextsInvariant == Spec => []Contexts
<1>1. Structure /\ Structure' /\ Contexts /\ [Next]_vars => Contexts'
  BY ContextsNext
<1> QED
  BY <1>1, ContextsInitial, StructureInvariant, PTL DEF Spec

-----------------------------------------------------------------------------
(* Calls nest in each thread.                                               *)

\* Work is given to executors of calls it comes from.
ExecAbove == \A g \in Frames : frame[g].exec \notin {None, Single} => frame[g].exec \in Lineage[g]

\* A thread of a pool runs what the work item it was started for comes to run.
ThreadsOwned ==
    \A t \in Threads \ {Main, Single} : OnThread(t) # {} =>
        t \in Frames /\ frame[t].via = "pool" /\ frame[t].state # "queued"

Nested == \A t \in Threads : \A f, g \in OnThread(t) : f < g => f \in Lineage[By(g)]

Nesting == Uses({"fresh"}) \/ (ExecAbove /\ ThreadsOwned /\ Nested)

\* The executor chosen for a call, the walk up from it included, is above.
LEMMA ChosenAbove ==
    ASSUME Structure, Contexts, ~ Uses({"fresh"}), NEW f \in Frames,
           frame[f].kind = "async"
    PROVE  Chosen(f) \in {None, Single} \union Lineage[f]
<1>1. LineageDefined /\ LineageClosed /\ Ordered
  BY StructureOrdered, LineageUnfolds, LineageIsClosed
<1>2. /\ frame[f].cur \in {None} \union Executors
      /\ frame[f].cur \in {None} \union Lineage[f]
      /\ frame[f].cur = None => frame[frame[f].loop].via \in {"outer", "run"}
  BY DEF Contexts, CurAboveAt, NoCurAt, Structure, Stations, InState
<1>3. ChooseExecutor(f) \in {None, Single} \/ ChooseExecutor(f) = frame[f].cur
  BY <1>2 DEF ChooseExecutor, LoopThreadExecutor
<1> DEFINE S == {None} \union (Executors \intersect Lineage[f])
<1>4. S \in SUBSET ({None} \union Frames) /\ frame[f].cur \in S
  BY <1>2 DEF Executors
<1>5. \A x \in S : x # None /\ Broken(x) => frame[x].old \in S
  <2> SUFFICES ASSUME NEW x \in Executors, x \in Lineage[f]
               PROVE  frame[x].old \in {None} \union (Executors \intersect Lineage[f])
    OBVIOUS
  <2>1. x \in Frames /\ frame[x].via \in {"a2s", "force"}
    BY DEF Executors
  <2>2. frame[x].old \in {None} \union Executors /\ frame[x].old \in {None} \union Lineage[By(x)]
    BY <2>1 DEF Contexts, CurAboveAt, Structure, Tree, BornWell
  <2>3. Lineage[By(x)] \subseteq Lineage[x] /\ Lineage[x] \subseteq Lineage[f]
    BY <1>1, <2>1 DEF LineageDefined, LineageClosed
  <2> QED
    BY <2>2, <2>3
<1> HIDE DEF S
<1>6. StillRunning[frame[f].cur] \in S
  BY <1>1, <1>4, <1>5, RunningWithin
<1> QED
  BY <1>3, <1>6 DEF Chosen, Closest, S

\* No frame comes to occupy a thread.
LEMMA NestingKept ==
    ASSUME Structure, Structure', Nesting, Kept,
           \A t \in Threads : OnThread(t)' \subseteq OnThread(t),
           \A p \in Frames : frame[p].via = "pool" /\ frame[p].state # "queued"
                                => frame'[p].state # "queued",
           \A n \in Frames' \ Frames :
              \/ Uses({"fresh"})'
              \/ frame'[n].exec \notin {None, Single}' => frame'[n].exec \in Lineage'[n]
    PROVE  Nesting'
<1> SUFFICES ASSUME ~ Uses({"fresh"})'
             PROVE  ExecAbove' /\ ThreadsOwned' /\ Nested'
  BY DEF Nesting
<1>1. ExecAbove /\ ThreadsOwned /\ Nested
  BY UsesKept DEF Nesting
<1>2. /\ \A x \in {None} \union Frames : Lineage'[x] = Lineage[x]
      /\ \A g \in Frames : By(g) \in {None} \union Frames
  BY LineageStep
<1>3. ExecAbove'
  <2>1. ASSUME NEW g \in Frames, frame'[g].exec \notin {None, Single}
        PROVE  frame'[g].exec \in Lineage'[g]
    BY <1>1, <1>2, <2>1 DEF ExecAbove, Kept
  <2> QED
    BY <2>1 DEF ExecAbove, None, Single
<1>4. ThreadsOwned'
  <2>1. ASSUME NEW t \in Threads \ {Main, Single}, OnThread(t)' # {}
        PROVE  t \in Frames' /\ frame'[t].via = "pool" /\ frame'[t].state # "queued"
    <3>1. t \in Frames /\ frame[t].via = "pool" /\ frame[t].state # "queued"
      BY <1>1, <2>1 DEF ThreadsOwned
    <3> QED
      BY <3>1 DEF Kept
  <2> QED
    BY <2>1 DEF ThreadsOwned, Threads, Main, Single
<1>5. Nested'
  <2>1. ASSUME NEW t \in Threads, NEW f \in OnThread(t)', NEW g \in OnThread(t)', f < g
        PROVE  f \in Lineage'[frame'[g].parent]
    <3>1. f \in OnThread(t) /\ g \in OnThread(t)
      OBVIOUS
    <3>2. f \in Lineage[By(g)] /\ g \in Frames
      BY <1>1, <2>1, <3>1 DEF Nested, OnThread
    <3> QED
      BY <1>2, <3>2 DEF Kept, By
  <2> QED
    BY <2>1 DEF Nested, By, Threads
<1> QED
  BY <1>3, <1>4, <1>5

\* Frames outside S stay; those in S were on their thread if they are now.
LEMMA NestingSteady ==
    ASSUME Structure, Structure', Nesting, Kept, NEW S \in SUBSET Frames, Steady(S),
           \A f \in S : /\ frame'[f].state \in {"running", "blocked"} =>
                              \/ frame[f].state \in {"running", "blocked"} /\ SameThread(f)
                              \/ frame[f].kind = "async"
                        /\ frame'[f].state # "queued",
           \A n \in Frames' \ Frames :
              /\ frame'[n].kind = "sync" => frame'[n].state \in {"queued"} \union Refusals
              /\ \/ Uses({"fresh"})'
                 \/ frame'[n].exec \notin {None, Single}' => frame'[n].exec \in Lineage'[n]
    PROVE  Nesting'
<1>1. ASSUME NEW t \in Threads, NEW f \in OnThread(t)' PROVE f \in OnThread(t)
  <2>1. /\ f \in Frames' /\ frame'[f].kind = "sync" /\ frame'[f].thread = t
        /\ frame'[f].state \in {"running", "blocked"}
    BY DEF OnThread
  <2>2. f \in Frames
    BY <2>1 DEF Refusals
  <2>3. frame[f].kind = "sync"
    BY <2>1, <2>2 DEF Kept
  <2>4. frame[f].thread = t /\ frame[f].state \in {"running", "blocked"}
    BY <2>1, <2>2, <2>3 DEF Steady, SameThread
  <2> QED
    BY <2>2, <2>3, <2>4 DEF OnThread
<1>2. \A p \in Frames : frame[p].via = "pool" /\ frame[p].state # "queued"
                           => frame'[p].state # "queued"
  BY DEF Steady
<1> QED
  BY <1>1, <1>2, NestingKept

\* Work starts in a thread where it has no one above it but its callers.
LEMMA NestingStartSync ==
    ASSUME Structure, Structure', Nesting, NEW t \in Threads, NEW g \in Frames, StartSync(t, g)
    PROVE  Nesting'
<1>1. /\ frame[g].state = "queued" /\ frame[g].parent \in Frames /\ frame[g].exec # None
      /\ Serves(t, frame[g].exec) /\ frame[g].kind = "sync" /\ BornWell(g)
  BY DEF StartSync, Structure, Stations, InState, Tree, BornWell, By
<1>2. /\ Kept /\ Stays /\ Steady({g})
      /\ frame'[g].state = "running" /\ frame'[g].thread = t
  <2>1. Typed /\ StartSync(t, g) /\ frame[g].parent \in Frames
    BY <1>1 DEF Structure
  <2> QED
    BY <2>1, StartSyncDoes DEF Becomes
<1> SUFFICES ASSUME ~ Uses({"fresh"})'
             PROVE  ExecAbove' /\ ThreadsOwned' /\ Nested'
  BY DEF Nesting
<1>3. ExecAbove /\ ThreadsOwned /\ Nested
  BY <1>2, UsesKept DEF Nesting
<1>4. /\ \A x \in {None} \union Frames : Lineage'[x] = Lineage[x]
      /\ \A h \in Frames : By(h) \in {None} \union Frames
      /\ LineageDefined /\ LineageClosed
      /\ Frames \subseteq Nat
  BY <1>2, LineageStep
<1>5. /\ \A u \in Threads \ {t} : OnThread(u)' \subseteq OnThread(u)
      /\ OnThread(t)' \subseteq OnThread(t) \union {g}
  BY <1>2 DEF OnThread, Kept, Stays, Steady
<1>6. ExecAbove'
  BY <1>2, <1>3, <1>4 DEF ExecAbove, None, Single, Kept, Stays
<1>7. PICK e : e = frame[g].exec
  OBVIOUS
<1>8. \/ e = Single /\ t = Single /\ OnThread(Single) = {}
      \/ e = g /\ frame[g].via = "pool" /\ t = g
      \/ /\ e \in Executors /\ e < g /\ e \in Frames /\ e # g /\ Live(e)
         /\ t = frame[By(e)].thread /\ Innermost(By(e))
  <2>1. CASE e = Single
    BY <1>1, <1>7, <2>1 DEF Serves
  <2>2. CASE e # Single /\ e = g
    <3>1. frame[g].via = "pool"
      BY <1>1, <1>7, <2>2 DEF BornWell
    <3> QED
      BY <1>1, <1>7, <2>2, <3>1 DEF Serves
  <2>3. CASE e # Single /\ e # g
    <3>1. e \in Executors /\ e < g /\ e \in Frames
      BY <1>1, <1>7, <2>3 DEF BornWell, Executors
    <3>2. Live(e)
      BY <1>1, <1>7, <2>3 DEF Structure, Served
    <3> QED
      BY <1>1, <1>7, <2>3, <3>1, <3>2 DEF Serves, Executors, By
  <2> QED
    BY <2>1, <2>2, <2>3
<1>9. ASSUME e \in Executors, e < g, e \in Frames, e # g, Live(e),
             t = frame[By(e)].thread, Innermost(By(e))
      PROVE  /\ By(e) \in OnThread(t)
             /\ \A h \in OnThread(t) : h <= By(e) /\ h < g /\ h \in Lineage[By(g)]
  <2>1. /\ e # 1 /\ Pending(e) /\ By(e) \in Frames /\ frame[By(e)].kind = "sync"
        /\ frame[By(e)].state = "blocked" /\ By(e) < e
    <3>1. e \in Frames /\ e \in Nat /\ BornWell(e) /\ frame[e].via \in {"a2s", "force"} /\ Live(e)
      BY <1>4, <1>9 DEF Executors, Structure, Tree
    <3>2. e # 1 /\ By(e) \in Frames /\ frame[By(e)].kind = "sync" /\ By(e) < e
      BY <3>1 DEF BornWell
    <3>3. Pending(e)
      BY <3>1, <3>2 DEF Pending
    <3> QED
      BY <3>1, <3>2, <3>3 DEF Structure, Waits
  <2>2. By(e) \in OnThread(t)
    BY <1>9, <2>1 DEF OnThread
  <2>3. e \in Lineage[By(g)]
    <3>1. e \in Lineage[g]
      <4>1. e # Single
        BY <1>9, FramesTyped, NumbersTyped DEF Structure
      <4> QED
        BY <1>1, <1>3, <1>7, <4>1 DEF ExecAbove
    <3> QED
      BY <1>4, <1>9, <3>1 DEF LineageDefined
  <2>4. By(g) \in Frames
    BY <1>1 DEF By
  <2>5. Lineage[By(e)] \subseteq Lineage[By(g)] /\ By(e) \in Lineage[By(e)]
    <3>1. Lineage[e] = {e} \union Lineage[By(e)] /\ Lineage[e] \subseteq Lineage[By(g)]
      BY <1>4, <1>9, <2>3, <2>4 DEF LineageDefined, LineageClosed
    <3>2. By(e) \in Lineage[By(e)]
      BY <1>4, <2>1 DEF LineageClosed
    <3> QED
      BY <3>1, <3>2
  <2>6. ASSUME NEW h \in OnThread(t) PROVE h <= By(e) /\ h < g /\ h \in Lineage[By(g)]
    <3>1. h <= By(e) /\ h \in Frames
      BY <1>9, <2>6 DEF Innermost, OnThread
    <3>2. h < g /\ (h = By(e) \/ h < By(e))
      <4>1. h \in Nat /\ By(e) \in Nat /\ e \in Nat /\ g \in Nat /\ e < g /\ By(e) < e
        BY <1>4, <1>9, <2>1, <3>1
      <4> QED
        BY <3>1, <4>1
    <3>3. h < By(e) => h \in Lineage[By(By(e))]
      BY <1>3, <2>2 DEF Nested
    <3>4. Lineage[By(By(e))] \subseteq Lineage[By(e)]
      BY <1>4, <2>1 DEF LineageDefined
    <3> QED
      BY <2>5, <3>1, <3>2, <3>3, <3>4
  <2> QED
    BY <2>2, <2>6
<1>10. t \notin {Main, Single} => e # Single /\ (e = g => OnThread(t) = {})
  <2> SUFFICES ASSUME t \notin {Main, Single}
               PROVE  e # Single /\ (e = g => OnThread(t) = {})
    OBVIOUS
  <2>1. e \in Frames => e # Single
    BY FramesTyped, NumbersTyped DEF Structure
  <2>2. t = g => OnThread(t) = {}
    BY <1>1, <1>3 DEF ThreadsOwned
  <2> QED
    BY <1>8, <2>1, <2>2
<1>11. e = g => OnThread(t) = {}
  <2>1. g # Main /\ g # Single
    BY FramesTyped, NumbersTyped DEF Structure, Main
  <2>2. e # Single \/ e # g
    BY <2>1
  <2> QED
    BY <1>8, <1>10, <2>1
<1>12. ThreadsOwned'
  <2>1. ASSUME NEW u \in Threads \ {Main, Single}, OnThread(u)' # {}
        PROVE  u \in Frames' /\ frame'[u].via = "pool" /\ frame'[u].state # "queued"
    <3>1. CASE OnThread(u) # {}
      BY <1>2, <1>3, <3>1 DEF ThreadsOwned, Kept, Stays, Steady
    <3>2. CASE OnThread(u) = {}
      <4>1. u = t
        BY <1>5, <2>1, <3>2
      <4>2. e = g /\ frame[g].via = "pool" /\ t = g
        BY <1>8, <1>9, <3>2, <4>1
      <4> QED
        BY <1>2, <4>1, <4>2 DEF Kept, Stays
    <3> QED
      BY <3>1, <3>2
  <2> QED
    BY <2>1 DEF ThreadsOwned, Threads, Main, Single
<1>13. \A h \in OnThread(t) : h < g /\ h \in Lineage[By(g)]
  BY <1>8, <1>9, <1>11
<1>14. Nested'
  <2>1. ASSUME NEW u \in Threads, NEW x \in OnThread(u)', NEW y \in OnThread(u)', x < y
        PROVE  x \in Lineage'[frame'[y].parent]
    <3>1. y \in Frames /\ x \in Frames /\ frame'[y].parent = By(y)
      BY <1>2 DEF OnThread, Stays, Kept, By
    <3>2. Lineage'[By(y)] = Lineage[By(y)]
      BY <1>4, <3>1
    <3>3. CASE x \in OnThread(u) /\ y \in OnThread(u)
      BY <1>3, <2>1, <3>1, <3>2, <3>3 DEF Nested
    <3>4. CASE ~ (x \in OnThread(u) /\ y \in OnThread(u))
      <4>1. u = t /\ (x = g \/ y = g)
        BY <1>5, <3>4
      <4>2. x # g /\ y = g /\ x \in OnThread(t)
        BY <1>4, <1>5, <1>13, <2>1, <3>1, <4>1
      <4> QED
        BY <1>13, <3>1, <3>2, <4>2
    <3> QED
      BY <3>3, <3>4
  <2> QED
    BY <2>1 DEF Nested, By, Threads
<1> QED
  BY <1>6, <1>12, <1>14

LEMMA NestingNext ==
    ASSUME Structure, Structure', Contexts, Nesting, [Next]_vars
    PROVE  Nesting'
<1>0. Typed
  BY DEF Structure
<1>1. ASSUME NEW f \in Frames, NEW via \in {"a2s", "force"}, CallAsync(f, via)
      PROVE  Nesting'
  <2>1. PICK n : n = New
    OBVIOUS
  <2>2. /\ Kept /\ Grows /\ Steady({f}) /\ SameThread(f) /\ frame[f].state = "running"
        /\ frame'[n].kind = "async" /\ frame'[n].exec = None /\ frame'[f].state = "blocked"
    BY <1>0, <1>1, <2>1, CallAsyncDoes DEF Becomes
  <2>3. PICK S \in SUBSET Frames : S = {f}
    OBVIOUS
  <2>4. Frames' = Frames \union {n}
    BY <2>1, <2>2 DEF Grows
  <2> QED
    BY <2>2, <2>3, <2>4, NestingSteady DEF None
<1>2. ASSUME NEW f \in Frames, StartLoop(f) PROVE Nesting'
  <2>1. /\ Kept /\ Stays /\ Steady({f}) /\ SameThread(f)
        /\ frame[f].state = "waiting" /\ frame'[f].state # "queued"
    BY <1>0, <1>2, StartLoopDoes DEF Becomes
  <2>2. PICK S \in SUBSET Frames : S = {f}
    OBVIOUS
  <2>3. frame[f].kind = "async"
    <3>1. InState(f) /\ frame[f].kind \in {"sync", "async"}
      BY FramesTyped, PartsTyped DEF Structure, Stations
    <3> QED
      BY <2>1, <3>1 DEF InState, Refusals
  <2> QED
    BY <2>1, <2>2, <2>3, NestingSteady DEF Stays
<1>3. ASSUME NEW f \in Frames, CallSensitive(f) PROVE Nesting'
  <2>1. PICK n : n = New
    OBVIOUS
  <2>2. frame[f].kind = "async"
    BY <1>3 DEF CallSensitive
  <2>3. Chosen(f) \in 0 .. MaxFrames + 1
    BY <1>0, <2>2, ChosenWell, FramesTyped, NumbersTyped DEF Single, None, Executors
  <2>4. /\ Kept /\ Grows /\ frame[f].state = "running"
        /\ frame'[n].parent = f /\ frame'[n].via = "s2a"
        /\ Refused(f) \/ Submitted(f)
    BY <1>0, <1>3, <2>1, <2>3, CallSensitiveDoes
  <2>5. Frames' = Frames \union {n}
    BY <2>1, <2>4 DEF Grows
  <2>6. /\ Steady({f}) /\ frame'[f].state \in {"running", "blocked"}
        /\ frame'[n].state \in {"queued"} \union Refusals
        /\ frame'[n].exec \in {None, Chosen(f)}
    BY <2>1, <2>4 DEF Refused, Submitted, Steady, Becomes, Refusals
  <2>7. \/ Uses({"fresh"})'
        \/ frame'[n].exec \notin {None, Single}' => frame'[n].exec \in Lineage'[n]
    <3> SUFFICES ASSUME ~ Uses({"fresh"})', frame'[n].exec \notin {None, Single}
                 PROVE  frame'[n].exec \in Lineage'[n]
      BY DEF None, Single
    <3>1. frame'[n].exec \in Lineage[f]
      <4>1. ~ Uses({"fresh"})
        BY <2>4, UsesKept
      <4> QED
        BY <2>2, <2>6, <4>1, ChosenAbove
    <3>2. Lineage'[n] = {n} \union Lineage'[f] /\ Lineage'[f] = Lineage[f]
      BY <2>4, <2>5, LineageStep DEF LineageDefined, By
    <3> QED
      BY <3>1, <3>2
  <2>8. PICK S \in SUBSET Frames : S = {f}
    OBVIOUS
  <2> QED
    BY <2>2, <2>4, <2>5, <2>6, <2>7, <2>8, NestingSteady
<1>4. ASSUME NEW f \in Frames, CallInsensitive(f) PROVE Nesting'
  <2>1. PICK n : n = New
    OBVIOUS
  <2>2. /\ Kept /\ Grows /\ Steady({f}) /\ frame[f].kind = "async"
        /\ frame'[n].exec = n /\ frame'[n].state = "queued" /\ frame'[f].state = "blocked"
    BY <1>0, <1>4, <2>1, CallInsensitiveDoes DEF Becomes
  <2>3. Frames' = Frames \union {n}
    BY <2>1, <2>2 DEF Grows
  <2>4. n \in Lineage'[n]
    BY <2>2, <2>3, LineageStep DEF LineageClosed
  <2>5. PICK S \in SUBSET Frames : S = {f}
    OBVIOUS
  <2> QED
    BY <2>2, <2>3, <2>4, <2>5, NestingSteady
<1>5. ASSUME NEW f \in Frames, NEW via \in {"task", "fresh"}, CreateTask(f, via)
      PROVE  Nesting'
  <2>1. PICK n : n = New
    OBVIOUS
  <2>2. /\ Kept /\ Grows /\ Steady({}) /\ frame'[n].kind = "async" /\ frame'[n].exec = None
    BY <1>0, <1>5, <2>1, CreateTaskDoes
  <2>3. Frames' = Frames \union {n}
    BY <2>1, <2>2 DEF Grows
  <2>4. PICK S \in SUBSET Frames : S = {}
    OBVIOUS
  <2> QED
    BY <2>2, <2>3, <2>4, NestingSteady DEF None
<1>6. ASSUME NEW f \in Frames, Join(f) PROVE Nesting'
  <2>1. /\ Kept /\ Stays /\ Steady({f}) /\ SameThread(f)
        /\ frame[f].state = "running" \/ frame[f].kind = "async"
        /\ frame'[f].state # "queued"
    BY <1>0, <1>6, JoinDoes DEF Becomes
  <2>2. PICK S \in SUBSET Frames : S = {f}
    OBVIOUS
  <2> QED
    BY <2>1, <2>2, NestingSteady DEF Stays
<1>7. ASSUME NEW f \in Frames, Joined(f) PROVE Nesting'
  <2>1. /\ Kept /\ Stays /\ Steady({f}) /\ SameThread(f)
        /\ frame[f].state = "joining" /\ frame'[f].state # "queued"
    BY <1>0, <1>7, JoinedDoes DEF Becomes
  <2>2. PICK S \in SUBSET Frames : S = {f}
    OBVIOUS
  <2>3. frame[f].kind = "async"
    <3>1. InState(f) /\ frame[f].kind \in {"sync", "async"}
      BY FramesTyped, PartsTyped DEF Structure, Stations
    <3> QED
      BY <2>1, <3>1 DEF InState, Refusals
  <2> QED
    BY <2>1, <2>2, <2>3, NestingSteady DEF Stays
<1>8. ASSUME NEW f \in Frames, RunLoop(f) PROVE Nesting'
  <2>1. PICK n : n = New
    OBVIOUS
  <2>2. /\ Kept /\ Grows /\ Steady({f}) /\ SameThread(f) /\ frame[f].state = "running"
        /\ frame'[n].kind = "async" /\ frame'[n].exec = None /\ frame'[f].state = "blocked"
    BY <1>0, <1>8, <2>1, RunLoopDoes DEF Becomes
  <2>3. PICK S \in SUBSET Frames : S = {f}
    OBVIOUS
  <2>4. Frames' = Frames \union {n}
    BY <2>1, <2>2 DEF Grows
  <2> QED
    BY <2>2, <2>3, <2>4, NestingSteady DEF None
<1>9. ASSUME NEW f \in Frames, Return(f) PROVE Nesting'
  <2>1. /\ Kept /\ Stays /\ Steady({f}) /\ SameThread(f)
        /\ frame[f].state = "running" \/ frame[f].kind = "async"
        /\ frame'[f].state # "queued"
    BY <1>0, <1>9, ReturnDoes DEF Becomes, Ending
  <2>2. PICK S \in SUBSET Frames : S = {f}
    OBVIOUS
  <2> QED
    BY <2>1, <2>2, NestingSteady DEF Stays
<1>10. ASSUME NEW f \in Frames, NEW g \in Frames, ReturnAsync(f, g) PROVE Nesting'
  <2>1. f # g /\ By(g) = f
    BY <1>10 DEF ReturnAsync, Structure, Tree, BornWell, By
  <2>2. /\ Kept /\ Stays /\ Steady({f, g}) /\ SameThread(f) /\ Live(g)
        /\ frame[g].via \notin {"outer", "task", "fresh"}
        /\ Becomes(g, "done", frame[g].cur, frame[g].dl) /\ frame'[f].state = "running"
    <3>1. Typed /\ f # g /\ ReturnAsync(f, g)
      BY <1>0, <1>10, <2>1
    <3> QED
      BY <3>1, ReturnAsyncDoes DEF Live, Refusals
  <2>3. frame[f].state = "blocked"
    BY <2>1, <2>2 DEF Structure, Tree, BornWell, Pending, Waits
  <2>4. PICK S \in SUBSET Frames : S = {f, g}
    OBVIOUS
  <2> QED
    BY <2>2, <2>3, <2>4, NestingSteady DEF Stays, Becomes
<1>11. ASSUME NEW f \in Frames, NEW g \in Frames, ReturnSync(f, g) PROVE Nesting'
  <2>1. f # g /\ By(g) = f
    BY <1>11 DEF ReturnSync, Structure, Tree, BornWell, By
  <2>2. /\ Kept /\ Stays /\ Steady({f, g}) /\ SameThread(f) /\ Live(g)
        /\ frame[g].via \notin {"outer", "task", "fresh"}
        /\ Becomes(g, "done", frame[g].cur, frame[g].dl) /\ frame'[f].state = "running"
    <3>1. Typed /\ f # g /\ ReturnSync(f, g)
      BY <1>0, <1>11, <2>1
    <3> QED
      BY <3>1, ReturnSyncDoes DEF Live, Refusals
  <2>3. frame[f].state = "blocked"
    BY <2>1, <2>2 DEF Structure, Tree, BornWell, Pending, Waits
  <2>4. PICK S \in SUBSET Frames : S = {f, g}
    OBVIOUS
  <2> QED
    BY <2>2, <2>3, <2>4, NestingSteady DEF Stays, Becomes
<1>12. ASSUME NEW f \in Frames, NEW g \in Frames, ReturnLoop(f, g) PROVE Nesting'
  <2>1. f # g /\ By(g) = f
    BY <1>12 DEF ReturnLoop, Structure, Tree, BornWell, By
  <2>2. /\ Kept /\ Stays /\ Steady({f, g}) /\ SameThread(f) /\ Live(g)
        /\ frame[g].via \notin {"outer", "task", "fresh"}
        /\ Becomes(g, "done", frame[g].cur, frame[g].dl) /\ frame'[f].state = "running"
    <3>1. Typed /\ f # g /\ ReturnLoop(f, g)
      BY <1>0, <1>12, <2>1
    <3> QED
      BY <3>1, ReturnLoopDoes DEF Live, Refusals
  <2>3. frame[f].state = "blocked"
    BY <2>1, <2>2 DEF Structure, Tree, BornWell, Pending, Waits
  <2>4. PICK S \in SUBSET Frames : S = {f, g}
    OBVIOUS
  <2> QED
    BY <2>2, <2>3, <2>4, NestingSteady DEF Stays, Becomes
<1>13. ASSUME NEW t \in Threads, NEW f \in Frames, StartSync(t, f) PROVE Nesting'
  BY <1>13, NestingStartSync
<1>14. CASE UNCHANGED vars
  <2>1. Frames' = Frames /\ Kept /\ Steady({})
    BY <1>14 DEF vars, Kept, Steady, Frames
  <2>2. PICK S \in SUBSET Frames : S = {}
    OBVIOUS
  <2> QED
    BY <2>1, <2>2, NestingSteady
<1>15. Ended => UNCHANGED vars
  BY DEF Ended
<1> QED
  BY <1>1, <1>2, <1>3, <1>4, <1>5, <1>6, <1>7, <1>8, <1>9, <1>10, <1>11, <1>12, <1>13,
     <1>14, <1>15 DEF Next

LEMMA NestingInitial == Init => Nesting
  BY FirstFrame DEF Nesting, ExecAbove, ThreadsOwned, Nested, OnThread

\* Sync code that runs in a thread above other unfinished sync code was called,
\* through whatever loops, threads and tasks, by that code: run_until_future
\* pumps the executor of its own call, and only the innermost one pumps.
THEOREM CallsNest == Spec => []CallNesting
<1>1. Structure /\ Structure' /\ Contexts /\ Nesting /\ [Next]_vars => Nesting'
  BY NestingNext
<1>2. Nesting => CallNesting
  BY DEF Nesting, Nested, CallNesting, Ancestors, By
<1> QED
  BY <1>1, <1>2, NestingInitial, StructureInvariant, ContextsInvariant, PTL DEF Spec

-----------------------------------------------------------------------------
(* A loop is open while it has coroutines.                                  *)

LoopsOpen ==
    \A x \in Frames : frame[x].kind = "async" /\ Live(x) /\ frame[x].loop # x
        => LoopOpen(frame[x].loop)

\* A loop that closes has no coroutine left but its root.
LEMMA LoopsOpenKept ==
    ASSUME Structure, LoopsOpen, Kept, NEW S \in SUBSET Frames, Steady(S),
           \A f \in S :
              /\ Live(f)' => Live(f)
              /\ \/ LoopOpen(f) => LoopOpen(f)'
                 \/ \A x \in Frames \ {f} : frame[x].loop = f => ~ Live(x),
           \A n \in Frames' \ Frames : frame'[n].kind = "async" =>
              \/ frame'[n].loop = n
              \/ \E l \in Frames : frame'[n].loop = l /\ LoopOpen(l)'
    PROVE  LoopsOpen'
<1>1. ASSUME NEW x \in Frames, frame[x].kind = "async", Live(x)', frame[x].loop # x
      PROVE  LoopOpen(frame[x].loop)'
  <2>1. Live(x)
    BY <1>1, LiveKept
  <2>2. PICK l : l = frame[x].loop
    OBVIOUS
  <2>3. l \in Frames /\ LoopOpen(l)
    BY <1>1, <2>1, <2>2, FramesTyped DEF LoopsOpen, Structure, Tree, BornWell
  <2>4. LoopOpen(l)'
    BY <1>1, <2>1, <2>2, <2>3 DEF Steady, LoopOpen
  <2> QED
    BY <2>2, <2>4 DEF LoopOpen, Kept
<1>2. ASSUME NEW n \in Frames' \ Frames, frame'[n].kind = "async", frame'[n].loop # n
      PROVE  frame'[frame'[n].loop].state \notin {"returned", "done"}
  BY <1>2 DEF LoopOpen
<1> QED
  BY <1>1, <1>2 DEF LoopsOpen, LoopOpen, Kept

LEMMA LoopsOpenNext ==
    ASSUME Structure, LoopsOpen, [Next]_vars
    PROVE  LoopsOpen'
<1>0. Typed
  BY DEF Structure
<1>1. ASSUME NEW f \in Frames, NEW via \in {"a2s", "force"}, CallAsync(f, via)
      PROVE  LoopsOpen'
  <2>1. PICK n : n = New
    OBVIOUS
  <2>2. PICK l : l = MainLoop(f, via)
    OBVIOUS
  <2>3. /\ Kept /\ Grows /\ Steady({f}) /\ Live(f) /\ frame'[f].state = "blocked"
        /\ frame'[n].loop = IF l = None THEN n ELSE l
        /\ frame[f].state = "running"
    BY <1>0, <1>1, <2>1, <2>2, CallAsyncDoes DEF Becomes, Live, Refusals
  <2>4. Frames' = Frames \union {n}
    BY <2>1, <2>3 DEF Grows
  <2>5. l # None => l \in Frames /\ LoopOpen(l)
    <3>1. frame[f].thread \in Threads
      BY <1>0, FramesTyped, PartsTyped
    <3> QED
      BY <2>2, <3>1 DEF MainLoop, Structure, Remembered
  <2>6. l # None => LoopOpen(l)'
    BY <2>3, <2>5 DEF Steady, LoopOpen
  <2>7. PICK S \in SUBSET Frames : S = {f}
    OBVIOUS
  <2> QED
    BY <2>3, <2>4, <2>5, <2>6, <2>7, LoopsOpenKept DEF LoopOpen
<1>2. ASSUME NEW f \in Frames, StartLoop(f) PROVE LoopsOpen'
  <2>1. /\ Kept /\ Stays /\ Steady({f}) /\ Live(f)
        /\ frame'[f].state \in {"running", "blocked", "joining"}
    BY <1>0, <1>2, StartLoopDoes DEF Becomes, Live, Refusals
  <2>2. PICK S \in SUBSET Frames : S = {f}
    OBVIOUS
  <2> QED
    BY <2>1, <2>2, LoopsOpenKept DEF Stays, LoopOpen
<1>3. ASSUME NEW f \in Frames, CallSensitive(f) PROVE LoopsOpen'
  <2>1. PICK n : n = New
    OBVIOUS
  <2>2. frame[f].kind = "async"
    BY <1>3 DEF CallSensitive
  <2>3. Chosen(f) \in 0 .. MaxFrames + 1
    BY <1>0, <2>2, ChosenWell, FramesTyped, NumbersTyped DEF Single, None, Executors
  <2>4. /\ Kept /\ Grows /\ frame[f].state = "running" /\ frame'[n].kind = "sync"
        /\ Refused(f) \/ Submitted(f)
    BY <1>0, <1>3, <2>1, <2>3, CallSensitiveDoes
  <2>5. Frames' = Frames \union {n}
    BY <2>1, <2>4 DEF Grows
  <2>6. Steady({f}) /\ Live(f) /\ LoopOpen(f)'
    BY <2>4 DEF Refused, Submitted, Steady, Becomes, Live, Refusals, LoopOpen
  <2>7. PICK S \in SUBSET Frames : S = {f}
    OBVIOUS
  <2> QED
    BY <2>4, <2>5, <2>6, <2>7, LoopsOpenKept
<1>4. ASSUME NEW f \in Frames, CallInsensitive(f) PROVE LoopsOpen'
  <2>1. PICK n : n = New
    OBVIOUS
  <2>2. /\ Kept /\ Grows /\ Steady({f}) /\ frame[f].state = "running"
        /\ frame'[f].state = "blocked" /\ frame'[n].kind = "sync"
    BY <1>0, <1>4, <2>1, CallInsensitiveDoes DEF Becomes
  <2>3. Frames' = Frames \union {n} /\ Live(f) /\ LoopOpen(f)'
    BY <2>1, <2>2 DEF Grows, Live, Refusals, LoopOpen
  <2>4. PICK S \in SUBSET Frames : S = {f}
    OBVIOUS
  <2> QED
    BY <2>2, <2>3, <2>4, LoopsOpenKept
<1>5. ASSUME NEW f \in Frames, NEW via \in {"task", "fresh"}, CreateTask(f, via)
      PROVE  LoopsOpen'
  <2>1. PICK n : n = New
    OBVIOUS
  <2>2. PICK l : l = frame[f].loop
    OBVIOUS
  <2>3. /\ Kept /\ Grows /\ Steady({}) /\ frame[f].state = "running" /\ frame[f].kind = "async"
        /\ frame'[n].loop = l
    BY <1>0, <1>5, <2>1, <2>2, CreateTaskDoes
  <2>4. Frames' = Frames \union {n}
    BY <2>1, <2>3 DEF Grows
  <2>5. l \in Frames /\ LoopOpen(l)
    <3>1. l \in Frames
      BY <1>0, <2>2, <2>3, FramesTyped DEF Structure, Tree, BornWell
    <3>2. l = f \/ LoopOpen(l)
      BY <2>2, <2>3 DEF LoopsOpen, Live, Refusals
    <3> QED
      BY <2>3, <3>1, <3>2 DEF LoopOpen
  <2>6. LoopOpen(l)'
    BY <2>3, <2>5 DEF Steady, LoopOpen
  <2>7. PICK S \in SUBSET Frames : S = {}
    OBVIOUS
  <2> QED
    BY <2>3, <2>4, <2>5, <2>6, <2>7, LoopsOpenKept
<1>6. ASSUME NEW f \in Frames, Join(f) PROVE LoopsOpen'
  <2>1. /\ Kept /\ Stays /\ Steady({f}) /\ Live(f)
        /\ frame'[f].state \in {"running", "blocked", "joining"}
    BY <1>0, <1>6, JoinDoes DEF Becomes, Live, Refusals
  <2>2. PICK S \in SUBSET Frames : S = {f}
    OBVIOUS
  <2> QED
    BY <2>1, <2>2, LoopsOpenKept DEF Stays, LoopOpen
<1>7. ASSUME NEW f \in Frames, Joined(f) PROVE LoopsOpen'
  <2>1. /\ Kept /\ Stays /\ Steady({f}) /\ Live(f)
        /\ frame'[f].state \in {"running", "blocked", "joining"}
    BY <1>0, <1>7, JoinedDoes DEF Becomes, Live, Refusals
  <2>2. PICK S \in SUBSET Frames : S = {f}
    OBVIOUS
  <2> QED
    BY <2>1, <2>2, LoopsOpenKept DEF Stays, LoopOpen
<1>8. ASSUME NEW f \in Frames, RunLoop(f) PROVE LoopsOpen'
  <2>1. PICK n : n = New
    OBVIOUS
  <2>2. /\ Kept /\ Grows /\ Steady({f}) /\ frame[f].state = "running"
        /\ frame'[f].state = "blocked" /\ frame'[n].loop = n
    BY <1>0, <1>8, <2>1, RunLoopDoes DEF Becomes
  <2>3. Frames' = Frames \union {n} /\ Live(f) /\ LoopOpen(f)'
    BY <2>1, <2>2 DEF Grows, Live, Refusals, LoopOpen
  <2>4. PICK S \in SUBSET Frames : S = {f}
    OBVIOUS
  <2> QED
    BY <2>2, <2>3, <2>4, LoopsOpenKept
<1>9. ASSUME NEW f \in Frames, Return(f) PROVE LoopsOpen'
  <2>1. Kept /\ Stays /\ Steady({f}) /\ Live(f)
    BY <1>0, <1>9, ReturnDoes DEF Live, Refusals
  <2>2. \A x \in Frames \ {f} : frame[x].loop = f => ~ Live(x)
    <3>1. ASSUME NEW x \in Frames, frame[x].loop = f PROVE frame[f].loop = f
      <4>1. BornWell(x) /\ frame[x].kind \in {"sync", "async"} /\ f # None
        BY <1>0, FramesTyped, PartsTyped DEF Structure, Tree, None
      <4> QED
        BY <3>1, <4>1 DEF BornWell
    <3> QED
      BY <1>9, <3>1 DEF Return
  <2>3. PICK S \in SUBSET Frames : S = {f}
    OBVIOUS
  <2> QED
    BY <2>1, <2>2, <2>3, LoopsOpenKept DEF Stays
<1>10. ASSUME NEW f \in Frames, NEW g \in Frames, ReturnAsync(f, g) PROVE LoopsOpen'
  <2>1. f # g /\ By(g) = f
    BY <1>10 DEF ReturnAsync, Structure, Tree, BornWell, By
  <2>2. /\ Kept /\ Stays /\ Steady({f, g}) /\ frame[g].state = "returned"
        /\ frame[g].via \notin {"outer", "task", "fresh"}
        /\ Becomes(g, "done", frame[g].cur, frame[g].dl) /\ frame'[f].state = "running"
    <3>1. Typed /\ f # g /\ ReturnAsync(f, g)
      BY <1>0, <1>10, <2>1
    <3> QED
      BY <3>1, ReturnAsyncDoes
  <2>3. frame[f].state = "blocked" /\ Live(f) /\ ~ Live(g)' /\ LoopOpen(f)' /\ ~ LoopOpen(g)
    BY <2>1, <2>2 DEF Structure, Tree, BornWell, Pending, Waits, Live, Refusals, Becomes, LoopOpen
  <2>4. PICK S \in SUBSET Frames : S = {f, g}
    OBVIOUS
  <2> QED
    BY <2>2, <2>3, <2>4, LoopsOpenKept DEF Stays
<1>11. ASSUME NEW f \in Frames, NEW g \in Frames, ReturnSync(f, g) PROVE LoopsOpen'
  <2>1. f # g /\ By(g) = f
    BY <1>11 DEF ReturnSync, Structure, Tree, BornWell, By
  <2>2. /\ Kept /\ Stays /\ Steady({f, g}) /\ frame[g].state = "returned"
        /\ frame[g].via \notin {"outer", "task", "fresh"}
        /\ Becomes(g, "done", frame[g].cur, frame[g].dl) /\ frame'[f].state = "running"
    <3>1. Typed /\ f # g /\ ReturnSync(f, g)
      BY <1>0, <1>11, <2>1
    <3> QED
      BY <3>1, ReturnSyncDoes
  <2>3. frame[f].state = "blocked" /\ Live(f) /\ ~ Live(g)' /\ LoopOpen(f)' /\ ~ LoopOpen(g)
    BY <2>1, <2>2 DEF Structure, Tree, BornWell, Pending, Waits, Live, Refusals, Becomes, LoopOpen
  <2>4. PICK S \in SUBSET Frames : S = {f, g}
    OBVIOUS
  <2> QED
    BY <2>2, <2>3, <2>4, LoopsOpenKept DEF Stays
<1>12. ASSUME NEW f \in Frames, NEW g \in Frames, ReturnLoop(f, g) PROVE LoopsOpen'
  <2>1. f # g /\ By(g) = f
    BY <1>12 DEF ReturnLoop, Structure, Tree, BornWell, By
  <2>2. /\ Kept /\ Stays /\ Steady({f, g}) /\ frame[g].state = "returned"
        /\ frame[g].via \notin {"outer", "task", "fresh"}
        /\ Becomes(g, "done", frame[g].cur, frame[g].dl) /\ frame'[f].state = "running"
    <3>1. Typed /\ f # g /\ ReturnLoop(f, g)
      BY <1>0, <1>12, <2>1
    <3> QED
      BY <3>1, ReturnLoopDoes
  <2>3. frame[f].state = "blocked" /\ Live(f) /\ ~ Live(g)' /\ LoopOpen(f)' /\ ~ LoopOpen(g)
    BY <2>1, <2>2 DEF Structure, Tree, BornWell, Pending, Waits, Live, Refusals, Becomes, LoopOpen
  <2>4. PICK S \in SUBSET Frames : S = {f, g}
    OBVIOUS
  <2> QED
    BY <2>2, <2>3, <2>4, LoopsOpenKept DEF Stays
<1>13. ASSUME NEW t \in Threads, NEW f \in Frames, StartSync(t, f) PROVE LoopsOpen'
  <2>1. frame[f].state = "queued" /\ frame[f].parent \in Frames
    BY <1>13 DEF StartSync, Structure, Stations, InState, Tree, BornWell, By
  <2>2. Kept /\ Stays /\ Steady({f}) /\ frame'[f].state = "running"
    <3>1. Typed /\ StartSync(t, f) /\ frame[f].parent \in Frames
      BY <1>0, <1>13, <2>1
    <3> QED
      BY <3>1, StartSyncDoes DEF Becomes
  <2>3. PICK S \in SUBSET Frames : S = {f}
    OBVIOUS
  <2> QED
    BY <2>1, <2>2, <2>3, LoopsOpenKept DEF Stays, Live, Refusals, LoopOpen
<1>14. CASE UNCHANGED vars
  BY <1>14 DEF vars, LoopsOpen, Frames, Live, LoopOpen
<1>15. Ended => UNCHANGED vars
  BY DEF Ended
<1> QED
  BY <1>1, <1>2, <1>3, <1>4, <1>5, <1>6, <1>7, <1>8, <1>9, <1>10, <1>11, <1>12, <1>13,
     <1>14, <1>15 DEF Next

\* A loop is open as long as the call that runs it or a coroutine of it lives:
\* AsyncToSync.__call__ leaves new_loop_wrap only when its coroutine is done.
LEMMA LoopsOpenInvariant == Spec => []LoopsOpen
<1>1. Init => LoopsOpen
  BY FirstFrame DEF LoopsOpen
<1>2. Structure /\ LoopsOpen /\ [Next]_vars => LoopsOpen'
  BY LoopsOpenNext
<1> QED
  BY <1>1, <1>2, StructureInvariant, PTL DEF Spec

-----------------------------------------------------------------------------
(* The outermost executor of a sync program outlives the others.            *)

SyncProgram == frame[1].kind = "sync" /\ ~ Uses({"run", "fresh"})

\* c is the coroutine the outermost function waits for, with a loop of its own.
\* What lives was called since, in contexts whose executor is c's or above it;
\* and c does not end before it.
UnderAt(c) ==
    /\ c \in Executors /\ frame[c].loop = c
    /\ \A x \in Frames \ {1} : Live(x) => x >= c /\ frame[x].cur >= c
    /\ frame[c].state = "returned" => \A x \in Frames \ {1, c} : ~ Live(x)
    /\ \A e \in Executors : e > c => frame[e].old >= c

\* The outermost function waits for c.
Outermost(c) == Pending(c) /\ By(c) = 1

Sheltered ==
    SyncProgram =>
       /\ \A c \in Frames : Outermost(c) => UnderAt(c)
       /\ frame[1].state # "blocked" => \A x \in Frames \ {1} : ~ Live(x)
       /\ \A x \in Frames : frame[x].state # "quit"

\* What a step that does not concern the outermost function has to keep.
LEMMA ShelteredKept ==
    ASSUME Structure, Structure', Sheltered, Kept, frame'[1].state = frame[1].state,
           \A x \in Frames : /\ Live(x)' => Live(x)
                             /\ frame'[x].state = "quit" => frame[x].state = "quit",
           \A c \in Frames : SyncProgram /\ Outermost(c) /\ UnderAt(c) =>
              /\ \A x \in Frames \ {1} : Live(x)' => frame'[x].cur >= c
              /\ frame'[c].state = "returned" =>
                    /\ \A x \in Frames \ {1, c} : ~ Live(x)
                    /\ Frames' = Frames
              /\ \A n \in Frames' \ Frames :
                    n >= c /\ frame'[n].cur >= c /\ (n \in Executors' => frame'[n].old >= c),
           \A n \in Frames' \ Frames :
              SyncProgram' => /\ frame[1].state = "blocked" /\ By(n)' # 1
                              /\ frame'[n].state # "quit"
    PROVE  Sheltered'
<1> SUFFICES ASSUME SyncProgram'
             PROVE  /\ \A c \in Frames' : Outermost(c)' => UnderAt(c)'
                    /\ frame'[1].state # "blocked" => \A x \in Frames' \ {1} : ~ Live(x)'
                    /\ \A x \in Frames' : frame'[x].state # "quit"
  BY DEF Sheltered
<1>1. SyncProgram /\ 1 \in Frames
  BY UsesKept, FramesTyped DEF SyncProgram, Kept, Structure
<1>2. \A c \in Frames : Outermost(c)' => Outermost(c)
  BY DEF Outermost, Pending, By, Kept
<1>3. ASSUME NEW c \in Frames', Outermost(c)' PROVE UnderAt(c)'
  <2>1. c \in Frames /\ Outermost(c) /\ UnderAt(c)
    BY <1>1, <1>2, <1>3 DEF Outermost, Sheltered
  <2>2. c \in Executors' /\ frame'[c].loop = c
    BY <2>1 DEF UnderAt, Executors, Kept
  <2>3. \A x \in Frames' \ {1} : Live(x)' => x >= c /\ frame'[x].cur >= c
    BY <1>1, <2>1 DEF UnderAt
  <2>4. frame'[c].state = "returned" => \A x \in Frames' \ {1, c} : ~ Live(x)'
    BY <1>1, <2>1
  <2>5. \A e \in Executors' : e > c => frame'[e].old >= c
    BY <1>1, <2>1 DEF UnderAt, Executors, Kept
  <2> QED
    BY <2>2, <2>3, <2>4, <2>5 DEF UnderAt
<1>4. frame'[1].state # "blocked" => \A x \in Frames' \ {1} : ~ Live(x)'
  BY <1>1 DEF Sheltered
<1>5. \A x \in Frames' : frame'[x].state # "quit"
  BY <1>1 DEF Sheltered
<1> QED
  BY <1>3, <1>4, <1>5

\* Whoever lives is under the outermost call, and it has not returned.
LEMMA Sheltering ==
    ASSUME Structure, Sheltered, SyncProgram, NEW f \in Frames \ {1}, Live(f)
    PROVE  /\ frame[1].state = "blocked"
           /\ \A c \in Frames : Outermost(c) =>
                 /\ UnderAt(c) /\ f >= c /\ frame[f].cur >= c
                 /\ f # c => frame[c].state # "returned"
                 /\ Live(c) /\ c \in Frames \ {1} /\ c \in Nat \ {0}
<1>1. Frames = 1 .. Len(frame) /\ Len(frame) \in Nat
  BY FramesTyped DEF Structure
<1> QED
  BY <1>1 DEF Sheltered, UnderAt, Outermost, Pending

\* One frame turns, other than the outermost and not to its return.
LEMMA ShelteredTurned ==
    ASSUME Structure, Structure', Sheltered, Kept, Stays, NEW f \in Frames \ {1}, Steady({f}),
           frame'[f].cur = frame[f].cur, Live(f), frame'[f].state # "quit",
           frame'[f].state # "returned" \/ ~ Outermost(f)
    PROVE  Sheltered'
<1>1. 1 \in Frames
  BY FramesTyped DEF Structure
<1>2. \A x \in Frames : /\ Live(x)' => Live(x)
                        /\ frame'[x].state = "quit" => frame[x].state = "quit"
                        /\ frame'[x].cur = frame[x].cur
  BY LiveKept DEF Steady
<1>3. ASSUME NEW c \in Frames, SyncProgram, Outermost(c), UnderAt(c)
      PROVE  /\ \A x \in Frames \ {1} : Live(x)' => frame'[x].cur >= c
             /\ frame'[c].state = "returned" => \A x \in Frames \ {1, c} : ~ Live(x)
  <2>1. frame'[c].state = "returned" => frame[c].state = "returned"
    BY <1>3 DEF Steady
  <2> QED
    BY <1>2, <1>3, <2>1 DEF UnderAt
<1>4. frame'[1].state = frame[1].state
  BY <1>1 DEF Steady
<1> QED
  BY <1>2, <1>3, <1>4, ShelteredKept DEF Stays

\* A call, or a task, from a frame under the outermost call.
LEMMA ShelteredBorn ==
    ASSUME Structure, Structure', Sheltered, Kept, NEW f \in Frames \ {1}, NEW n,
           Frames' = Frames \union {n}, n \notin Frames, n \in Nat, Steady({f}),
           frame[f].state = "running", frame'[f].state \in {"running", "blocked"},
           frame'[f].cur \in {frame[f].cur, n}, frame'[n].parent = f,
           frame'[n].via # "fresh" => frame'[n].cur \in {frame[f].cur, n},
           frame'[n].via \in {"a2s", "force"} => frame'[n].old = frame[f].cur,
           SyncProgram => frame'[n].state # "quit"
    PROVE  Sheltered'
<1>1. 1 \in Frames /\ Live(f) /\ Frames = 1 .. Len(frame) /\ Len(frame) \in Nat
  BY FramesTyped DEF Structure, Live, Refusals
<1>2. \A x \in Frames : /\ Live(x)' => Live(x)
                        /\ frame'[x].state = "quit" => frame[x].state = "quit"
  BY <1>1, LiveKept DEF Steady
<1>3. ASSUME NEW c \in Frames, SyncProgram, Outermost(c), UnderAt(c)
      PROVE  /\ \A x \in Frames \ {1} : Live(x)' => frame'[x].cur >= c
             /\ frame'[c].state # "returned"
             /\ n >= c
             /\ frame'[n].via # "fresh" => frame'[n].cur >= c
             /\ n \in Executors' => frame'[n].old >= c
  <2>1. /\ f >= c /\ frame[f].cur >= c /\ (f # c => frame[c].state # "returned")
    BY <1>1, <1>3, Sheltering
  <2>2. n >= c
    <3>1. f < n
      <4>1. BornWell(n)' /\ frame'[n].parent = f
        BY DEF Structure, Tree
      <4> QED
        BY <1>1, <4>1 DEF BornWell, By
    <3> QED
      BY <1>1, <2>1, <3>1
  <2>3. \A x \in Frames \ {1} : Live(x)' => frame'[x].cur >= c
    BY <1>2, <1>3, <2>1, <2>2 DEF UnderAt, Steady
  <2>4. frame'[c].state # "returned"
    BY <2>1 DEF Steady
  <2>5. frame'[n].via # "fresh" => frame'[n].cur >= c
    BY <2>1, <2>2
  <2>6. n \in Executors' => frame'[n].old >= c
    BY <2>1 DEF Executors
  <2> QED
    BY <2>2, <2>3, <2>4, <2>5, <2>6
<1> SUFFICES ASSUME SyncProgram' PROVE Sheltered'
  BY DEF Sheltered
<1>4. SyncProgram /\ frame'[n].via # "fresh"
  BY <1>1, UsesKept DEF SyncProgram, Uses, Kept
<1>5. frame[1].state = "blocked"
  BY <1>1, <1>4, Sheltering
<1>6. frame'[1].state = frame[1].state /\ By(n)' # 1
  BY <1>1 DEF Steady, By
<1> QED
  BY <1>2, <1>3, <1>4, <1>5, <1>6, ShelteredKept

\* The outermost function calls: no loop is open, and no one else lives.
LEMMA ShelteredCallOutermost ==
    ASSUME Structure, Structure', Sheltered, SyncProgram, NEW via \in {"a2s", "force"},
           CallAsync(1, via)
    PROVE  Sheltered'
<1>1. PICK n : n = New
  OBVIOUS
<1>2. PICK l : l = MainLoop(1, via)
  OBVIOUS
<1>3. 1 \in Frames /\ Frames = 1 .. Len(frame) /\ Len(frame) \in Nat /\ n = Len(frame) + 1
  BY <1>1, FramesTyped DEF Structure, New
<1>4. /\ Kept /\ Grows /\ Steady({1}) /\ frame[1].state = "running"
      /\ frame'[1].state = "blocked"
      /\ frame'[n].via = via /\ frame'[n].parent = 1 /\ frame'[n].cur = n
      /\ frame'[n].loop = (IF l = None THEN n ELSE l)
      /\ frame'[n].state \in {"running", "waiting"}
  <2>1. PICK f \in Frames : f = 1
    BY <1>3
  <2>2. Typed /\ CallAsync(f, via)
    BY <2>1 DEF Structure
  <2>3. /\ Kept /\ Grows /\ Steady({f}) /\ frame[f].state = "running"
        /\ Becomes(f, "blocked", New, frame[f].dl)
        /\ frame'[New].via = via /\ frame'[New].parent = f /\ frame'[New].cur = New
        /\ frame'[New].loop = (IF MainLoop(f, via) = None THEN New ELSE MainLoop(f, via))
        /\ frame'[New].state \in {"running", "waiting"}
    BY <2>2, CallAsyncDoes
  <2> QED
    BY <1>1, <1>2, <2>1, <2>3 DEF Becomes
<1>5. Frames' = Frames \union {n}
  BY <1>1, <1>4 DEF Grows
<1>6. \A x \in Frames \ {1} : ~ Live(x)
  BY <1>4 DEF Sheltered
<1>7. l = None
  <2> SUFFICES ASSUME l # None PROVE FALSE
    OBVIOUS
  <2>1. frame[1].thread \in Threads
    BY <1>3, FramesTyped, PartsTyped DEF Structure
  <2>2. l \in Frames /\ LoopOpen(l) /\ frame[l].kind = "async"
    BY <1>2, <2>1 DEF MainLoop, Structure, Remembered
  <2>3. l # 1 /\ ~ Live(l)
    BY <1>6, <2>2 DEF SyncProgram
  <2> QED
    BY <2>2, <2>3 DEF Live, LoopOpen, Structure, Stations, InState, Refusals
<1>8. \A x \in Frames \ {1} : ~ Live(x)'
  BY <1>4, <1>6, LiveKept
<1>9. UnderAt(n)'
  <2>1. n \in Executors' /\ frame'[n].loop = n
    BY <1>4, <1>5, <1>7 DEF Executors
  <2>2. \A x \in Frames' \ {1} : Live(x)' => x >= n /\ frame'[x].cur >= n
    BY <1>3, <1>4, <1>5, <1>8
  <2>3. frame'[n].state # "returned" /\ \A e \in Executors' : ~ e > n
    BY <1>3, <1>4, <1>5 DEF Executors
  <2> QED
    BY <2>1, <2>2, <2>3 DEF UnderAt
<1>10. ASSUME NEW c \in Frames', Outermost(c)' PROVE c = n
  BY <1>3, <1>5, <1>8, <1>10 DEF Outermost, Pending
<1>11. \A x \in Frames' : frame'[x].state # "quit"
  <2>1. \A x \in Frames : frame'[x].state = "quit" => frame[x].state = "quit"
    BY <1>4 DEF Steady
  <2> QED
    BY <1>4, <1>5, <2>1 DEF Sheltered
<1> QED
  BY <1>4, <1>9, <1>10, <1>11 DEF Sheltered

\* No one but the outermost function lives when the call returns to it.
LEMMA ShelteredIdle ==
    ASSUME Structure', Sheltered, SyncProgram, Kept, Stays,
           \A x \in Frames \ {1} : ~ Live(x)',
           \A x \in Frames : frame'[x].state = "quit" => frame[x].state = "quit"
    PROVE  Sheltered'
<1>1. \A x \in Frames' \ {1} : ~ Live(x)'
  BY DEF Stays
<1>2. \A c \in Frames' : ~ Outermost(c)'
  BY <1>1 DEF Outermost, Pending
<1> QED
  BY <1>1, <1>2 DEF Sheltered, Stays

\* A call returns to another frame than the outermost.
LEMMA ShelteredReturned ==
    ASSUME Structure, Structure', Sheltered, SyncProgram, Kept, Stays, NEW f \in Frames \ {1},
           NEW g \in Frames,
           f # g, By(g) = f, Steady({f, g}), frame[g].state = "returned",
           frame[g].via \notin {"outer", "task", "fresh"},
           Becomes(g, "done", frame[g].cur, frame[g].dl), frame'[f].state = "running",
           \A c \in Frames : Outermost(c) /\ UnderAt(c) => frame'[f].cur >= c
    PROVE  Sheltered'
<1>1. 1 \in Frames /\ g # 1 /\ frame[f].state = "blocked" /\ Live(f) /\ Live(g) /\ By(1) # f
  <2>1. 1 \in Frames /\ By(1) = None /\ f # None
    BY FramesTyped DEF Structure, Tree, BornWell, None
  <2>2. Pending(g) /\ g # 1
    BY <2>1 DEF Structure, Tree, BornWell, Pending, Live, Refusals
  <2> QED
    BY <2>1, <2>2 DEF Structure, Waits, Pending, Live, Refusals
<1>2. \A x \in Frames : /\ Live(x)' => Live(x)
                        /\ frame'[x].state = "quit" => frame[x].state = "quit"
                        /\ x # f => frame'[x].cur = frame[x].cur
  BY <1>1, LiveKept DEF Steady, Becomes
<1>3. ASSUME NEW c \in Frames, Outermost(c), UnderAt(c)
      PROVE  /\ \A x \in Frames \ {1} : Live(x)' => frame'[x].cur >= c
             /\ frame'[c].state = "returned" => \A x \in Frames \ {1, c} : ~ Live(x)
  <2>1. frame'[c].state = "returned" => frame[c].state = "returned"
    BY <1>3 DEF Steady, Becomes
  <2> QED
    BY <1>2, <1>3, <2>1 DEF UnderAt
<1>4. frame'[1].state = frame[1].state
  BY <1>1 DEF Steady
<1> QED
  BY <1>2, <1>3, <1>4, ShelteredKept DEF Stays

\* The outermost coroutine ends after all that its call has led to.
LEMMA ShelteredReturn ==
    ASSUME Structure, LoopsOpen, Sheltered, SyncProgram, NEW c \in Frames, Outermost(c),
           frame[c].state = "running",
           \A g \in Frames \ {c} : frame[g].loop = c => ~ Live(g)
    PROVE  \A x \in Frames \ {1, c} : ~ Live(x)
<1> DEFINE Left == {x \in Frames \ {1, c} : Live(x)}
<1> SUFFICES ASSUME Left # {} PROVE FALSE
  OBVIOUS
<1>1. Frames = 1 .. Len(frame) /\ Len(frame) \in Nat /\ \A x \in Frames : frame[x].via \in Vias
  BY FramesTyped, PartsTyped DEF Structure
<1>2. PICK x \in Left : \A y \in Left : x <= y
  <2>1. Left \in SUBSET Nat
    BY <1>1
  <2> QED
    BY <2>1, LeastNumber
<1>3. x \in Frames /\ x # 1 /\ x # c /\ Live(x) /\ \A y \in 1 .. x - 1 : Live(y) => y \in {1, c}
  BY <1>1, <1>2
<1>4. BornWell(x) /\ By(x) \in 1 .. x - 1 /\ frame[x].kind \in {"sync", "async"}
  BY <1>1, <1>3, FramesTyped, PartsTyped DEF Structure, Tree, BornWell
<1>5. UnderAt(c) /\ frame[c].kind = "async" /\ frame[c].loop = c /\ frame[1].kind = "sync"
  BY DEF Sheltered, SyncProgram, UnderAt, Executors, Structure, Tree, BornWell
<1>6. frame[x].via \notin {"outer", "fresh", "run"}
  BY <1>3, <1>4 DEF SyncProgram, Uses, BornWell
<1>7. ASSUME Pending(x) PROVE frame[x].via \in {"a2s", "force"} /\ By(x) = 1
  <2>1. frame[By(x)].state = "blocked" /\ By(x) \in Frames
    BY <1>1, <1>3, <1>4, <1>7 DEF Structure, Waits
  <2>2. By(x) = 1
    BY <1>3, <1>4, <2>1 DEF Live, Refusals
  <2>3. frame[x].via \notin {"s2a", "pool"}
    BY <1>4, <1>5, <2>2 DEF BornWell
  <2> QED
    BY <1>1, <1>3, <1>6, <1>7, <2>2, <2>3 DEF Pending, Vias
<1>8. ~ Pending(x)
  BY <1>3, <1>7 DEF Structure, Waits, Outermost
<1>9. frame[x].kind = "async" /\ frame[x].via = "task"
  BY <1>1, <1>3, <1>4, <1>6, <1>8 DEF Pending, BornWell
<1>10. PICK l : l = frame[x].loop
  OBVIOUS
<1>11. l \in 1 .. x - 1 /\ frame[l].kind = "async" /\ LoopOpen(l)
  BY <1>1, <1>3, <1>4, <1>9, <1>10 DEF BornWell, LoopsOpen
<1>12. Live(l) /\ l # 1 /\ l \in Frames
  BY <1>1, <1>5, <1>11 DEF LoopOpen, Live, Refusals, Structure, Stations, InState
<1>13. l = c
  BY <1>3, <1>11, <1>12
<1> QED
  BY <1>3, <1>10, <1>13

\* A call under the outermost executor finds one that runs.
LEMMA Accepted ==
    ASSUME Structure, Sheltered, SyncProgram, NEW f \in Frames \ {1},
           frame[f].state = "running", frame[f].kind = "async", ~ OwnThread(f)
    PROVE  Chosen(f) # None
<1>0. Live(f)
  BY DEF Live, Refusals
<1>1. frame[1].state = "blocked" /\ 1 \in Frames
  BY <1>0, Sheltering, FramesTyped DEF Structure
<1>2. PICK c \in Frames : Outermost(c)
  BY <1>1 DEF Structure, Waits, Outermost
<1>3. /\ UnderAt(c) /\ f >= c /\ frame[f].cur >= c /\ c \in Nat \ {0} /\ Live(c)
      /\ f # c => frame[c].state # "returned"
  BY <1>0, <1>2, Sheltering
<1>4. frame[f].cur \in Executors /\ frame[f].cur # None /\ frame[f].cur # Single
  <2>1. frame[f].cur \in {None} \union Executors
    BY DEF Structure, Stations, InState
  <2>2. frame[f].cur # None
    BY <1>3 DEF None
  <2>3. \A e \in Executors : e # Single
    BY FramesTyped, NumbersTyped DEF Structure, Executors
  <2> QED
    BY <2>1, <2>2, <2>3
<1>5. ChooseExecutor(f) = frame[f].cur
  BY <1>4 DEF ChooseExecutor
<1> DEFINE S == {e \in Executors : e >= c}
<1>6. Ordered /\ S \in SUBSET ({None} \union Frames) /\ frame[f].cur \in S
  BY <1>3, <1>4, StructureOrdered DEF Executors
<1>7. \A x \in S : x # None /\ Broken(x) => frame[x].old \in S
  <2> SUFFICES ASSUME NEW x \in Executors, x >= c, Broken(x)
               PROVE  frame[x].old \in Executors /\ frame[x].old >= c
    OBVIOUS
  <2>1. x \in Frames /\ x \in Nat /\ frame[x].old \in {None} \union Executors
    BY FramesTyped DEF Structure, Tree, BornWell, Executors
  <2>2. ~ Broken(c)
    BY <1>3 DEF Broken, Live
  <2>3. x # c
    BY <2>2
  <2>4. frame[x].old >= c
    BY <1>3, <2>1, <2>3 DEF UnderAt
  <2> QED
    BY <1>3, <2>1, <2>4 DEF None
<1> HIDE DEF S
<1>8. StillRunning[frame[f].cur] \in S
  BY <1>6, <1>7, RunningWithin
<1> QED
  BY <1>3, <1>4, <1>5, <1>8 DEF Chosen, Closest, S, None

LEMMA SyncProgramKept ==
    ASSUME Structure, Kept, SyncProgram'
    PROVE  SyncProgram
  BY UsesKept, FramesTyped DEF SyncProgram, Kept, Structure

LEMMA ShelteredNext ==
    ASSUME Structure, Structure', LoopsOpen, Sheltered, [Next]_vars
    PROVE  Sheltered'
<1> SUFFICES ASSUME SyncProgram' PROVE Sheltered'
  BY DEF Sheltered
<1>0. Typed /\ 1 \in Frames /\ SyncProgram'
  BY FramesTyped DEF Structure
<1>1. ASSUME NEW f \in Frames, NEW via \in {"a2s", "force"}, CallAsync(f, via)
      PROVE  Sheltered'
  <2>1. PICK n : n = New
    OBVIOUS
  <2>2. /\ Kept /\ Grows /\ Steady({f}) /\ frame[f].state = "running"
        /\ frame'[f].state = "blocked" /\ frame'[f].cur = n
        /\ frame'[n].via = via /\ frame'[n].parent = f /\ frame'[n].cur = n
        /\ frame'[n].old = frame[f].cur /\ frame'[n].state \in {"running", "waiting"}
    BY <1>0, <1>1, <2>1, CallAsyncDoes DEF Becomes
  <2>3. SyncProgram
    BY <1>0, <2>2, SyncProgramKept
  <2>4. CASE f = 1
    BY <1>1, <2>3, <2>4, ShelteredCallOutermost
  <2>5. CASE f # 1
    <3>1. Frames' = Frames \union {n} /\ n \notin Frames /\ n \in Nat
      BY <1>0, <2>1, <2>2, NewFrame
    <3> QED
      BY <2>2, <2>5, <3>1, ShelteredBorn
  <2> QED
    BY <2>4, <2>5
<1>2. ASSUME NEW f \in Frames, StartLoop(f) PROVE Sheltered'
  <2>1. /\ Kept /\ Stays /\ Steady({f}) /\ Live(f) /\ frame'[f].cur = frame[f].cur
        /\ frame[f].state = "waiting" /\ frame'[f].state = "running"
    BY <1>0, <1>2, StartLoopDoes DEF Becomes, Live, Refusals
  <2>2. SyncProgram
    BY <1>0, <2>1, SyncProgramKept
  <2>3. f # 1
    BY <1>2, <2>1, <2>2 DEF Structure, Stations, InState, Refusals, SyncProgram, Join
  <2> QED
    BY <2>1, <2>3, ShelteredTurned
<1>3. ASSUME NEW f \in Frames, CallSensitive(f) PROVE Sheltered'
  <2>1. PICK n : n = New
    OBVIOUS
  <2>2. frame[f].kind = "async"
    BY <1>3 DEF CallSensitive
  <2>3. Chosen(f) \in 0 .. MaxFrames + 1
    BY <1>0, <2>2, ChosenWell, FramesTyped, NumbersTyped DEF Single, None, Executors
  <2>4. /\ Kept /\ Grows /\ frame[f].state = "running"
        /\ frame'[n].parent = f /\ frame'[n].via = "s2a" /\ frame'[n].cur = frame[f].cur
        /\ Refused(f) \/ Submitted(f)
    BY <1>0, <1>3, <2>1, <2>3, CallSensitiveDoes
  <2>5. SyncProgram /\ f # 1
    BY <1>0, <2>2, <2>4, SyncProgramKept DEF SyncProgram
  <2>6. Frames' = Frames \union {n} /\ n \notin Frames /\ n \in Nat
    BY <1>0, <2>1, <2>4, NewFrame
  <2>7. /\ Steady({f}) /\ frame'[f].state \in {"running", "blocked"}
        /\ frame'[f].cur = frame[f].cur
    BY <2>4 DEF Refused, Submitted, Steady, Becomes
  <2>8. frame'[n].state # "quit"
    <3> SUFFICES ASSUME frame'[n].state = "quit" PROVE FALSE
      OBVIOUS
    <3>1. Refused(f)
      BY <2>1, <2>4 DEF Submitted
    <3>2. Chosen(f) = None /\ ~ OwnThread(f)
      BY <2>1, <3>1 DEF Refused
    <3> QED
      BY <2>2, <2>4, <2>5, <3>2, Accepted
  <2> QED
    BY <2>4, <2>5, <2>6, <2>7, <2>8, ShelteredBorn
<1>4. ASSUME NEW f \in Frames, CallInsensitive(f) PROVE Sheltered'
  <2>1. PICK n : n = New
    OBVIOUS
  <2>2. /\ Kept /\ Grows /\ Steady({f}) /\ frame[f].state = "running" /\ frame[f].kind = "async"
        /\ frame'[f].state = "blocked" /\ frame'[f].cur = frame[f].cur
        /\ frame'[n].parent = f /\ frame'[n].via = "pool" /\ frame'[n].cur = frame[f].cur
        /\ frame'[n].state = "queued"
    BY <1>0, <1>4, <2>1, CallInsensitiveDoes DEF Becomes
  <2>3. SyncProgram /\ f # 1
    BY <1>0, <2>2, SyncProgramKept DEF SyncProgram
  <2>4. Frames' = Frames \union {n} /\ n \notin Frames /\ n \in Nat
    BY <1>0, <2>1, <2>2, NewFrame
  <2> QED
    BY <2>2, <2>3, <2>4, ShelteredBorn
<1>5. ASSUME NEW f \in Frames, NEW via \in {"task", "fresh"}, CreateTask(f, via)
      PROVE  Sheltered'
  <2>1. PICK n : n = New
    OBVIOUS
  <2>2. /\ Kept /\ Grows /\ Steady({}) /\ frame[f].state = "running" /\ frame[f].kind = "async"
        /\ frame'[n].parent = f /\ frame'[n].via = via /\ frame'[n].state = "running"
        /\ frame'[n].cur = (IF via = "task" THEN frame[f].cur ELSE None)
    BY <1>0, <1>5, <2>1, CreateTaskDoes
  <2>3. SyncProgram /\ f # 1
    BY <1>0, <2>2, SyncProgramKept DEF SyncProgram
  <2>4. Frames' = Frames \union {n} /\ n \notin Frames /\ n \in Nat
    BY <1>0, <2>1, <2>2, NewFrame
  <2>5. Steady({f}) /\ frame'[f].state = "running" /\ frame'[f].cur = frame[f].cur
    BY <2>2 DEF Steady
  <2> QED
    BY <2>2, <2>3, <2>4, <2>5, ShelteredBorn
<1>6. ASSUME NEW f \in Frames, Join(f) PROVE Sheltered'
  <2>1. /\ Kept /\ Stays /\ Steady({f}) /\ Live(f) /\ frame'[f].cur = frame[f].cur
        /\ frame[f].state = "running" /\ frame'[f].state = "joining"
    BY <1>0, <1>6, JoinDoes DEF Becomes, Live, Refusals
  <2>2. SyncProgram
    BY <1>0, <2>1, SyncProgramKept
  <2>3. f # 1
    BY <1>6, <2>1, <2>2 DEF Structure, Stations, InState, Refusals, SyncProgram, Join
  <2> QED
    BY <2>1, <2>3, ShelteredTurned
<1>7. ASSUME NEW f \in Frames, Joined(f) PROVE Sheltered'
  <2>1. /\ Kept /\ Stays /\ Steady({f}) /\ Live(f) /\ frame'[f].cur = frame[f].cur
        /\ frame[f].state = "joining" /\ frame'[f].state = "running"
    BY <1>0, <1>7, JoinedDoes DEF Becomes, Live, Refusals
  <2>2. SyncProgram
    BY <1>0, <2>1, SyncProgramKept
  <2>3. f # 1
    BY <1>7, <2>1, <2>2 DEF Structure, Stations, InState, Refusals, SyncProgram, Join
  <2> QED
    BY <2>1, <2>3, ShelteredTurned
<1>8. ASSUME NEW f \in Frames, RunLoop(f) PROVE Sheltered'
  <2>1. PICK n : n = New
    OBVIOUS
  <2>2. n \in Frames' /\ frame'[n].via = "run"
    BY <1>0, <1>8, <2>1, RunLoopDoes DEF Grows
  <2> QED
    BY <1>0, <2>2 DEF SyncProgram, Uses
<1>9. ASSUME NEW f \in Frames, Return(f) PROVE Sheltered'
  <2>1. /\ Kept /\ Stays /\ Steady({f}) /\ Live(f) /\ frame'[f].cur = frame[f].cur
        /\ frame[f].state = "running" /\ frame'[f].state = Ending(f)
        /\ frame'[f].state \in {"done", "returned"}
    BY <1>0, <1>9, ReturnDoes DEF Becomes, Live, Refusals, Ending
  <2>2. SyncProgram
    BY <1>0, <2>1, SyncProgramKept
  <2>3. CASE f = 1
    <3>1. \A x \in Frames \ {1} : ~ Live(x)
      BY <2>1, <2>2, <2>3 DEF Sheltered
    <3>2. \A x \in Frames \ {1} : ~ Live(x)'
      BY <2>1, <2>3, <3>1, LiveKept
    <3>3. \A x \in Frames : frame'[x].state = "quit" => frame[x].state = "quit"
      BY <2>1 DEF Steady
    <3> QED
      BY <2>1, <2>2, <3>2, <3>3, ShelteredIdle
  <2>4. CASE f # 1 /\ ~ Outermost(f)
    BY <2>1, <2>4, ShelteredTurned
  <2>5. CASE f # 1 /\ Outermost(f)
    <3>1. UnderAt(f)
      BY <2>2, <2>5 DEF Sheltered
    <3>2. \A x \in Frames \ {1, f} : ~ Live(x)
      <4>1. \A g \in Frames \ {f} : frame[g].loop = f => ~ Live(g)
        BY <1>9, <3>1 DEF Return, UnderAt
      <4> QED
        BY <2>1, <2>2, <2>5, <4>1, ShelteredReturn
    <3>3. \A x \in Frames : /\ Live(x)' => Live(x)
                            /\ frame'[x].state = "quit" => frame[x].state = "quit"
                            /\ frame'[x].cur = frame[x].cur
      BY <2>1, LiveKept DEF Steady
    <3>4. \A c \in Frames : Outermost(c) => c = f
      BY <2>5 DEF Outermost, Structure, Waits
    <3>5. frame'[1].state = frame[1].state
      BY <1>0, <2>1, <2>5 DEF Steady
    <3>6. ASSUME NEW c \in Frames, UnderAt(c)
          PROVE  \A x \in Frames \ {1} : Live(x)' => frame'[x].cur >= c
      BY <3>3, <3>6 DEF UnderAt
    <3> QED
      BY <2>1, <3>2, <3>3, <3>4, <3>5, <3>6, ShelteredKept DEF Stays
  <2> QED
    BY <2>3, <2>4, <2>5
<1>10. ASSUME NEW f \in Frames, NEW g \in Frames, ReturnAsync(f, g) PROVE Sheltered'
  <2>1. f # g /\ By(g) = f /\ f < g /\ f \in Nat /\ g \in Nat
    <3>1. frame[g].parent = f
      BY <1>10 DEF ReturnAsync
    <3>2. f \in 0 .. g - 1 /\ f \in Nat /\ g \in Nat
      BY <1>0, <3>1, FramesTyped DEF Structure, Tree, BornWell, By
    <3> QED
      BY <3>1, <3>2 DEF By
  <2>2. /\ Kept /\ Stays /\ Steady({f, g}) /\ frame[g].state = "returned"
        /\ frame[g].via \in {"a2s", "force"}
        /\ Becomes(g, "done", frame[g].cur, frame[g].dl)
        /\ frame'[f].state = "running" /\ frame'[f].cur = frame[g].old
    <3>1. Typed /\ f # g /\ ReturnAsync(f, g)
      BY <1>0, <1>10, <2>1
    <3> QED
      BY <3>1, ReturnAsyncDoes
  <2>3. SyncProgram
    BY <1>0, <2>2, SyncProgramKept
  <2>4. CASE f = 1
    <3>1. Outermost(g)
      BY <2>1, <2>2, <2>4 DEF Outermost, Pending, Live, Refusals
    <3>2. \A x \in Frames \ {1, g} : ~ Live(x)
      BY <2>2, <2>3, <3>1 DEF Sheltered, UnderAt
    <3>3. \A x \in Frames \ {1} : ~ Live(x)'
      <4>1. ~ Live(g)'
        BY <2>2 DEF Becomes, Live
      <4> QED
        BY <2>2, <2>4, <3>2, <4>1, LiveKept
    <3>4. \A x \in Frames : frame'[x].state = "quit" => frame[x].state = "quit"
      BY <2>2 DEF Steady, Becomes
    <3> QED
      BY <2>2, <2>3, <3>3, <3>4, ShelteredIdle
  <2>5. CASE f # 1
    <3>1. ASSUME NEW c \in Frames, Outermost(c), UnderAt(c) PROVE frame'[f].cur >= c
      <4>1. frame[f].state = "blocked"
        BY <2>1, <2>2 DEF Structure, Tree, BornWell, Pending, Waits, Live, Refusals
      <4>2. f >= c /\ c \in Nat
        <5>1. Live(f)
          BY <4>1 DEF Live, Refusals
        <5> QED
          BY <2>3, <2>5, <3>1, <5>1, Sheltering
      <4> QED
        BY <2>1, <2>2, <3>1, <4>2 DEF UnderAt, Executors
    <3> QED
      BY <2>1, <2>2, <2>3, <2>5, <3>1, ShelteredReturned
  <2> QED
    BY <2>4, <2>5
<1>11. ASSUME NEW f \in Frames, NEW g \in Frames, ReturnSync(f, g) PROVE Sheltered'
  <2>1. f # g /\ By(g) = f
    BY <1>11 DEF ReturnSync, Structure, Tree, BornWell, By
  <2>2. /\ Kept /\ Stays /\ Steady({f, g}) /\ frame[g].state = "returned"
        /\ frame[g].via \in {"s2a", "pool"}
        /\ Becomes(g, "done", frame[g].cur, frame[g].dl)
        /\ frame'[f].state = "running" /\ frame'[f].cur = frame[g].cur
    <3>1. Typed /\ f # g /\ ReturnSync(f, g)
      BY <1>0, <1>11, <2>1
    <3> QED
      BY <3>1, ReturnSyncDoes
  <2>3. SyncProgram
    BY <1>0, <2>2, SyncProgramKept
  <2>4. f # 1 /\ g # 1 /\ Live(g)
    BY <2>1, <2>2, <2>3 DEF Structure, Tree, BornWell, SyncProgram, Live, Refusals
  <2>5. \A c \in Frames : Outermost(c) /\ UnderAt(c) => frame'[f].cur >= c
    BY <2>2, <2>4 DEF UnderAt
  <2> QED
    BY <2>1, <2>2, <2>3, <2>4, <2>5, ShelteredReturned
<1>12. ASSUME NEW f \in Frames, NEW g \in Frames, ReturnLoop(f, g) PROVE Sheltered'
  <2>1. f # g
    BY <1>12 DEF ReturnLoop, Structure, Tree, BornWell, By
  <2>2. Kept /\ frame[g].via = "run"
    BY <1>0, <1>12, <2>1, ReturnLoopDoes
  <2>3. SyncProgram
    BY <1>0, <2>2, SyncProgramKept
  <2> QED
    BY <2>2, <2>3 DEF SyncProgram, Uses
<1>13. ASSUME NEW t \in Threads, NEW f \in Frames, StartSync(t, f) PROVE Sheltered'
  <2>1. frame[f].state = "queued" /\ frame[f].parent \in Frames /\ f # 1
    BY <1>13 DEF StartSync, Structure, Stations, InState, Tree, BornWell, By
  <2>2. Kept /\ Stays /\ Steady({f}) /\ frame'[f].state = "running" /\ frame'[f].cur = frame[f].cur
    <3>1. Typed /\ StartSync(t, f) /\ frame[f].parent \in Frames
      BY <1>0, <1>13, <2>1
    <3> QED
      BY <3>1, StartSyncDoes DEF Becomes
  <2> QED
    BY <2>1, <2>2, ShelteredTurned DEF Live, Refusals
<1>14. CASE UNCHANGED vars
  BY <1>14 DEF vars, Sheltered, SyncProgram, Outermost, Pending, UnderAt, Executors, By, Frames,
               Live, Uses
<1>15. Ended => UNCHANGED vars
  BY DEF Ended
<1> QED
  BY <1>1, <1>2, <1>3, <1>4, <1>5, <1>6, <1>7, <1>8, <1>9, <1>10, <1>11, <1>12, <1>13,
     <1>14, <1>15 DEF Next

LEMMA ShelteredInitial == Init => Sheltered
  BY FirstFrame DEF Sheltered, Outermost, Pending

\* The executor the outermost function pumps outlives all the others, so that
\* submit() finds one up the stack that still runs: no thread-sensitive call of
\* a sync program, however late, is refused.
THEOREM NeverRefused == Spec => []SyncNeverRefused
<1>1. Structure /\ Structure' /\ LoopsOpen /\ Sheltered /\ [Next]_vars => Sheltered'
  BY ShelteredNext
<1>2. Sheltered => SyncNeverRefused
  BY DEF Sheltered, SyncNeverRefused, SyncProgram
<1> QED
  BY <1>1, <1>2, ShelteredInitial, StructureInvariant, LoopsOpenInvariant, PTL DEF Spec

-----------------------------------------------------------------------------
(* Coroutines run in the loop of the call stack.                            *)

Freely == Uses({"force", "run"})

\* What lives, lives in one loop.
OneLoopLives ==
    \A x, y \in Frames :
       frame[x].kind = "async" /\ Live(x) /\ frame[y].kind = "async" /\ Live(y)
           => frame[x].loop = frame[y].loop

\* It is the loop noted in the threads that sync code runs in.
LoopNoted ==
    \A x \in Frames \ {1}, y \in Frames :
       frame[x].kind = "sync" /\ Started(x) /\ Live(x) /\ frame[y].kind = "async" /\ Live(y)
           => tl[frame[x].thread] = frame[y].loop

\* The loop of a sync program is the one of the call it waits for.
LoopOfOutermost ==
    frame[1].kind = "sync" =>
       /\ \A c \in Frames : Outermost(c) =>
             /\ frame[c].kind = "async" /\ frame[c].loop = c
             /\ frame[c].state = "returned" => \A x \in Frames \ {1, c} : ~ Live(x)
       /\ frame[1].state # "blocked" => \A x \in Frames \ {1} : ~ Live(x)

\* A call was put in the loop of its closest coroutine.
LoopPassedAt(f) ==
    frame[f].via = "a2s" /\ frame[f].parent # 1 =>
        frame[f].loop = frame[frame[frame[f].parent].parent].loop

LoopPassed == \A f \in Frames : LoopPassedAt(f)

OneLoop == Freely \/ (OneLoopLives /\ LoopNoted /\ LoopOfOutermost /\ LoopPassed)

LEMMA FreelyKept == ASSUME Kept, ~ Freely' PROVE ~ Freely
  BY UsesKept DEF Freely

LEMMA LoopPassedKept ==
    ASSUME Structure, LoopPassed, Kept, NEW f \in Frames
    PROVE  LoopPassedAt(f)'
<1> SUFFICES ASSUME frame[f].via = "a2s", By(f) # 1
             PROVE  frame'[f].loop = frame'[frame'[frame'[f].parent].parent].loop
  BY DEF LoopPassedAt, Kept, By
<1>1. \A g \in Frames : g # 1 => By(g) \in Frames
  BY DEF Structure, Tree, BornWell
<1>2. PICK x : x = By(f)
  OBVIOUS
<1>3. PICK y : y = By(x)
  OBVIOUS
<1>4. x \in Frames /\ y \in Frames
  <2>1. f # 1
    BY DEF Structure, Tree, BornWell
  <2> QED
    BY <1>1, <1>2, <1>3, <2>1
<1>5. frame[f].loop = frame[y].loop
  BY <1>2, <1>3 DEF LoopPassed, LoopPassedAt, By
<1>6. frame'[f].parent = x /\ frame'[x].parent = y
  BY <1>2, <1>3, <1>4 DEF Kept, By
<1> QED
  BY <1>4, <1>5, <1>6 DEF Kept

\* Nothing is born, nothing starts.
LEMMA OneLoopKept ==
    ASSUME Structure, Structure', OneLoop, Kept, Stays, tl' = tl,
           \A x \in Frames :
              /\ Live(x)' => Live(x)
              /\ frame[x].kind = "sync" /\ Live(x)' /\ Started(x)' => Started(x) /\ SameThread(x),
           frame[1].kind = "sync" /\ ~ Freely => 
              /\ frame'[1].state # "blocked" =>
                    frame[1].state # "blocked" \/ \A x \in Frames \ {1} : ~ Live(x)'
              /\ \A c \in Frames : Outermost(c) /\ frame'[c].state = "returned" =>
                    frame[c].state = "returned" \/ \A x \in Frames \ {1, c} : ~ Live(x)'
    PROVE  OneLoop'
<1> SUFFICES ASSUME ~ Freely'
             PROVE  OneLoopLives' /\ LoopNoted' /\ LoopOfOutermost' /\ LoopPassed'
  BY DEF OneLoop
<1>1. ~ Freely /\ OneLoopLives /\ LoopNoted /\ LoopOfOutermost /\ LoopPassed
  BY FreelyKept DEF OneLoop
<1>2. 1 \in Frames /\ frame'[1].kind = frame[1].kind
  BY FramesTyped DEF Structure, Kept
<1>3. OneLoopLives'
  BY <1>1 DEF OneLoopLives, Kept, Stays
<1>4. LoopNoted'
  BY <1>1 DEF LoopNoted, Kept, Stays, SameThread
<1>5. LoopPassed'
  BY <1>1, LoopPassedKept DEF LoopPassed, Stays
<1>6. \A c \in Frames : Outermost(c)' => Outermost(c)
  BY DEF Outermost, Pending, By, Kept
<1>7. LoopOfOutermost'
  <2> SUFFICES ASSUME frame[1].kind = "sync"
               PROVE  /\ \A c \in Frames' : Outermost(c)' =>
                            /\ frame'[c].kind = "async" /\ frame'[c].loop = c
                            /\ frame'[c].state = "returned" =>
                                  \A x \in Frames' \ {1, c} : ~ Live(x)'
                      /\ frame'[1].state # "blocked" => \A x \in Frames' \ {1} : ~ Live(x)'
    BY <1>2 DEF LoopOfOutermost
  <2>1. ASSUME NEW c \in Frames, Outermost(c)'
        PROVE  /\ frame'[c].kind = "async" /\ frame'[c].loop = c
               /\ frame'[c].state = "returned" => \A x \in Frames \ {1, c} : ~ Live(x)'
    BY <1>1, <1>6, <2>1 DEF LoopOfOutermost, Kept
  <2>2. frame'[1].state # "blocked" => \A x \in Frames \ {1} : ~ Live(x)'
    BY <1>1 DEF LoopOfOutermost
  <2> QED
    BY <2>1, <2>2 DEF Stays
<1> QED
  BY <1>3, <1>4, <1>5, <1>7

\* A frame that runs makes a call, or a task, in the loop that lives.
LEMMA OneLoopBorn ==
    ASSUME Structure, Structure', OneLoop, Kept, tl' = tl, NEW f \in Frames, NEW n,
           Frames' = Frames \union {n}, n \notin Frames, Steady({f}), SameThread(f),
           frame[f].state = "running", frame'[f].state \in {"running", "blocked"},
           frame'[n].parent = f, f = 1 => frame[1].kind = "async",
           frame'[n].via \notin {"force", "run"} =>
              /\ frame'[n].kind = "sync" => ~ Started(n)'
              /\ frame'[n].kind = "async" => \E y \in Frames :
                    frame[y].kind = "async" /\ Live(y) /\ frame'[n].loop = frame[y].loop
              /\ frame'[n].via = "a2s" => By(f) \in Frames /\ frame'[n].loop = frame[By(f)].loop
    PROVE  OneLoop'
<1> SUFFICES ASSUME ~ Freely'
             PROVE  OneLoopLives' /\ LoopNoted' /\ LoopOfOutermost' /\ LoopPassed'
  BY DEF OneLoop
<1>1. ~ Freely /\ OneLoopLives /\ LoopNoted /\ LoopOfOutermost /\ LoopPassed
  BY FreelyKept DEF OneLoop
<1>2. 1 \in Frames /\ frame'[1].kind = frame[1].kind
  BY FramesTyped DEF Structure, Kept
<1>3. frame'[n].via \notin {"force", "run"}
  BY DEF Freely, Uses
<1>4. \A x \in Frames : (Live(x)' <=> Live(x)) /\ SameThread(x) /\ (Started(x)' <=> Started(x))
  <2>1. \A x \in Frames \ {f} : Live(x)' <=> Live(x)
    BY LiveKept
  <2>2. Live(f)' /\ Live(f)
    BY DEF Live, Refusals
  <2> QED
    BY <2>1, <2>2 DEF Steady, SameThread, Started, Kept, Refusals
<1>5. OneLoopLives'
  <2>1. ASSUME NEW x \in Frames', frame'[x].kind = "async", Live(x)'
        PROVE  \E y \in Frames : frame[y].kind = "async" /\ Live(y)
                                 /\ frame'[x].loop = frame[y].loop
    BY <1>3, <1>4, <2>1 DEF Kept
  <2> QED
    BY <1>1, <2>1 DEF OneLoopLives
<1>6. LoopNoted'
  <2>1. ASSUME NEW y \in Frames', frame'[y].kind = "async", Live(y)'
        PROVE  \E z \in Frames : frame[z].kind = "async" /\ Live(z)
                                 /\ frame'[y].loop = frame[z].loop
    BY <1>3, <1>4, <2>1 DEF Kept
  <2>2. ASSUME NEW x \in Frames' \ {1}, frame'[x].kind = "sync", Started(x)', Live(x)'
        PROVE  /\ x \in Frames \ {1} /\ frame[x].kind = "sync" /\ Started(x) /\ Live(x)
               /\ frame'[x].thread = frame[x].thread
    BY <1>3, <1>4, <2>2 DEF Kept, SameThread
  <2> QED
    BY <1>1, <2>1, <2>2 DEF LoopNoted
<1>7. LoopPassed'
  <2>1. LoopPassedAt(n)'
    BY <1>3 DEF LoopPassedAt, By, Kept
  <2>2. \A g \in Frames : LoopPassedAt(g)'
    BY <1>1, LoopPassedKept
  <2> QED
    BY <2>1, <2>2 DEF LoopPassed
<1>8. LoopOfOutermost'
  <2> SUFFICES ASSUME frame[1].kind = "sync"
               PROVE  /\ \A c \in Frames' : Outermost(c)' =>
                            /\ frame'[c].kind = "async" /\ frame'[c].loop = c
                            /\ frame'[c].state # "returned"
                      /\ frame'[1].state = "blocked"
    BY <1>2 DEF LoopOfOutermost
  <2>1. f # 1 /\ Live(f)
    BY DEF Live, Refusals
  <2>2. frame[1].state = "blocked" /\ frame'[1].state = "blocked"
    BY <1>1, <1>2, <2>1 DEF LoopOfOutermost, Steady
  <2>3. ASSUME NEW c \in Frames', Outermost(c)'
        PROVE  frame'[c].kind = "async" /\ frame'[c].loop = c /\ frame'[c].state # "returned"
    <3>1. c \in Frames /\ Outermost(c)
      BY <1>4, <2>1, <2>3 DEF Outermost, Pending, By, Kept
    <3>2. frame[c].kind = "async" /\ frame[c].loop = c /\ frame[c].state # "returned"
      BY <1>1, <2>1, <3>1 DEF LoopOfOutermost
    <3> QED
      BY <3>1, <3>2 DEF Kept, Steady
  <2> QED
    BY <2>2, <2>3
<1> QED
  BY <1>5, <1>6, <1>7, <1>8

LEMMA OneLoopTurned ==
    ASSUME Structure, Structure', OneLoop, Kept, Stays, tl' = tl, NEW f \in Frames,
           Steady({f}), SameThread(f),
           frame[f].state \notin {"queued", "blocked", "done"} \union Refusals,
           frame'[f].state # "returned"
    PROVE  OneLoop'
<1>1. Live(f)
  BY DEF Live
<1>2. \A x \in Frames : Live(x)' => Live(x)
  BY <1>1, LiveKept
<1>3. \A x \in Frames : frame[x].kind = "sync" /\ Started(x)' => Started(x) /\ SameThread(x)
  BY DEF Started, Kept, Steady, SameThread, Refusals
<1>4. frame'[1].state # "blocked" => frame[1].state # "blocked"
  BY FramesTyped DEF Structure, Steady
<1>5. \A c \in Frames : frame'[c].state = "returned" => frame[c].state = "returned"
  BY DEF Steady
<1> QED
  BY <1>2, <1>3, <1>4, <1>5, OneLoopKept

LEMMA OneLoopCallAsync ==
    ASSUME Structure, Structure', LoopsOpen, OneLoop, ~ Freely, NEW f \in Frames, f # 1,
           frame[f].kind = "sync", frame[f].state = "running"
    PROVE  /\ By(f) \in Frames /\ frame[By(f)].kind = "async" /\ Live(By(f))
           /\ MainLoop(f, "a2s") = frame[By(f)].loop /\ MainLoop(f, "a2s") # None
<1>1. Frames = 1 .. Len(frame) /\ Len(frame) \in Nat /\ frame[f].via \in Vias
  BY FramesTyped, PartsTyped DEF Structure
<1>2. PICK q : q = By(f)
  OBVIOUS
<1>3. q \in Frames /\ frame[q].kind = "async" /\ frame[f].via \in {"s2a", "pool"}
  BY <1>1, <1>2 DEF Structure, Tree, BornWell, Vias
<1>4. frame[q].state = "blocked" /\ Live(q) /\ Live(f) /\ Started(f)
  <2>1. Pending(f)
    BY <1>3 DEF Pending, Live, Refusals
  <2> QED
    BY <1>2, <2>1 DEF Structure, Waits, Live, Refusals, Started
<1>5. tl[frame[f].thread] = frame[q].loop
  BY <1>3, <1>4 DEF OneLoop, LoopNoted
<1>6. frame[q].loop # None /\ LoopOpen(frame[q].loop)
  <2>1. frame[q].loop \in 1 .. q
    BY <1>3 DEF Structure, Tree, BornWell
  <2>2. LoopOpen(frame[q].loop)
    BY <1>3, <1>4 DEF LoopsOpen, LoopOpen
  <2> QED
    BY <2>1, <2>2 DEF None
<1> QED
  BY <1>2, <1>3, <1>4, <1>5, <1>6 DEF MainLoop

\* The outermost function calls: no loop is open, and no one else lives.
LEMMA OneLoopCallOutermost ==
    ASSUME Structure, Structure', OneLoop, frame[1].kind = "sync", NEW via \in {"a2s", "force"},
           CallAsync(1, via)
    PROVE  OneLoop'
<1>1. PICK n : n = New
  OBVIOUS
<1>2. PICK l : l = MainLoop(1, via)
  OBVIOUS
<1>3. 1 \in Frames /\ Frames = 1 .. Len(frame) /\ Len(frame) \in Nat /\ n = Len(frame) + 1
  BY <1>1, FramesTyped DEF Structure, New
<1>4. /\ Kept /\ Grows /\ Steady({1}) /\ frame[1].state = "running" /\ tl' = tl
      /\ frame'[1].state = "blocked"
      /\ frame'[n].via = via /\ frame'[n].parent = 1 /\ frame'[n].kind = "async"
      /\ frame'[n].loop = (IF l = None THEN n ELSE l)
      /\ frame'[n].state \in {"running", "waiting"}
  <2>1. PICK f \in Frames : f = 1
    BY <1>3
  <2>2. Typed /\ CallAsync(f, via)
    BY <2>1 DEF Structure
  <2>3. /\ Kept /\ Grows /\ Steady({f}) /\ frame[f].state = "running" /\ tl' = tl
        /\ Becomes(f, "blocked", New, frame[f].dl)
        /\ frame'[New].via = via /\ frame'[New].parent = f /\ frame'[New].kind = "async"
        /\ frame'[New].loop = (IF MainLoop(f, via) = None THEN New ELSE MainLoop(f, via))
        /\ frame'[New].state \in {"running", "waiting"}
    BY <2>2, CallAsyncDoes
  <2> QED
    BY <1>1, <1>2, <2>1, <2>3 DEF Becomes
<1> SUFFICES ASSUME ~ Freely'
             PROVE  OneLoopLives' /\ LoopNoted' /\ LoopOfOutermost' /\ LoopPassed'
  BY DEF OneLoop
<1>5. ~ Freely /\ OneLoopLives /\ LoopNoted /\ LoopOfOutermost /\ LoopPassed
  BY <1>4, FreelyKept DEF OneLoop
<1>6. Frames' = Frames \union {n} /\ n \notin Frames
  BY <1>1, <1>4 DEF Grows
<1>7. \A x \in Frames \ {1} : ~ Live(x)
  BY <1>4, <1>5 DEF LoopOfOutermost
<1>8. l = None
  <2> SUFFICES ASSUME l # None PROVE FALSE
    OBVIOUS
  <2>1. frame[1].thread \in Threads
    BY <1>3, FramesTyped, PartsTyped DEF Structure
  <2>2. l \in Frames /\ LoopOpen(l) /\ frame[l].kind = "async"
    BY <1>2, <2>1 DEF MainLoop, Structure, Remembered
  <2>3. l # 1 /\ ~ Live(l)
    BY <1>7, <2>2
  <2> QED
    BY <2>2, <2>3 DEF Live, LoopOpen, Structure, Stations, InState, Refusals
<1>9. \A x \in Frames' \ {1} : Live(x)' => x = n
  BY <1>4, <1>6, <1>7, LiveKept
<1>10. frame'[1].kind = "sync"
  BY <1>3, <1>4 DEF Kept
<1>11. OneLoopLives' /\ LoopNoted'
  BY <1>4, <1>9, <1>10 DEF OneLoopLives, LoopNoted
<1>12. LoopOfOutermost'
  <2>1. \A c \in Frames' : Outermost(c)' => c = n
    BY <1>9 DEF Outermost, Pending
  <2> QED
    BY <1>4, <1>8, <2>1 DEF LoopOfOutermost
<1>13. LoopPassed'
  <2>1. \A g \in Frames : LoopPassedAt(g)'
    BY <1>4, <1>5, LoopPassedKept
  <2>2. LoopPassedAt(n)'
    BY <1>4 DEF LoopPassedAt
  <2> QED
    BY <1>6, <2>1, <2>2 DEF LoopPassed
<1> QED
  BY <1>11, <1>12, <1>13

\* Work starts in a thread, and notes the loop that lives.
LEMMA OneLoopStartSync ==
    ASSUME Structure, Structure', OneLoop, NEW t \in Threads, NEW g \in Frames, StartSync(t, g)
    PROVE  OneLoop'
<1>1. PICK q : q = By(g)
  OBVIOUS
<1>2. /\ frame[g].state = "queued" /\ q \in Frames /\ g # 1 /\ frame[g].kind = "sync"
      /\ frame[g].via \in {"s2a", "pool"} /\ frame[q].kind = "async"
  BY <1>1 DEF StartSync, Structure, Stations, InState, Tree, BornWell, By
<1>3. /\ Kept /\ Stays /\ Steady({g}) /\ tl' = [tl EXCEPT ![t] = frame[q].loop]
      /\ frame'[g].state = "running" /\ frame'[g].thread = t
  <2>1. Typed /\ StartSync(t, g) /\ frame[g].parent \in Frames
    BY <1>1, <1>2 DEF Structure, By
  <2> QED
    BY <1>1, <2>1, StartSyncDoes DEF Becomes, By
<1>4. Live(q) /\ frame[q].state = "blocked"
  <2>1. Pending(g)
    BY <1>2 DEF Pending, Live, Refusals
  <2> QED
    BY <1>1, <2>1 DEF Structure, Waits, Live, Refusals
<1> SUFFICES ASSUME ~ Freely'
             PROVE  OneLoopLives' /\ LoopNoted' /\ LoopOfOutermost' /\ LoopPassed'
  BY DEF OneLoop
<1>5. ~ Freely /\ OneLoopLives /\ LoopNoted /\ LoopOfOutermost /\ LoopPassed
  BY <1>3, FreelyKept DEF OneLoop
<1>6. \A x \in Frames : Live(x)' <=> Live(x)
  BY <1>2, <1>3, LiveKept DEF Live, Refusals
<1>7. OneLoopLives'
  BY <1>3, <1>5, <1>6 DEF OneLoopLives, Kept, Stays
<1>8. LoopNoted'
  <2>1. ASSUME NEW x \in Frames \ {1}, NEW y \in Frames, frame'[x].kind = "sync", Started(x)',
               Live(x)', frame'[y].kind = "async", Live(y)'
        PROVE  tl'[frame'[x].thread] = frame'[y].loop
    <3>1. /\ frame[y].kind = "async" /\ Live(y) /\ frame'[y].loop = frame[y].loop
          /\ frame[x].kind = "sync" /\ Live(x)
      BY <1>3, <1>6, <2>1 DEF Kept
    <3>2. frame[q].loop = frame[y].loop
      BY <1>2, <1>4, <1>5, <3>1 DEF OneLoopLives
    <3>3. tl \in [Threads -> 0 .. MaxFrames]
      BY DEF Structure, Typed
    <3>4. CASE frame'[x].thread = t
      BY <1>3, <3>1, <3>2, <3>3, <3>4
    <3>5. CASE frame'[x].thread # t
      <4>1. x # g /\ frame'[x].thread = frame[x].thread /\ Started(x)
        BY <1>3, <2>1, <3>5 DEF Steady, Started, Kept
      <4>2. tl[frame[x].thread] = frame[y].loop
        BY <1>5, <3>1, <4>1 DEF LoopNoted
      <4>3. frame[x].thread \in Threads
        BY FramesTyped, PartsTyped DEF Structure
      <4> QED
        BY <1>3, <3>1, <3>3, <3>5, <4>1, <4>2, <4>3
    <3> QED
      BY <3>4, <3>5
  <2> QED
    BY <1>3, <2>1 DEF LoopNoted, Stays
<1>9. LoopPassed'
  BY <1>3, <1>5, LoopPassedKept DEF LoopPassed, Stays
<1>10. LoopOfOutermost'
  <2>1. 1 \in Frames
    BY FramesTyped DEF Structure
  <2>2. \A c \in Frames : Outermost(c)' => Outermost(c)
    BY <1>3, <1>6 DEF Outermost, Pending, By, Kept
  <2>3. frame'[1].kind = frame[1].kind /\ frame'[1].state = frame[1].state
    BY <1>2, <1>3, <2>1 DEF Kept, Steady
  <2>4. \A c \in Frames : frame'[c].state = "returned" => frame[c].state = "returned"
    BY <1>3 DEF Steady
  <2> QED
    BY <1>3, <1>5, <1>6, <2>2, <2>3, <2>4 DEF LoopOfOutermost, Kept, Stays
<1> QED
  BY <1>7, <1>8, <1>9, <1>10

\* A loop ends after its coroutines, and so after the sync code they wait for.
LEMMA LoopReturn ==
    ASSUME Structure, OneLoop, ~ Freely, frame[1].kind = "sync",
           NEW c \in Frames, Outermost(c), frame[c].state = "running",
           frame[c].loop = c => \A g \in Frames \ {c} : frame[g].loop = c => ~ Live(g)
    PROVE  \A x \in Frames \ {1, c} : ~ Live(x)
<1> SUFFICES ASSUME NEW x \in Frames \ {1, c}, Live(x) PROVE FALSE
  OBVIOUS
<1>1. frame[c].kind = "async" /\ frame[c].loop = c /\ Live(c)
  BY DEF OneLoop, LoopOfOutermost, Outermost, Pending
<1>2. ASSUME NEW y \in Frames, frame[y].kind = "async", Live(y) PROVE y = c
  BY <1>1, <1>2 DEF OneLoop, OneLoopLives
<1>3. frame[x].kind = "sync"
  BY <1>2, FramesTyped, PartsTyped DEF Structure
<1>4. frame[x].via \in {"s2a", "pool"}
  <2>1. frame[x].via \in Vias
    BY FramesTyped, PartsTyped DEF Structure
  <2> QED
    BY <1>3, <2>1 DEF Structure, Tree, BornWell, Vias
<1>5. frame[By(x)].kind = "async" /\ By(x) \in Frames /\ Pending(x)
  BY <1>4 DEF Structure, Tree, BornWell, Pending
<1>6. frame[By(x)].state = "blocked" /\ Live(By(x))
  BY <1>5 DEF Structure, Waits, Live, Refusals
<1> QED
  BY <1>2, <1>5, <1>6

LEMMA OneLoopReturned ==
    ASSUME Structure, Structure', OneLoop, Kept, Stays, tl' = tl,
           NEW f \in Frames, NEW g \in Frames, f # g, By(g) = f, Steady({f, g}),
           SameThread(f), SameThread(g), frame[g].state = "returned",
           frame[g].via \notin {"outer", "task", "fresh"},
           frame'[g].state = "done", frame'[f].state = "running"
    PROVE  OneLoop'
<1>1. Pending(g) /\ g # 1 /\ frame[f].state = "blocked" /\ Live(f) /\ ~ Live(g)'
  <2>1. Pending(g) /\ g # 1
    BY DEF Structure, Tree, BornWell, Pending, Live, Refusals
  <2> QED
    BY <2>1 DEF Structure, Waits, Live, Refusals
<1>2. \A x \in Frames : Live(x)' => Live(x)
  BY <1>1, LiveKept
<1>3. \A x \in Frames : frame[x].kind = "sync" /\ Started(x)' => Started(x) /\ SameThread(x)
  BY <1>1 DEF Started, Kept, Steady, SameThread, Refusals
<1>4. ASSUME frame[1].kind = "sync", ~ Freely, frame'[1].state # "blocked"
      PROVE  frame[1].state # "blocked" \/ \A x \in Frames \ {1} : ~ Live(x)'
  <2>1. CASE f = 1
    <3>1. \A x \in Frames \ {1, g} : ~ Live(x)
      BY <1>1, <1>4, <2>1 DEF OneLoop, LoopOfOutermost, Outermost
    <3> QED
      BY <1>1, <1>2, <3>1
  <2>2. CASE f # 1
    BY <1>1, <1>4, <2>2, FramesTyped DEF Structure, Steady
  <2> QED
    BY <2>1, <2>2
<1>5. \A c \in Frames : frame'[c].state = "returned" => frame[c].state = "returned"
  BY DEF Steady
<1> QED
  BY <1>2, <1>3, <1>4, <1>5, OneLoopKept

LEMMA OneLoopNext ==
    ASSUME Structure, Structure', LoopsOpen, OneLoop, [Next]_vars
    PROVE  OneLoop'
<1> SUFFICES ASSUME ~ Freely' PROVE OneLoop'
  BY DEF OneLoop
<1>0. Typed /\ 1 \in Frames /\ Structure /\ Structure' /\ OneLoop /\ ~ Freely'
  BY FramesTyped DEF Structure
<1>1. ASSUME NEW f \in Frames, NEW via \in {"a2s", "force"}, CallAsync(f, via)
      PROVE  OneLoop'
  <2>1. PICK n : n = New
    OBVIOUS
  <2>2. /\ Kept /\ Grows /\ Steady({f}) /\ SameThread(f) /\ tl' = tl
        /\ frame[f].kind = "sync" /\ frame[f].state = "running" /\ frame'[f].state = "blocked"
        /\ frame'[n].via = via /\ frame'[n].parent = f /\ frame'[n].kind = "async"
        /\ frame'[n].loop = (IF MainLoop(f, via) = None THEN New ELSE MainLoop(f, via))
    BY <1>0, <1>1, <2>1, CallAsyncDoes DEF Becomes
  <2>3. Frames' = Frames \union {n} /\ n \notin Frames /\ ~ Freely
    BY <1>0, <2>1, <2>2, FreelyKept DEF Grows
  <2>4. via = "a2s"
    BY <1>0, <2>2, <2>3 DEF Freely, Uses
  <2>5. CASE f = 1
    BY <1>0, <1>1, <2>2, <2>5, OneLoopCallOutermost
  <2>6. CASE f # 1
    <3>1. /\ By(f) \in Frames /\ frame[By(f)].kind = "async" /\ Live(By(f))
          /\ frame'[n].loop = frame[By(f)].loop
      BY <2>2, <2>3, <2>4, <2>6, OneLoopCallAsync
    <3>2. \E y \in Frames :
             frame[y].kind = "async" /\ Live(y) /\ frame'[n].loop = frame[y].loop
      BY <3>1
    <3> QED
      BY <2>2, <2>3, <2>6, <3>1, <3>2, OneLoopBorn
  <2> QED
    BY <2>5, <2>6
<1>2. ASSUME NEW f \in Frames, StartLoop(f) PROVE OneLoop'
  <2>1. /\ Kept /\ Stays /\ Steady({f}) /\ SameThread(f) /\ tl' = tl
        /\ frame[f].state \notin {"queued", "blocked", "done"} \union Refusals
        /\ frame'[f].state = "running"
    BY <1>0, <1>2, StartLoopDoes DEF Becomes, Refusals
  <2> QED
    BY <1>0, <2>1, OneLoopTurned
<1>3. ASSUME NEW f \in Frames, CallSensitive(f) PROVE OneLoop'
  <2>1. PICK n : n = New
    OBVIOUS
  <2>2. frame[f].kind = "async"
    BY <1>3 DEF CallSensitive
  <2>3. Chosen(f) \in 0 .. MaxFrames + 1
    BY <1>0, <2>2, ChosenWell, FramesTyped, NumbersTyped DEF Single, None, Executors
  <2>4. /\ Kept /\ Grows /\ frame[f].state = "running" /\ tl' = tl
        /\ frame'[n].parent = f /\ frame'[n].via = "s2a" /\ frame'[n].kind = "sync"
        /\ Refused(f) \/ Submitted(f)
    BY <1>0, <1>3, <2>1, <2>3, CallSensitiveDoes
  <2>5. Frames' = Frames \union {n} /\ n \notin Frames
    BY <2>1, <2>4 DEF Grows
  <2>6. /\ Steady({f}) /\ frame'[f].state \in {"running", "blocked"} /\ SameThread(f)
        /\ ~ Started(n)'
    BY <2>1, <2>4 DEF Refused, Submitted, Steady, Becomes, SameThread, Started, Refusals
  <2> QED
    BY <2>2, <2>4, <2>5, <2>6, OneLoopBorn
<1>4. ASSUME NEW f \in Frames, CallInsensitive(f) PROVE OneLoop'
  <2>1. PICK n : n = New
    OBVIOUS
  <2>2. /\ Kept /\ Grows /\ Steady({f}) /\ frame[f].state = "running" /\ frame[f].kind = "async"
        /\ SameThread(f) /\ tl' = tl /\ frame'[f].state = "blocked"
        /\ frame'[n].parent = f /\ frame'[n].via = "pool" /\ frame'[n].kind = "sync"
        /\ frame'[n].state = "queued"
    BY <1>0, <1>4, <2>1, CallInsensitiveDoes DEF Becomes
  <2>3. Frames' = Frames \union {n} /\ n \notin Frames /\ ~ Started(n)'
    BY <2>1, <2>2 DEF Grows, Started
  <2> QED
    BY <2>2, <2>3, OneLoopBorn
<1>5. ASSUME NEW f \in Frames, NEW via \in {"task", "fresh"}, CreateTask(f, via)
      PROVE  OneLoop'
  <2>1. PICK n : n = New
    OBVIOUS
  <2>2. /\ Kept /\ Grows /\ Steady({}) /\ frame[f].state = "running" /\ frame[f].kind = "async"
        /\ tl' = tl /\ frame'[n].parent = f /\ frame'[n].via = via /\ frame'[n].kind = "async"
        /\ frame'[n].loop = frame[f].loop
    BY <1>0, <1>5, <2>1, CreateTaskDoes
  <2>3. Frames' = Frames \union {n} /\ n \notin Frames
    BY <2>1, <2>2 DEF Grows
  <2>4. Steady({f}) /\ frame'[f].state = "running" /\ SameThread(f) /\ Live(f)
    BY <2>2 DEF Steady, SameThread, Live, Refusals
  <2> QED
    BY <2>2, <2>3, <2>4, OneLoopBorn
<1>6. ASSUME NEW f \in Frames, Join(f) PROVE OneLoop'
  <2>1. /\ Kept /\ Stays /\ Steady({f}) /\ SameThread(f) /\ tl' = tl
        /\ frame[f].state \notin {"queued", "blocked", "done"} \union Refusals
        /\ frame'[f].state = "joining"
    BY <1>0, <1>6, JoinDoes DEF Becomes, Refusals
  <2> QED
    BY <1>0, <2>1, OneLoopTurned
<1>7. ASSUME NEW f \in Frames, Joined(f) PROVE OneLoop'
  <2>1. /\ Kept /\ Stays /\ Steady({f}) /\ SameThread(f) /\ tl' = tl
        /\ frame[f].state \notin {"queued", "blocked", "done"} \union Refusals
        /\ frame'[f].state = "running"
    BY <1>0, <1>7, JoinedDoes DEF Becomes, Refusals
  <2> QED
    BY <1>0, <2>1, OneLoopTurned
<1>8. ASSUME NEW f \in Frames, RunLoop(f) PROVE OneLoop'
  <2>1. PICK n : n = New
    OBVIOUS
  <2>2. n \in Frames' /\ frame'[n].via = "run"
    BY <1>0, <1>8, <2>1, RunLoopDoes DEF Grows
  <2> QED
    BY <2>2 DEF Freely, Uses
<1>9. ASSUME NEW f \in Frames, Return(f) PROVE OneLoop'
  <2>1. /\ Kept /\ Stays /\ Steady({f}) /\ SameThread(f) /\ tl' = tl
        /\ frame[f].state = "running" /\ frame'[f].state \in {"done", "returned"}
    BY <1>0, <1>9, ReturnDoes DEF Becomes, Ending
  <2>2. \A x \in Frames : Live(x)' => Live(x)
    <3>1. Live(f)
      BY <2>1 DEF Live, Refusals
    <3> QED
      BY <2>1, <3>1, LiveKept
  <2>3. \A x \in Frames : frame[x].kind = "sync" /\ Started(x)' => Started(x) /\ SameThread(x)
    BY <2>1 DEF Started, Kept, Steady, SameThread, Refusals
  <2>4. frame'[1].state # "blocked" => frame[1].state # "blocked"
    BY <1>0, <2>1 DEF Steady
  <2>5. ASSUME frame[1].kind = "sync", ~ Freely, NEW c \in Frames, Outermost(c),
               frame'[c].state = "returned", frame[c].state # "returned"
        PROVE  \A x \in Frames \ {1, c} : ~ Live(x)'
    <3>1. c = f
      BY <2>1, <2>5 DEF Steady
    <3>2. \A x \in Frames \ {1, c} : ~ Live(x)
      BY <1>9, <2>1, <2>5, <3>1, LoopReturn DEF Return
    <3> QED
      BY <2>2, <3>2
  <2> QED
    BY <2>1, <2>2, <2>3, <2>4, <2>5, OneLoopKept
<1>10. ASSUME NEW f \in Frames, NEW g \in Frames, ReturnAsync(f, g) PROVE OneLoop'
  <2>1. f # g /\ By(g) = f
    BY <1>10 DEF ReturnAsync, Structure, Tree, BornWell, By
  <2>2. /\ Kept /\ Stays /\ Steady({f, g}) /\ SameThread(f) /\ SameThread(g) /\ tl' = tl
        /\ frame[g].state = "returned" /\ frame[g].via \notin {"outer", "task", "fresh"}
        /\ frame'[g].state = "done" /\ frame'[f].state = "running"
    <3>1. Typed /\ f # g /\ ReturnAsync(f, g)
      BY <1>0, <1>10, <2>1
    <3> QED
      BY <3>1, ReturnAsyncDoes DEF Becomes
  <2> QED
    BY <1>0, <2>1, <2>2, OneLoopReturned
<1>11. ASSUME NEW f \in Frames, NEW g \in Frames, ReturnSync(f, g) PROVE OneLoop'
  <2>1. f # g /\ By(g) = f
    BY <1>11 DEF ReturnSync, Structure, Tree, BornWell, By
  <2>2. /\ Kept /\ Stays /\ Steady({f, g}) /\ SameThread(f) /\ SameThread(g) /\ tl' = tl
        /\ frame[g].state = "returned" /\ frame[g].via \notin {"outer", "task", "fresh"}
        /\ frame'[g].state = "done" /\ frame'[f].state = "running"
    <3>1. Typed /\ f # g /\ ReturnSync(f, g)
      BY <1>0, <1>11, <2>1
    <3> QED
      BY <3>1, ReturnSyncDoes DEF Becomes
  <2> QED
    BY <1>0, <2>1, <2>2, OneLoopReturned
<1>12. ASSUME NEW f \in Frames, NEW g \in Frames, ReturnLoop(f, g) PROVE OneLoop'
  <2>1. f # g /\ By(g) = f
    BY <1>12 DEF ReturnLoop, Structure, Tree, BornWell, By
  <2>2. /\ Kept /\ Stays /\ Steady({f, g}) /\ SameThread(f) /\ SameThread(g) /\ tl' = tl
        /\ frame[g].state = "returned" /\ frame[g].via \notin {"outer", "task", "fresh"}
        /\ frame'[g].state = "done" /\ frame'[f].state = "running"
    <3>1. Typed /\ f # g /\ ReturnLoop(f, g)
      BY <1>0, <1>12, <2>1
    <3> QED
      BY <3>1, ReturnLoopDoes DEF Becomes
  <2> QED
    BY <1>0, <2>1, <2>2, OneLoopReturned
<1>13. ASSUME NEW t \in Threads, NEW f \in Frames, StartSync(t, f) PROVE OneLoop'
  BY <1>13, OneLoopStartSync
<1>14. CASE UNCHANGED vars
  <2>1. /\ Kept /\ Stays /\ tl' = tl
        /\ \A x \in Frames : frame'[x].state = frame[x].state /\ SameThread(x)
    BY <1>14 DEF vars, Kept, Stays, Frames, SameThread
  <2>2. \A x \in Frames : Live(x)' => Live(x)
    BY <2>1 DEF Live, Refusals
  <2>3. \A x \in Frames : frame[x].kind = "sync" /\ Started(x)' => Started(x) /\ SameThread(x)
    BY <2>1 DEF Started, Refusals
  <2>4. frame'[1].state = frame[1].state
    BY <1>0, <2>1
  <2> QED
    BY <2>1, <2>2, <2>3, <2>4, OneLoopKept
<1>15. Ended => UNCHANGED vars
  BY DEF Ended
<1> QED
  BY <1>1, <1>2, <1>3, <1>4, <1>5, <1>6, <1>7, <1>8, <1>9, <1>10, <1>11, <1>12, <1>13,
     <1>14, <1>15 DEF Next

\* The closest coroutine is the one that called the caller.
LEMMA ClosestCoroutine ==
    ASSUME Structure, NEW f \in Frames, frame[f].via = "a2s", CallingLoop(f) # None
    PROVE  By(f) # 1 /\ CallingLoop(f) = frame[By(By(f))].loop
<1>1. LineageDefined /\ LineageClosed /\ Frames = 1 .. Len(frame) /\ Len(frame) \in Nat
  BY StructureOrdered, LineageUnfolds, LineageIsClosed, FramesTyped DEF Structure
<1>2. PICK p : p = By(f)
  OBVIOUS
<1>3. PICK q : q = By(p)
  OBVIOUS
<1> DEFINE a == {x \in Ancestors(f) : frame[x].kind = "async"}
<1>4. p \in Frames /\ frame[p].kind = "sync" /\ Ancestors(f) = Lineage[p]
  BY <1>2 DEF Structure, Tree, BornWell, Ancestors, By
<1>5. Lineage[p] = {p} \union Lineage[q]
  BY <1>1, <1>3, <1>4 DEF LineageDefined
<1>6. p # 1
  <2> SUFFICES ASSUME p = 1 PROVE FALSE
    OBVIOUS
  <2>1. q = None
    BY <1>1, <1>3 DEF Structure, Tree, BornWell, None
  <2>2. Lineage[q] = {}
    BY <1>1, <2>1 DEF LineageDefined
  <2>3. a = {}
    BY <1>4, <1>5, <2>2
  <2> QED
    BY <2>3 DEF CallingLoop
<1>7. q \in Frames /\ frame[q].kind = "async"
  <2>1. frame[p].via \in Vias
    BY <1>4, FramesTyped, PartsTyped DEF Structure
  <2> QED
    BY <1>3, <1>4, <1>6, <2>1 DEF Structure, Tree, BornWell, Vias
<1>8. q \in Lineage[q] /\ Lineage[q] \subseteq 1 .. q
  BY <1>1, <1>7 DEF LineageClosed
<1>9. q \in a /\ \A y \in a : y <= q /\ y \in Nat
  BY <1>1, <1>4, <1>5, <1>7, <1>8
<1>10. (CHOOSE x \in a : \A y \in a : y <= x) = q
  <2>1. \A x \in a : (\A y \in a : y <= x) => x = q
    BY <1>9
  <2> HIDE DEF a
  <2> QED
    BY <1>9, <2>1
<1> QED
  BY <1>2, <1>3, <1>6, <1>9, <1>10 DEF CallingLoop

LEMMA OneLoopInitial == Init => OneLoop
  BY FirstFrame DEF OneLoop, OneLoopLives, LoopNoted, LoopOfOutermost, LoopPassed, LoopPassedAt,
     Outermost, Pending

\* Until a call forces a new loop, or sync code runs one by hand, one loop is
\* all that lives: AsyncToSync finds it in the threadlocal that thread_handler
\* has set, and runs its coroutine there.
THEOREM LoopKept == Spec => []LoopOfCallStack
<1>1. Structure /\ Structure' /\ LoopsOpen /\ OneLoop /\ [Next]_vars => OneLoop'
  BY OneLoopNext
<1>2. Structure /\ OneLoop => LoopOfCallStack
  <2> SUFFICES ASSUME Structure, OneLoop, ~ Freely PROVE LoopAlways
    BY DEF LoopOfCallStack, Freely
  <2>1. \A f \in Frames : LoopPassedAt(f)
    BY DEF OneLoop, LoopPassed
  <2> QED
    BY <2>1, ClosestCoroutine DEF LoopAlways, LoopPassedAt, By
<1> QED
  BY <1>1, <1>2, OneLoopInitial, StructureInvariant, LoopsOpenInvariant, PTL DEF Spec
=============================================================================
