------------------------- MODULE ContextHandoffProofs -------------------------
(***************************************************************************)
(* Theorems of ContextHandoff, for any values, any depth of calls and any   *)
(* idents of threads: its types, that it implements CallContext, and that   *)
(* unrelated threads stay apart.                                            *)
(***************************************************************************)
EXTENDS ContextHandoff, SequenceTheorems, TLAPS

\* What a context holds, whoever reads it.
Held(ctx) ==
    [x \in {"plain", "local"} |-> IF x = "plain" THEN ctx.plain ELSE ctx.local.data]

\* The storage in a frame's context, if it has data, is its thread's.
Tagged(f) == f.ctx.local.data # Unset => f.ctx.local.tag = f.thread

\* How a frame relates to its caller: while main_wrap has not put its context
\* in the box, the caller's is there; and a plain variable that is unset here
\* is unset in the caller too, since none is ever unset.
Linked(f, caller) ==
    /\ f.via = "given" => f.kind = "sync"
    /\ f.kind = "sync" => f.at = "running"
    /\ f.kind = "async" => f.box = IF f.at = "copied" THEN f.ctx ELSE caller.ctx
    /\ f.via # "given" /\ f.ctx.plain = Unset => caller.ctx.plain = Unset

Shape ==
    /\ stack[1].at = "running"
    /\ \A i \in 1 .. Depth : i < Depth => stack[i].at = "running"
    /\ \A i \in 2 .. Depth : Linked(stack[i], stack[i - 1])

Inv == FlowTypeOK /\ Shape

-----------------------------------------------------------------------------
(* Contexts                                                                 *)

\* What the types say of a frame.
LEMMA FrameTyped ==
    ASSUME FlowTypeOK, NEW i \in 1 .. Depth
    PROVE  /\ stack[i] \in FrameType /\ stack[i].ctx \in Context
           /\ stack[i].box \in Context /\ stack[i].thread \in AllThreads
           /\ Tagged(stack[i])
<1>1. stack \in Seq(FrameType) /\ i \in 1 .. Len(stack)
  BY DEF FlowTypeOK, Depth
<1>2. stack[i] \in FrameType
  BY <1>1
<1> QED
  BY <1>1, <1>2 DEF FlowTypeOK, FrameType, Tagged

\* The code of a frame reads what its context holds.
LEMMA ReadsHeld ==
    ASSUME FlowTypeOK, NEW i \in 1 .. Depth
    PROVE  Reads(i) = Held(stack[i].ctx)
<1>1. Visible(stack[i].ctx.local, stack[i].thread) = stack[i].ctx.local.data
  BY FrameTyped DEF Tagged, Visible
<1> QED
  BY <1>1 DEF Reads, Held

\* Storing keeps data and tags it, unless there is none.
LEMMA StoredIs ==
    ASSUME NEW v \in Content, NEW t \in AllThreads
    PROVE  /\ Stored(v, t) \in Storage /\ Stored(v, t).data = v
           /\ v # Unset => Stored(v, t).tag = t
BY DEF Stored, Storage, AllThreads

\* _restore_context moves what a context holds, for the thread it restores in,
\* and leaves alone a plain variable that is not set.
LEMMA RestoredIs ==
    ASSUME NEW c \in Context, NEW onto \in Context, NEW t \in AllThreads,
           c.plain = Unset => onto.plain = Unset
    PROVE  /\ Restored(c, onto, t) \in Context
           /\ Restored(c, onto, t).local.data # Unset => Restored(c, onto, t).local.tag = t
           /\ Held(Restored(c, onto, t)) = Held(c)
<1> DEFINE r == Restored(c, onto, t)
<1>1. /\ c.plain \in Content /\ onto.plain \in Content /\ c.local.data \in Content
  BY DEF Context, Storage
<1>2. r.local = Stored(c.local.data, t) /\ r.plain = c.plain
  BY DEF Restored
<1>3. r \in Context
  BY <1>1, StoredIs DEF Restored, Context
<1>4. Held(r) = Held(c)
  BY <1>1, <1>2, StoredIs DEF Held
<1> QED
  BY <1>1, <1>2, <1>3, <1>4, StoredIs

-----------------------------------------------------------------------------
(* The stack                                                                *)

\* What the abstract specification sees of the flow: what the calls under way
\* keep, and what the user's own context holds.
Saved == [i \in 1 .. Depth - 1 |-> [how |-> stack[i + 1].via, was |-> Reads(i)]]
Given == [x \in {"plain", "local"} |-> IF x = "plain" THEN given.plain ELSE given.data]

Vias == {"outer", "plain", "posted", "given"}
Entries == [how : Vias, was : [{"plain", "local"} -> Content]]

\* What a frame leaves for the abstract specification to see.
LEMMA EntryTyped ==
    ASSUME FlowTypeOK, NEW i \in 1 .. Depth, NEW v \in Vias
    PROVE  [how |-> v, was |-> Reads(i)] \in Entries
<1>1. /\ stack[i].ctx.plain \in Content /\ stack[i].ctx.local.data \in Content
      /\ Reads(i) = Held(stack[i].ctx)
  BY FrameTyped, ReadsHeld DEF Context, Storage
<1>2. Held(stack[i].ctx) \in [{"plain", "local"} -> Content]
  BY <1>1 DEF Held
<1> QED
  BY <1>1, <1>2 DEF Entries

\* A function on 1 .. n is a sequence.
LEMMA FunctionIsSeq ==
    ASSUME NEW n \in Nat, NEW S, NEW s \in [1 .. n -> S]
    PROVE  s \in Seq(S) /\ Len(s) = n
<1>1. s \in Seq(S)
  BY SeqDef
<1> QED
  BY <1>1, LenProperties

\* A sequence given element by element is the result of Append.
LEMMA AppendIs ==
    ASSUME NEW S, NEW s \in Seq(S), NEW e \in S, NEW t \in Seq(S),
           Len(t) = Len(s) + 1, t[Len(t)] = e, \A i \in 1 .. Len(s) : t[i] = s[i]
    PROVE  t = Append(s, e)
<1>1. Append(s, e) \in Seq(S) /\ Len(Append(s, e)) = Len(s) + 1
  OBVIOUS
<1>2. \A i \in 1 .. Len(t) : Append(s, e)[i] = t[i]
  OBVIOUS
<1> QED
  BY <1>1, <1>2

\* A call puts a frame on top.
LEMMA PushKeeps ==
    ASSUME Inv, Running, Room, NEW f \in FrameType, Tagged(f), Linked(f, Top),
           f.at = "running",
           stack' = Append(stack, f), UNCHANGED <<given, aliens>>
    PROVE  /\ Inv' /\ Depth' = Depth + 1 /\ Top' = f
           /\ Saved' = Append(Saved, [how |-> f.via, was |-> Reads(Depth)])
<1> USE DEF Inv
<1>1. /\ stack \in Seq(FrameType) /\ Depth \in Nat /\ Depth >= 1
      /\ Depth = Len(stack)
  BY DEF FlowTypeOK, Depth
<1>2. /\ stack' \in Seq(FrameType) /\ Len(stack') = Depth + 1
      /\ stack'[Depth + 1] = f
      /\ \A i \in 1 .. Depth : stack'[i] = stack[i]
  BY <1>1
<1>3. Depth' = Depth + 1 /\ Top' = f
  BY <1>2 DEF Depth, Top
<1>4. FlowTypeOK'
  <2>1. ASSUME NEW i \in 1 .. Depth + 1, stack'[i].ctx.local.data # Unset
        PROVE  stack'[i].ctx.local.tag = stack'[i].thread
    <3>1. CASE i = Depth + 1  BY <1>2, <2>1, <3>1 DEF Tagged
    <3>2. CASE i # Depth + 1
      <4>1. i \in 1 .. Depth  BY <1>1, <3>2
      <4> QED  BY <1>1, <1>2, <2>1, <4>1 DEF FlowTypeOK
    <3> QED  BY <3>1, <3>2
  <2>2. Len(stack') + Len(aliens') <= MaxFrames /\ Len(stack') \in 1 .. MaxFrames
    BY <1>1, <1>2, HandoffAssumption DEF FlowTypeOK, Room
  <2> QED  BY <1>2, <2>1, <2>2 DEF FlowTypeOK
<1>5. Shape'
  <2>1. ASSUME NEW i \in 2 .. Depth + 1
        PROVE  Linked(stack'[i], stack'[i - 1])
    <3>1. CASE i = Depth + 1
      <4>1. stack'[i - 1] = Top  BY <1>1, <1>2, <3>1 DEF Top
      <4> QED  BY <1>2, <3>1, <4>1
    <3>2. CASE i # Depth + 1
      <4>1. i \in 2 .. Depth /\ i - 1 \in 1 .. Depth /\ i \in 1 .. Depth  BY <1>1, <3>2
      <4> QED  BY <1>2, <4>1 DEF Shape
    <3> QED  BY <3>1, <3>2
  <2>2. \A i \in 1 .. Depth : stack'[i].at = "running"
    BY <1>1, <1>2 DEF Shape, Running, Top
  <2> QED  BY <1>1, <1>2, <1>3, <2>1, <2>2 DEF Shape
<1>6. Saved' = Append(Saved, [how |-> f.via, was |-> Reads(Depth)])
  <2>1. \A i \in 1 .. Depth : Reads(i)' = Reads(i)
    BY <1>2 DEF Reads
  <2>2. Saved' = [i \in 1 .. Depth |-> [how |-> stack'[i + 1].via, was |-> Reads(i)]]
    BY <1>1, <1>3, <2>1 DEF Saved
  <2>3. \A i \in 1 .. Depth - 1 : stack'[i + 1].via = stack[i + 1].via
    BY <1>1, <1>2
  <2> DEFINE e == [how |-> f.via, was |-> Reads(Depth)]
  <2>4. \A i \in 1 .. Depth + 1 : stack'[i].via \in Vias
    <3>1. \A i \in 1 .. Depth + 1 : stack'[i] \in FrameType
      BY <1>2, ElementOfSeq
    <3> QED  BY <3>1 DEF FrameType, Vias
  <2>5. e \in Entries
    BY <1>1, <1>2, <2>4, EntryTyped
  <2>6. \A i \in 1 .. Depth : i + 1 \in 1 .. Depth + 1
    BY <1>1
  <2>7. Saved' \in [1 .. Depth -> Entries]
    BY <2>2, <2>4, <2>6, EntryTyped
  <2>8. Saved = [i \in 1 .. Depth - 1 |-> [how |-> stack'[i + 1].via, was |-> Reads(i)]]
    BY <2>3 DEF Saved
  <2>9. Saved \in [1 .. Depth - 1 -> Entries]
    BY <1>1, <2>2, <2>7, <2>8
  <2>10. /\ Saved' \in Seq(Entries) /\ Len(Saved') = Depth
         /\ Saved \in Seq(Entries) /\ Len(Saved) = Depth - 1
    <3>1. Depth - 1 \in Nat  BY <1>1
    <3>2. Saved' \in Seq(Entries) /\ Len(Saved') = Depth
      BY <1>1, <2>7, FunctionIsSeq
    <3>3. Saved \in Seq(Entries) /\ Len(Saved) = Depth - 1
      BY <3>1, <2>9, FunctionIsSeq
    <3> QED  BY <3>2, <3>3
  <2>11. Saved'[Depth] = e /\ \A i \in 1 .. Depth - 1 : Saved'[i] = Saved[i]
    BY <1>1, <1>2, <2>2, <2>8
  <2> HIDE DEF e
  <2> QED  BY <1>1, <2>5, <2>10, <2>11, AppendIs DEF e
<1> QED  BY <1>3, <1>4, <1>5, <1>6

\* Code that runs changes its own frame.
LEMMA TopKeeps ==
    ASSUME Inv, NEW f \in FrameType, Tagged(f), f.via = Top.via,
           Depth = 1 => f.at = "running", Depth > 1 => Linked(f, Caller),
           stack' = [stack EXCEPT ![Depth] = f], UNCHANGED <<given, aliens>>
    PROVE  Inv' /\ Depth' = Depth /\ Top' = f /\ Saved' = Saved
<1> USE DEF Inv
<1>1. stack \in Seq(FrameType) /\ Depth \in Nat /\ Depth >= 1 /\ Depth = Len(stack)
  BY DEF FlowTypeOK, Depth
<1>2. /\ stack' \in Seq(FrameType) /\ Len(stack') = Depth /\ stack'[Depth] = f
      /\ \A i \in 1 .. Depth - 1 : stack'[i] = stack[i]
  BY <1>1, ExceptSeq
<1>3. Depth' = Depth /\ Top' = f
  BY <1>2 DEF Depth, Top
<1>4. FlowTypeOK'
  <2>1. ASSUME NEW i \in 1 .. Depth, stack'[i].ctx.local.data # Unset
        PROVE  stack'[i].ctx.local.tag = stack'[i].thread
    <3>1. CASE i = Depth  BY <1>2, <2>1, <3>1 DEF Tagged
    <3>2. CASE i # Depth
      <4>1. stack'[i] = stack[i]  BY <1>1, <1>2, <3>2
      <4> QED  BY <1>1, <2>1, <4>1 DEF FlowTypeOK
    <3> QED  BY <3>1, <3>2
  <2> QED  BY <1>1, <1>2, <2>1 DEF FlowTypeOK
<1>5. Shape'
  <2>1. ASSUME NEW i \in 2 .. Depth PROVE Linked(stack'[i], stack'[i - 1])
    <3>1. stack'[i - 1] = stack[i - 1]  BY <1>1, <1>2
    <3>2. CASE i = Depth  BY <1>1, <1>2, <3>1, <3>2 DEF Caller
    <3>3. CASE i # Depth
      <4>1. stack'[i] = stack[i]  BY <1>1, <1>2, <3>3
      <4> QED  BY <3>1, <4>1 DEF Shape
    <3> QED  BY <3>2, <3>3
  <2>2. stack'[1].at = "running"
    BY <1>1, <1>2 DEF Shape
  <2>3. \A i \in 1 .. Depth : i < Depth => stack'[i].at = "running"
    BY <1>1, <1>2 DEF Shape
  <2> QED  BY <1>3, <2>1, <2>2, <2>3 DEF Shape
<1>6. Saved' = Saved
  <2>1. \A i \in 1 .. Depth - 1 : Reads(i)' = Reads(i)
    BY <1>1, <1>2 DEF Reads
  <2>2. \A i \in 1 .. Depth - 1 : stack'[i + 1].via = stack[i + 1].via
    BY <1>1, <1>2 DEF Top
  <2> QED  BY <1>3, <2>1, <2>2 DEF Saved
<1> QED  BY <1>3, <1>4, <1>5, <1>6

\* A call returns: its frame is gone and its caller, whose context may have
\* changed, goes on.
LEMMA PopKeeps ==
    ASSUME Inv, Depth > 1, NEW f \in FrameType, Tagged(f),
           f.kind = Caller.kind, f.via = Caller.via, f.at = Caller.at, f.box = Caller.box,
           f.ctx.plain = Unset => Caller.ctx.plain = Unset,
           stack' \in Seq(FrameType), Len(stack') = Depth - 1, stack'[Depth - 1] = f,
           \A i \in 1 .. Depth - 2 : stack'[i] = stack[i],
           given' \in [plain : Content, data : Content], UNCHANGED aliens
    PROVE  /\ Inv' /\ Depth' = Depth - 1 /\ Top' = f
           /\ Saved # <<>> /\ Saved[Len(Saved)] = [how |-> Top.via, was |-> Reads(Depth - 1)]
           /\ Saved' = SubSeq(Saved, 1, Len(Saved) - 1)
<1> USE DEF Inv
<1>1. stack \in Seq(FrameType) /\ Depth \in Nat /\ Depth = Len(stack)
  BY DEF FlowTypeOK, Depth
<1>2. Depth' = Depth - 1 /\ Top' = f
  BY DEF Depth, Top
<1>3. FlowTypeOK'
  <2>1. ASSUME NEW i \in 1 .. Depth - 1, stack'[i].ctx.local.data # Unset
        PROVE  stack'[i].ctx.local.tag = stack'[i].thread
    <3>1. CASE i = Depth - 1  BY <2>1, <3>1 DEF Tagged
    <3>2. CASE i # Depth - 1
      <4>1. stack'[i] = stack[i]  BY <1>1, <3>2
      <4> QED  BY <1>1, <2>1, <4>1 DEF FlowTypeOK
    <3> QED  BY <3>1, <3>2
  <2>2. Len(stack') \in 1 .. MaxFrames /\ Len(stack') + Len(aliens') <= MaxFrames
    BY <1>1, HandoffAssumption DEF FlowTypeOK
  <2> QED  BY <2>1, <2>2 DEF FlowTypeOK
<1>4. Shape'
  <2>1. Caller.at = "running"
    BY <1>1 DEF Shape, Caller
  <2>2. ASSUME NEW i \in 2 .. Depth - 1 PROVE Linked(stack'[i], stack'[i - 1])
    <3>1. stack'[i - 1] = stack[i - 1]  BY <1>1
    <3>2. CASE i = Depth - 1
      <4>1. Linked(Caller, stack[i - 1])  BY <1>1, <3>2 DEF Shape, Caller
      <4> QED  BY <2>1, <3>1, <3>2, <4>1 DEF Linked
    <3>3. CASE i # Depth - 1
      <4>1. stack'[i] = stack[i] /\ i \in 2 .. Depth  BY <1>1, <3>3
      <4>2. Linked(stack[i], stack[i - 1])  BY <4>1 DEF Shape
      <4> QED  BY <3>1, <4>1, <4>2
    <3> QED  BY <3>2, <3>3
  <2>3. \A i \in 1 .. Depth - 1 : stack'[i].at = "running"
    <3>1. \A i \in 1 .. Depth - 2 : stack'[i].at = "running"  BY <1>1 DEF Shape
    <3> QED  BY <1>1, <2>1, <3>1
  <2> QED  BY <1>1, <1>2, <2>2, <2>3 DEF Shape
<1>5. Saved # <<>> /\ Saved[Len(Saved)] = [how |-> Top.via, was |-> Reads(Depth - 1)]
      /\ Saved' = SubSeq(Saved, 1, Len(Saved) - 1)
  <2>1. \A i \in 1 .. Depth : stack[i].via \in Vias
    BY <1>1, FrameTyped DEF FrameType, Vias
  <2>2. \A i \in 1 .. Depth - 1 : i + 1 \in 1 .. Depth /\ i \in 1 .. Depth
    BY <1>1
  <2>3. Saved \in [1 .. Depth - 1 -> Entries]
    BY <2>1, <2>2, EntryTyped DEF Saved
  <2>4. Depth - 1 \in Nat \ {0} /\ Saved \in Seq(Entries) /\ Len(Saved) = Depth - 1
    <3>1. Depth - 1 \in Nat \ {0}  BY <1>1
    <3> QED  BY <2>3, <3>1, FunctionIsSeq
  <2>5. Saved[Len(Saved)] = [how |-> Top.via, was |-> Reads(Depth - 1)]
    BY <1>1, <2>4 DEF Saved, Top
  <2>6. Saved' = [i \in 1 .. Depth - 2 |-> [how |-> stack'[i + 1].via, was |-> Reads(i)']]
    BY <1>1, <1>2 DEF Saved
  <2>7. \A i \in 1 .. Depth - 2 : stack'[i + 1].via = stack[i + 1].via /\ Reads(i)' = Reads(i)
    <3>1. \A i \in 1 .. Depth - 2 : Reads(i)' = Reads(i)  BY DEF Reads
    <3>2. \A i \in 1 .. Depth - 2 : stack'[i + 1].via = stack[i + 1].via
      BY <1>1 DEF Caller
    <3> QED  BY <3>1, <3>2
  <2>8. Saved' = [i \in 1 .. Depth - 2 |-> Saved[i]]
    <3>1. \A i \in 1 .. Depth - 2 : i \in 1 .. Depth - 1  BY <1>1
    <3>2. \A i \in 1 .. Depth - 2 : Saved[i] = [how |-> stack[i + 1].via, was |-> Reads(i)]
      BY <3>1 DEF Saved
    <3> QED  BY <2>6, <2>7, <3>2
  <2>9. Saved # <<>>
    BY <2>4
  <2> QED  BY <1>1, <2>4, <2>5, <2>8, <2>9
<1> QED  BY <1>2, <1>3, <1>4, <1>5

-----------------------------------------------------------------------------
(* Each step keeps the invariant and is a step, or a stutter, of CallContext *)

\* What the types say of the stack and of the frame on top.
LEMMA TopTyped ==
    ASSUME Inv
    PROVE  /\ Depth \in Nat /\ Depth >= 1 /\ stack \in Seq(FrameType) /\ Depth = Len(stack)
           /\ Top \in FrameType /\ Top.ctx \in Context /\ Top.thread \in AllThreads
           /\ Tagged(Top)
           /\ Reads(Depth) = Held(Top.ctx)
           /\ Depth > 1 => Linked(Top, Caller)
<1>1. Depth \in Nat /\ Depth >= 1 /\ stack \in Seq(FrameType) /\ Depth = Len(stack)
  BY DEF Inv, FlowTypeOK, Depth
<1> QED
  BY <1>1, FrameTyped, ReadsHeld DEF Inv, Shape, Top, Caller

\* What the code reads once a frame whose storage is its thread's is on top.
LEMMA NowReads ==
    ASSUME NEW f, Tagged(f), Top' = f
    PROVE  Reads(Depth)' = Held(f.ctx)
<1>1. stack'[Depth'] = f  BY DEF Top
<1>2. Visible(f.ctx.local, f.thread) = f.ctx.local.data
  BY DEF Tagged, Visible
<1> QED
  BY <1>1, <1>2 DEF Reads, Held, Visible

\* Writing the attribute of the Local.
LEMMA SetLocalStep ==
    ASSUME Inv, NEW v \in Content, SetLocal(v)
    PROVE  Inv' /\ Abstract!Write
<1> DEFINE f == [Top EXCEPT !.ctx.local = Stored(v, Top.thread)]
<1>1. \A g \in FrameType, t \in AllThreads :
         LET h == [g EXCEPT !.ctx.local = Stored(v, t)] IN
         /\ h \in FrameType /\ h.kind = g.kind /\ h.via = g.via /\ h.at = g.at
         /\ h.thread = g.thread /\ h.box = g.box
         /\ h.ctx \in Context /\ h.ctx.plain = g.ctx.plain /\ h.ctx.local = Stored(v, t)
  BY StoredIs DEF FrameType, Context
<1>2. /\ f \in FrameType /\ f.kind = Top.kind /\ f.via = Top.via /\ f.at = Top.at
      /\ f.thread = Top.thread /\ f.box = Top.box
      /\ f.ctx.plain = Top.ctx.plain /\ f.ctx.local = Stored(v, Top.thread)
  BY <1>1, TopTyped
<1>3. stack' = [stack EXCEPT ![Depth] = f] /\ UNCHANGED <<given, aliens>> /\ Top.at = "running"
  BY DEF SetLocal, Running, Top
<1> HIDE DEF f
<1>4. Tagged(f) /\ (Depth > 1 => Linked(f, Caller))
  BY <1>2, <1>3, StoredIs, TopTyped DEF Tagged, Linked
<1>5. Inv' /\ Depth' = Depth /\ Top' = f /\ Saved' = Saved
  BY <1>2, <1>3, <1>4, TopKeeps
<1>6. Reads(Depth)' = Held(f.ctx) /\ Given' = Given
  BY <1>3, <1>4, <1>5, NowReads DEF Given
<1>7. Held(f.ctx) = [Held(Top.ctx) EXCEPT !["local"] = v]
  BY <1>2, StoredIs, TopTyped DEF Held
<1>8. \E x \in {"plain", "local"}, w \in Values \union {Unset} :
         Reads(Depth)' = [Reads(Depth) EXCEPT ![x] = w]
  BY <1>6, <1>7, TopTyped DEF Content
<1> QED
  BY <1>5, <1>6, <1>8 DEF Abstract!Write, Saved, Given

\* Setting the plain variable.
LEMMA SetPlainStep ==
    ASSUME Inv, NEW v \in Values, SetPlain(v)
    PROVE  Inv' /\ Abstract!Write
<1> DEFINE f == [Top EXCEPT !.ctx.plain = v]
<1>1. \A g \in FrameType :
         LET h == [g EXCEPT !.ctx.plain = v] IN
         /\ h \in FrameType /\ h.kind = g.kind /\ h.via = g.via /\ h.at = g.at
         /\ h.thread = g.thread /\ h.box = g.box
         /\ h.ctx \in Context /\ h.ctx.plain = v /\ h.ctx.local = g.ctx.local
  BY DEF FrameType, Context, Content
<1>2. /\ f \in FrameType /\ f.kind = Top.kind /\ f.via = Top.via /\ f.at = Top.at
      /\ f.thread = Top.thread /\ f.box = Top.box
      /\ f.ctx.plain = v /\ f.ctx.local = Top.ctx.local
  BY <1>1, TopTyped
<1>3. stack' = [stack EXCEPT ![Depth] = f] /\ UNCHANGED <<given, aliens>> /\ Top.at = "running"
  BY DEF SetPlain, Running, Top
<1> HIDE DEF f
<1>4. Tagged(f) /\ (Depth > 1 => Linked(f, Caller))
  BY <1>2, <1>3, TopTyped, HandoffAssumption DEF Tagged, Linked, Unset
<1>5. Inv' /\ Depth' = Depth /\ Top' = f /\ Saved' = Saved
  BY <1>2, <1>3, <1>4, TopKeeps
<1>6. Reads(Depth)' = Held(f.ctx) /\ Given' = Given
  BY <1>3, <1>4, <1>5, NowReads DEF Given
<1>7. Held(f.ctx) = [Held(Top.ctx) EXCEPT !["plain"] = v]
  BY <1>2 DEF Held
<1>8. \E x \in {"plain", "local"}, w \in Values \union {Unset} :
         Reads(Depth)' = [Reads(Depth) EXCEPT ![x] = w]
  BY <1>6, <1>7, TopTyped
<1> QED
  BY <1>5, <1>6, <1>8 DEF Abstract!Write, Saved, Given

\* main_wrap on its way out: the flow reads what it read.
LEMMA FinishStep ==
    ASSUME Inv, Finish \/ CopyBack
    PROVE  Inv' /\ UNCHANGED <<Reads(Depth), Given, Saved>>
<1>1. PICK f \in FrameType :
         /\ stack' = [stack EXCEPT ![Depth] = f]
         /\ f.kind = Top.kind /\ f.via = Top.via /\ f.thread = Top.thread /\ f.ctx = Top.ctx
         /\ \/ f.at = "result" /\ f.box = Top.box /\ Depth > 1 /\ Top.kind = "async"
                /\ Top.at = "running"
            \/ f.at = "copied" /\ f.box = f.ctx /\ Top.at = "result"
  <2>1. CASE Finish
    <3>1. \A g \in FrameType :
             LET h == [g EXCEPT !.at = "result"] IN
             /\ h \in FrameType /\ h.kind = g.kind /\ h.via = g.via /\ h.at = "result"
             /\ h.thread = g.thread /\ h.box = g.box /\ h.ctx = g.ctx
      BY DEF FrameType
    <3>2. stack' = [stack EXCEPT ![Depth] = [Top EXCEPT !.at = "result"]]
          /\ Depth > 1 /\ Top.kind = "async" /\ Top.at = "running"
      BY <2>1 DEF Finish, Running, Top
    <3> QED  BY <3>1, <3>2, TopTyped
  <2>2. CASE CopyBack
    <3>1. \A g \in FrameType, c \in Context :
             LET h == [[g EXCEPT !.at = "copied"] EXCEPT !.box = c] IN
             /\ h \in FrameType /\ h.kind = g.kind /\ h.via = g.via /\ h.at = "copied"
             /\ h.thread = g.thread /\ h.box = c /\ h.ctx = g.ctx
      BY DEF FrameType
    <3>2. stack' = [stack EXCEPT ![Depth] =
                        [[Top EXCEPT !.at = "copied"] EXCEPT !.box = Top.ctx]]
          /\ Top.at = "result"
      BY <2>2, TopTyped DEF CopyBack, Top
    <3> DEFINE f == [[Top EXCEPT !.at = "copied"] EXCEPT !.box = Top.ctx]
    <3>3. /\ f \in FrameType /\ f.kind = Top.kind /\ f.via = Top.via /\ f.at = "copied"
          /\ f.thread = Top.thread /\ f.box = Top.ctx /\ f.ctx = Top.ctx
      BY <3>1, TopTyped
    <3> HIDE DEF f
    <3> QED  BY <3>2, <3>3 DEF f
  <2> QED  BY <2>1, <2>2
<1>2. UNCHANGED <<given, aliens>>
  BY DEF Finish, CopyBack
<1>3. Depth > 1
  BY <1>1, TopTyped DEF Inv, Shape, Top
<1>4. Tagged(f) /\ Linked(f, Caller)
  BY <1>1, <1>3, TopTyped DEF Tagged, Linked
<1>5. Inv' /\ Depth' = Depth /\ Top' = f /\ Saved' = Saved
  <2>1. Depth # 1  BY <1>3, TopTyped
  <2> QED  BY <1>1, <1>2, <1>3, <1>4, <2>1, TopKeeps
<1>6. Reads(Depth)' = Reads(Depth) /\ Given' = Given
  BY <1>1, <1>2, <1>4, <1>5, NowReads, TopTyped DEF Given
<1> QED
  BY <1>5, <1>6

\* A frame that a call makes.
CalleeFrame(f, kind, via, thread, ctx) ==
    /\ f.kind = kind /\ f.via = via /\ f.thread = thread /\ f.ctx = ctx
    /\ f.at = "running"
    /\ f.box = IF kind = "async" THEN Top.ctx ELSE Empty

\* It is put on top of the stack.
LEMMA PushedIs ==
    ASSUME Inv, NEW kind \in {"sync", "async"}, NEW via \in {"plain", "posted", "given"},
           NEW thread \in AllThreads, NEW ctx \in Context
    PROVE  \E f \in FrameType : /\ CalleeFrame(f, kind, via, thread, ctx)
                               /\ Pushed(kind, via, thread, ctx) = Append(stack, f)
<1> DEFINE f == [kind |-> kind, via |-> via, thread |-> thread, ctx |-> ctx,
                 box |-> IF kind = "async" THEN Top.ctx ELSE Empty, at |-> "running"]
<1>1. Empty \in Context
  BY DEF Empty, Context, Storage, Content, AllThreads, Main
<1>2. f \in FrameType
  BY <1>1, TopTyped DEF FrameType
<1>3. CalleeFrame(f, kind, via, thread, ctx)
  BY DEF CalleeFrame
<1>4. Pushed(kind, via, thread, ctx) = Append(stack, f)
  BY DEF Pushed
<1> QED
  BY <1>2, <1>3, <1>4

\* A call keeps the invariant and is a call of the abstract specification, if
\* its context holds what the flow reads, or what the user's context holds.
LEMMA CallIs ==
    ASSUME Inv, Running, Room, NEW kind \in {"sync", "async"},
           NEW via \in {"plain", "posted", "given"},
           NEW thread \in AllThreads, NEW ctx \in Context,
           stack' = Pushed(kind, via, thread, ctx), UNCHANGED <<given, aliens>>,
           ctx.local.data # Unset => ctx.local.tag = thread,
           via = "given" => kind = "sync" /\ Held(ctx) = Given,
           via # "given" => Held(ctx) = Held(Top.ctx)
    PROVE  Inv' /\ Abstract!Call
<1>1. PICK f \in FrameType : /\ CalleeFrame(f, kind, via, thread, ctx)
                             /\ stack' = Append(stack, f)
  BY PushedIs
<1>2. via # "given" => ctx.plain = Top.ctx.plain
  <2>1. Held(ctx)["plain"] = ctx.plain /\ Held(Top.ctx)["plain"] = Top.ctx.plain
    BY DEF Held
  <2> QED  BY <2>1
<1>3. Tagged(f) /\ Linked(f, Top) /\ f.at = "running" /\ f.via = via
  BY <1>1, <1>2 DEF CalleeFrame, Tagged, Linked
<1>4. /\ Inv' /\ Top' = f
      /\ Saved' = Append(Saved, [how |-> via, was |-> Reads(Depth)])
  BY <1>1, <1>3, PushKeeps
<1>5. Reads(Depth)' = IF via = "given" THEN Given ELSE Reads(Depth)
  BY <1>1, <1>3, <1>4, NowReads, TopTyped DEF CalleeFrame
<1>6. Given' = Given
  BY DEF Given
<1> HIDE DEF Given, Saved
<1>7. \E how \in {"plain", "posted", "given"} :
         /\ Saved' = Append(Saved, [how |-> how, was |-> Reads(Depth)])
         /\ Reads(Depth)' = IF how = "given" THEN Given ELSE Reads(Depth)
  BY <1>4, <1>5
<1> QED
  BY <1>4, <1>6, <1>7 DEF Abstract!Call, Abstract!Hows, Saved, Given

LEMMA CallAsyncStep ==
    ASSUME Inv, CallAsync
    PROVE  Inv' /\ Abstract!Call
<1>1. Running /\ Room /\ UNCHANGED <<given, aliens>>
  BY DEF CallAsync
<1>2. CASE Depth > 1 /\ stack' = Pushed("async", "posted", Caller.thread,
                                       Restored(Top.ctx, Top.ctx, Caller.thread))
  <2>1. Caller.thread \in AllThreads
    BY <1>2, TopTyped, FrameTyped DEF Inv, Caller
  <2> DEFINE ctx == Restored(Top.ctx, Top.ctx, Caller.thread)
  <2>2. /\ ctx \in Context /\ (ctx.local.data # Unset => ctx.local.tag = Caller.thread)
        /\ Held(ctx) = Held(Top.ctx)
    BY <2>1, TopTyped, RestoredIs
  <2> HIDE DEF ctx
  <2> QED  BY <1>1, <1>2, <2>1, <2>2, CallIs DEF ctx
<1>3. ASSUME NEW t \in Free, stack' = Pushed("async", "plain", t, Restored(Top.ctx, Empty, t))
      PROVE  Inv' /\ Abstract!Call
  <2>1. t \in AllThreads
    BY DEF Free, AllThreads
  <2>2. Empty \in Context /\ Empty.plain = Unset
    BY DEF Empty, Context, Storage, Content, AllThreads, Main
  <2> DEFINE ctx == Restored(Top.ctx, Empty, t)
  <2>3. /\ ctx \in Context /\ (ctx.local.data # Unset => ctx.local.tag = t)
        /\ Held(ctx) = Held(Top.ctx)
    BY <2>1, <2>2, TopTyped, RestoredIs
  <2> HIDE DEF ctx
  <2> QED  BY <1>1, <1>3, <2>1, <2>3, CallIs DEF ctx
<1> QED
  BY <1>2, <1>3 DEF CallAsync

\* Work runs in a thread there is.
LEMMA WorkerTyped ==
    ASSUME Inv, Room, NEW t \in WorkerThreads
    PROVE  t \in AllThreads
<1>1. CASE t = Worker(Depth)
  <2>1. Depth \in 1 .. MaxFrames
    BY TopTyped, HandoffAssumption DEF Inv, FlowTypeOK, Room
  <2> QED  BY <1>1, <2>1 DEF AllThreads
<1>2. CASE t # Worker(Depth)
  <2>1. \E i \in 1 .. Depth : t = stack[i].thread
    BY <1>2 DEF WorkerThreads, Callee
  <2> QED  BY <2>1, FrameTyped DEF Inv
<1> QED
  BY <1>1, <1>2

LEMMA CallSyncStep ==
    ASSUME Inv, CallSync
    PROVE  Inv' /\ Abstract!Call
<1>1. Running /\ Room /\ UNCHANGED <<given, aliens>>
  BY DEF CallSync
<1>2. PICK t \in WorkerThreads :
         stack' = Pushed("sync", "plain", t, Restored(Top.ctx, Top.ctx, t))
  BY DEF CallSync
<1>3. t \in AllThreads
  BY <1>1, WorkerTyped
<1> DEFINE ctx == Restored(Top.ctx, Top.ctx, t)
<1>4. /\ ctx \in Context /\ (ctx.local.data # Unset => ctx.local.tag = t)
      /\ Held(ctx) = Held(Top.ctx)
  BY <1>3, TopTyped, RestoredIs
<1> HIDE DEF ctx
<1> QED
  BY <1>1, <1>2, <1>3, <1>4, CallIs DEF ctx

LEMMA CallGivenStep ==
    ASSUME Inv, CallGiven
    PROVE  Inv' /\ Abstract!Call
<1>1. Running /\ Room /\ UNCHANGED <<given, aliens>>
  BY DEF CallGiven
<1>2. PICK t \in WorkerThreads :
         stack' = Pushed("sync", "given", t,
                         [plain |-> given.plain, local |-> Stored(given.data, t)])
  BY DEF CallGiven
<1>3. t \in AllThreads
  BY <1>1, WorkerTyped
<1>4. given.plain \in Content /\ given.data \in Content
  BY DEF Inv, FlowTypeOK
<1> DEFINE ctx == [plain |-> given.plain, local |-> Stored(given.data, t)]
<1>5. /\ ctx \in Context /\ (ctx.local.data # Unset => ctx.local.tag = t)
      /\ Held(ctx) = Given
  BY <1>3, <1>4, StoredIs DEF Held, Given, Context
<1> HIDE DEF ctx
<1> QED
  BY <1>1, <1>2, <1>3, <1>5, CallIs DEF ctx

\* The stack without its top.
LEMMA PoppedIs ==
    ASSUME Inv, Depth > 1
    PROVE  /\ Popped \in Seq(FrameType) /\ Len(Popped) = Depth - 1
           /\ \A i \in 1 .. Depth - 1 : Popped[i] = stack[i]
           /\ Caller \in FrameType /\ Caller.ctx \in Context /\ Caller.thread \in AllThreads
           /\ Tagged(Caller) /\ Reads(Depth - 1) = Held(Caller.ctx)
<1>1. Depth \in Nat /\ stack \in Seq(FrameType) /\ Depth = Len(stack)
  BY TopTyped
<1>2. Depth - 1 \in 1 .. Depth
  BY <1>1
<1> QED
  BY <1>1, <1>2, FrameTyped, ReadsHeld DEF Popped, Caller, Inv

\* A call returns and a context is restored in its caller's.
LEMMA ResumeIs ==
    ASSUME Inv, Depth > 1, NEW ctx \in Context,
           ctx.plain = Unset => Caller.ctx.plain = Unset,
           stack' = Resumed(ctx),
           given' \in [plain : Content, data : Content], UNCHANGED aliens
    PROVE  /\ Inv'
           /\ Saved # <<>> /\ Saved[Len(Saved)] = [how |-> Top.via, was |-> Reads(Depth - 1)]
           /\ Saved' = SubSeq(Saved, 1, Len(Saved) - 1)
           /\ Reads(Depth)' = Held(ctx)
<1> DEFINE r == Restored(ctx, Caller.ctx, Caller.thread)
           f == [Caller EXCEPT !.ctx = r]
<1>1. /\ r \in Context /\ (r.local.data # Unset => r.local.tag = Caller.thread)
      /\ Held(r) = Held(ctx) /\ r.plain = ctx.plain
  <2>1. /\ r \in Context /\ (r.local.data # Unset => r.local.tag = Caller.thread)
        /\ Held(r) = Held(ctx)
    BY PoppedIs, RestoredIs
  <2>2. r.plain = ctx.plain
    BY DEF Restored
  <2> QED  BY <2>1, <2>2
<1> HIDE DEF r
<1>2. \A g \in FrameType, c \in Context :
         LET h == [g EXCEPT !.ctx = c] IN
         /\ h \in FrameType /\ h.kind = g.kind /\ h.via = g.via /\ h.at = g.at
         /\ h.thread = g.thread /\ h.box = g.box /\ h.ctx = c
  BY DEF FrameType
<1>3. /\ f \in FrameType /\ f.kind = Caller.kind /\ f.via = Caller.via /\ f.at = Caller.at
      /\ f.thread = Caller.thread /\ f.box = Caller.box /\ f.ctx = r
  BY <1>1, <1>2, PoppedIs
<1>4. stack' = [Popped EXCEPT ![Depth - 1] = f]
  <2>1. Depth - 1 \in 1 .. Len(Popped) /\ Popped[Depth - 1] = Caller
    BY PoppedIs, TopTyped DEF Caller
  <2> QED  BY <2>1 DEF Resumed, r
<1> HIDE DEF f
<1>5. /\ stack' \in Seq(FrameType) /\ Len(stack') = Depth - 1 /\ stack'[Depth - 1] = f
      /\ \A i \in 1 .. Depth - 2 : stack'[i] = stack[i]
  <2>1. Depth - 1 \in 1 .. Len(Popped) /\ Depth \in Nat
    BY PoppedIs, TopTyped
  <2>2. /\ stack' \in Seq(FrameType) /\ Len(stack') = Depth - 1
        /\ \A j \in 1 .. Depth - 1 : stack'[j] = IF j = Depth - 1 THEN f ELSE Popped[j]
    BY <1>3, <1>4, <2>1, PoppedIs, ExceptSeq
  <2> QED  BY <2>1, <2>2, PoppedIs
<1>6. Tagged(f) /\ (f.ctx.plain = Unset => Caller.ctx.plain = Unset)
  BY <1>1, <1>3 DEF Tagged
<1>7. /\ Inv' /\ Top' = f
      /\ Saved # <<>> /\ Saved[Len(Saved)] = [how |-> Top.via, was |-> Reads(Depth - 1)]
      /\ Saved' = SubSeq(Saved, 1, Len(Saved) - 1)
  BY <1>3, <1>5, <1>6, PopKeeps
<1>8. Reads(Depth)' = Held(ctx)
  BY <1>1, <1>3, <1>6, <1>7, NowReads
<1> QED
  BY <1>7, <1>8

\* The caller of AsyncToSync gets the context of the code, or only its own
\* back if it came for the result before that context was in the box.
LEMMA ReturnAsyncStep ==
    ASSUME Inv, ReturnAsync
    PROVE  Inv' /\ (Abstract!Return \/ Abstract!Lose)
<1>1. /\ stack' = Resumed(Top.box) /\ UNCHANGED <<given, aliens>>
      /\ Top.at = "copied" \/ (Top.at = "result" /\ Top.via = "posted")
  BY DEF ReturnAsync
<1>2. Depth > 1 /\ Linked(Top, Caller)
  BY <1>1, TopTyped DEF Inv, Shape, Top
<1>3. Top.kind = "async" /\ Top.via # "given"
  BY <1>1, <1>2, TopTyped DEF Linked, FrameType
<1>4. given' \in [plain : Content, data : Content] /\ Given' = Given
  BY <1>1 DEF Inv, FlowTypeOK, Given
<1>5. Top.box \in Context /\ (Top.box.plain = Unset => Caller.ctx.plain = Unset)
  BY <1>1, <1>2, <1>3, TopTyped, PoppedIs DEF Linked
<1>6. /\ Inv'
      /\ Saved # <<>> /\ Saved[Len(Saved)] = [how |-> Top.via, was |-> Reads(Depth - 1)]
      /\ Saved' = SubSeq(Saved, 1, Len(Saved) - 1)
      /\ Reads(Depth)' = Held(Top.box)
  BY <1>1, <1>2, <1>4, <1>5, ResumeIs
<1>7. CASE Top.at = "copied"
  <2>1. Reads(Depth)' = Reads(Depth)
    BY <1>2, <1>3, <1>6, <1>7, TopTyped DEF Linked
  <2>2. Saved[Len(Saved)].how # "given"
    BY <1>3, <1>6
  <2> QED
    BY <1>4, <1>6, <2>1, <2>2 DEF Abstract!Return, Abstract!Back, Abstract!Top, Saved, Given
<1>8. CASE Top.at = "result" /\ Top.via = "posted"
  <2>1. Reads(Depth)' = Saved[Len(Saved)].was
    BY <1>2, <1>3, <1>6, <1>8, PoppedIs DEF Linked
  <2>2. Saved[Len(Saved)].how = "posted"
    BY <1>6, <1>8
  <2> QED
    BY <1>4, <1>6, <2>1, <2>2 DEF Abstract!Lose, Abstract!Back, Abstract!Top, Saved, Given
<1> QED
  BY <1>1, <1>6, <1>7, <1>8

\* What the user's context gets holds what the flow reads.
LEMMA TopHolds ==
    ASSUME Inv
    PROVE  /\ TopContent \in [plain : Content, data : Content]
           /\ Reads(Depth) = [x \in {"plain", "local"} |->
                                 IF x = "plain" THEN TopContent.plain ELSE TopContent.data]
<1>1. Top.ctx.plain \in Content /\ Top.ctx.local.data \in Content
  BY TopTyped DEF Context, Storage
<1> QED
  BY <1>1, TopTyped DEF TopContent, Held

\* The caller of SyncToAsync gets the context of the code, or its own back if
\* the code ran in the user's.
LEMMA ReturnSyncStep ==
    ASSUME Inv, ReturnSync
    PROVE  Inv' /\ (Abstract!Return \/ Abstract!ReturnGiven)
<1>1. Depth > 1 /\ Linked(Top, Caller) /\ UNCHANGED aliens
  BY TopTyped DEF ReturnSync
<1>2. CASE Top.via = "given"
  <2>1. stack' = Popped /\ given' = TopContent
    BY <1>2 DEF ReturnSync
  <2>2. Depth - 1 \in 1 .. Depth - 1 /\ \A i \in 1 .. Depth - 2 : i \in 1 .. Depth - 1
    BY <1>1, TopTyped
  <2>3. /\ Inv' /\ Top' = Caller
        /\ Saved # <<>> /\ Saved[Len(Saved)] = [how |-> Top.via, was |-> Reads(Depth - 1)]
        /\ Saved' = SubSeq(Saved, 1, Len(Saved) - 1)
    <3>1. stack'[Depth - 1] = Caller /\ \A i \in 1 .. Depth - 2 : stack'[i] = stack[i]
      BY <1>1, <2>1, <2>2, PoppedIs DEF Caller
    <3> QED  BY <1>1, <2>1, <3>1, PoppedIs, PopKeeps, TopHolds
  <2>4. Reads(Depth)' = Saved[Len(Saved)].was
    BY <1>1, <2>3, NowReads, PoppedIs
  <2>5. Given' = Reads(Depth)
    BY <2>1, TopHolds DEF Given
  <2>6. Saved[Len(Saved)].how = "given"
    BY <1>2, <2>3
  <2> QED
    BY <2>3, <2>4, <2>5, <2>6
       DEF Abstract!ReturnGiven, Abstract!Back, Abstract!Top, Saved, Given
<1>3. CASE Top.via # "given"
  <2>1. stack' = Resumed(Top.ctx) /\ given' = given
    BY <1>3 DEF ReturnSync
  <2>2. given' \in [plain : Content, data : Content] /\ Given' = Given
    BY <2>1 DEF Inv, FlowTypeOK, Given
  <2>3. Top.ctx \in Context /\ (Top.ctx.plain = Unset => Caller.ctx.plain = Unset)
    BY <1>1, <1>3, TopTyped DEF Linked
  <2>4. /\ Inv'
        /\ Saved # <<>> /\ Saved[Len(Saved)] = [how |-> Top.via, was |-> Reads(Depth - 1)]
        /\ Saved' = SubSeq(Saved, 1, Len(Saved) - 1)
        /\ Reads(Depth)' = Held(Top.ctx)
    BY <1>1, <2>1, <2>2, <2>3, ResumeIs
  <2>5. Reads(Depth)' = Reads(Depth) /\ Saved[Len(Saved)].how # "given"
    BY <1>3, <2>4, TopTyped
  <2> QED
    BY <2>2, <2>4, <2>5 DEF Abstract!Return, Abstract!Back, Abstract!Top, Saved, Given
<1> QED
  BY <1>2, <1>3

\* Steps that leave the stack alone: the user takes a copy of the context, and
\* unrelated threads start, write, call and end.
LEMMA GiveStep ==
    ASSUME Inv, Give
    PROVE  Inv' /\ Abstract!Give
<1>1. given' = TopContent /\ UNCHANGED <<stack, aliens>>
  BY DEF Give
<1>2. Inv'
  BY <1>1, TopHolds DEF Inv, FlowTypeOK, Shape, Depth
<1>3. UNCHANGED <<Reads(Depth), Saved>>
  BY <1>1 DEF Reads, Saved, Depth
<1>4. Given' = Reads(Depth)
  BY <1>1, TopHolds DEF Given
<1> QED
  BY <1>2, <1>3, <1>4 DEF Abstract!Give, Saved, Given

Stutters == Inv' /\ UNCHANGED <<Reads(Depth), Given, Saved>>

LEMMA AlienStep ==
    ASSUME Inv, UNCHANGED <<stack, given>>,
           aliens' \in Seq(AlienType), Len(stack) + Len(aliens') <= MaxFrames
    PROVE  Stutters
<1>1. Inv'
  BY DEF Inv, FlowTypeOK, Shape, Depth, Linked, Caller
<1>2. UNCHANGED <<Reads(Depth), Given, Saved>>
  BY DEF Reads, Given, Saved, Depth
<1> QED
  BY <1>1, <1>2 DEF Stutters

LEMMA StartStep ==
    ASSUME Inv, NEW data \in BOOLEAN, NEW tag \in AllThreads, Start(data, tag)
    PROVE  Stutters
<1>1. PICK t \in Free :
         aliens' = Append(aliens, [thread |-> t, data |-> data, tag |-> tag,
                                   how |-> "inherited"])
  BY DEF Start
<1>2. [thread |-> t, data |-> data, tag |-> tag, how |-> "inherited"] \in AlienType
  BY DEF AlienType, Free
<1>3. aliens' \in Seq(AlienType) /\ Len(aliens') = Len(aliens) + 1
  BY <1>1, <1>2 DEF Inv, FlowTypeOK
<1>4. Len(stack) + Len(aliens') <= MaxFrames
  BY <1>3, HandoffAssumption DEF Start, Room, Inv, FlowTypeOK, Depth
<1> QED
  BY <1>3, <1>4, AlienStep DEF Start

LEMMA AliensStep ==
    ASSUME Inv, NEW a \in DOMAIN aliens,
           StartFromAlien(a) \/ AlienSets(a) \/ AlienCalls(a) \/ AlienEnds(a)
    PROVE  Stutters
<1>1. /\ aliens \in Seq(AlienType) /\ a \in 1 .. Len(aliens) /\ aliens[a] \in AlienType
      /\ Len(stack) + Len(aliens) <= MaxFrames
  BY DEF Inv, FlowTypeOK
<1>2. /\ aliens[a].data \in BOOLEAN /\ aliens[a].tag \in AllThreads
      /\ aliens[a].thread \in AllThreads
  BY <1>1 DEF AlienType, AllThreads
<1>3. CASE StartFromAlien(a)
  BY <1>2, <1>3, StartStep DEF StartFromAlien
<1>4. ASSUME NEW d \in BOOLEAN, NEW w \in {"own", "moved"},
             aliens' = [aliens EXCEPT ![a] = [[[aliens[a] EXCEPT !.data = d]
                                                  EXCEPT !.tag = aliens[a].thread]
                                                  EXCEPT !.how = w]],
             UNCHANGED <<stack, given>>
      PROVE  Stutters
  <2>1. \A g \in AlienType, t \in AllThreads :
           [[[g EXCEPT !.data = d] EXCEPT !.tag = t] EXCEPT !.how = w] \in AlienType
    BY DEF AlienType
  <2> DEFINE h == [[[aliens[a] EXCEPT !.data = d]
                       EXCEPT !.tag = aliens[a].thread] EXCEPT !.how = w]
  <2>2. h \in AlienType
    BY <1>1, <1>2, <2>1
  <2> HIDE DEF h
  <2>3. aliens' \in Seq(AlienType) /\ Len(aliens') = Len(aliens)
    BY <1>1, <1>4, <2>2, ExceptSeq DEF h
  <2> QED  BY <1>1, <1>4, <2>3, AlienStep
<1>5. CASE AlienSets(a)
  BY <1>4, <1>5 DEF AlienSets
<1>6. CASE AlienCalls(a)
  <2>1. aliens[a].data = TRUE /\ UNCHANGED <<stack, given>>
    BY <1>6, <1>2 DEF AlienCalls
  <2>2. \A g \in AlienType, t \in AllThreads :
           g.data = TRUE => [g EXCEPT !.tag = t, !.how = "moved"]
                            = [[[g EXCEPT !.data = TRUE] EXCEPT !.tag = t] EXCEPT !.how = "moved"]
    BY DEF AlienType
  <2>3. aliens' = [aliens EXCEPT ![a] = [aliens[a] EXCEPT !.tag = aliens[a].thread,
                                                          !.how = "moved"]]
    BY <1>6 DEF AlienCalls
  <2> QED  BY <1>1, <1>2, <1>4, <2>1, <2>2, <2>3
<1>7. CASE AlienEnds(a)
  <2>1. aliens' = SubSeq(aliens, 1, a - 1) \o SubSeq(aliens, a + 1, Len(aliens))
        /\ UNCHANGED <<stack, given>>
    BY <1>7 DEF AlienEnds
  <2> DEFINE before == SubSeq(aliens, 1, a - 1)
             after == SubSeq(aliens, a + 1, Len(aliens))
  <2>2. /\ before \in Seq(AlienType) /\ Len(before) = a - 1
        /\ after \in Seq(AlienType) /\ Len(after) = Len(aliens) - a
    BY <1>1
  <2> HIDE DEF before, after
  <2>3. aliens' \in Seq(AlienType) /\ Len(aliens') = Len(before) + Len(after)
    <3>1. aliens' = before \o after  BY <2>1 DEF before, after
    <3> QED  BY <2>2, <3>1, ConcatProperties
  <2>4. Len(aliens') = Len(aliens) - 1
    BY <1>1, <2>2, <2>3
  <2> QED  BY <1>1, <2>1, <2>3, <2>4, HandoffAssumption, AlienStep DEF Inv, FlowTypeOK
<1> QED
  BY <1>3, <1>5, <1>6, <1>7

-----------------------------------------------------------------------------
LEMMA InitInv == Init => Inv /\ Abstract!Init
<1> SUFFICES ASSUME Init PROVE Inv /\ Abstract!Init
  OBVIOUS
<1>1. PICK k \in {"sync", "async"} :
         stack = <<[kind |-> k, via |-> "outer", thread |-> Main, ctx |-> Empty,
                    box |-> Empty, at |-> "running"]>>
  BY DEF Init
<1>2. Empty \in Context /\ Empty.local.data = Unset /\ Empty.plain = Unset
  BY DEF Empty, Context, Storage, Content, AllThreads, Main
<1>3. [kind |-> k, via |-> "outer", thread |-> Main, ctx |-> Empty,
       box |-> Empty, at |-> "running"] \in FrameType
  BY <1>2 DEF FrameType, AllThreads
<1>4. /\ stack \in Seq(FrameType) /\ Len(stack) = 1 /\ Depth = 1
      /\ stack[1].at = "running" /\ stack[1].ctx = Empty
  BY <1>1, <1>3 DEF Depth
<1>5. FlowTypeOK
  BY <1>2, <1>4, HandoffAssumption DEF Init, FlowTypeOK, Content
<1>6. Inv
  BY <1>4, <1>5 DEF Inv, Shape
<1>7. Reads(Depth) = [x \in {"plain", "local"} |-> Unset] /\ Given = Reads(Depth)
  BY <1>2, <1>4, <1>5, ReadsHeld DEF Held, Given, Init
<1>8. Saved = <<>>
  BY <1>4 DEF Saved
<1> QED
  BY <1>6, <1>7, <1>8 DEF Abstract!Init, Saved, Given

LEMMA NextStep == Inv /\ [Next]_vars => Inv' /\ [Abstract!Next]_(Abstract!vars)
<1> SUFFICES ASSUME Inv, [Next]_vars PROVE Inv' /\ [Abstract!Next]_(Abstract!vars)
  OBVIOUS
<1> USE DEF Abstract!Next
<1>1. ASSUME NEW v \in Content, SetLocal(v)
      PROVE  Inv' /\ [Abstract!Next]_(Abstract!vars)
  BY <1>1, SetLocalStep
<1>2. ASSUME NEW v \in Values, SetPlain(v)
      PROVE  Inv' /\ [Abstract!Next]_(Abstract!vars)
  BY <1>2, SetPlainStep
<1>3. CASE CallAsync   BY <1>3, CallAsyncStep
<1>4. CASE Finish \/ CopyBack
  BY <1>4, FinishStep DEF Abstract!vars, Saved, Given
<1>5. CASE ReturnAsync BY <1>5, ReturnAsyncStep
<1>6. CASE CallSync    BY <1>6, CallSyncStep
<1>7. CASE CallGiven   BY <1>7, CallGivenStep
<1>8. CASE ReturnSync  BY <1>8, ReturnSyncStep
<1>9. CASE Give        BY <1>9, GiveStep
<1>10. CASE StartFromFlow
  <2>1. Top.ctx.local.tag \in AllThreads /\ (Top.ctx.local.data # Unset) \in BOOLEAN
    BY TopTyped DEF Context, Storage
  <2>2. Stutters
    BY <1>10, <2>1, StartStep DEF StartFromFlow
  <2> QED  BY <2>2 DEF Stutters, Abstract!vars, Saved, Given
<1>11. ASSUME NEW a \in DOMAIN aliens,
              StartFromAlien(a) \/ AlienSets(a) \/ AlienCalls(a) \/ AlienEnds(a)
       PROVE  Inv' /\ [Abstract!Next]_(Abstract!vars)
  BY <1>11, AliensStep DEF Stutters, Abstract!vars, Saved, Given
<1>12. CASE UNCHANGED vars
  <2>1. Stutters
    BY <1>12, AlienStep DEF vars, Inv, FlowTypeOK
  <2> QED  BY <2>1 DEF Stutters, Abstract!vars, Saved, Given
<1> QED
  BY <1>1, <1>2, <1>3, <1>4, <1>5, <1>6, <1>7, <1>8, <1>9, <1>10, <1>11, <1>12 DEF Next

BegunTyped == begun \subseteq Idents

\* Whatever calls across the bridge a flow of control makes, the data a frame
\* finds in its context's storage is tagged with the frame's own thread.
THEOREM TypeCorrect == Spec => []TypeOK
<1>1. Init => BegunTyped
  BY DEF Init, BegunTyped
<1>2. BegunTyped /\ [Next]_vars => BegunTyped'
  <2> SUFFICES ASSUME BegunTyped, [Next]_vars PROVE BegunTyped'
    OBVIOUS
  <2>1. UNCHANGED begun \/ \E t \in Free : Begins(t)
    BY DEF Next, vars, SetLocal, SetPlain, CallAsync, Finish, CopyBack, ReturnAsync,
           CallSync, CallGiven, ReturnSync, Give, StartFromFlow, StartFromAlien, Start,
           AlienSets, AlienCalls, AlienEnds
  <2> QED  BY <2>1 DEF Begins, Free, BegunTyped
<1>3. Inv /\ BegunTyped => TypeOK
  BY DEF Inv, TypeOK, BegunTyped
<1> QED
  BY <1>1, <1>2, <1>3, InitInv, NextStep, PTL DEF Spec

\* The copies asgiref makes amount to one context that moves with the flow of
\* control: from any thread, through calls nested to any depth.
THEOREM Implements == Spec => ImplementsCallContext
BY InitInv, NextStep, PTL DEF Spec, ImplementsCallContext, Abstract!Spec

-----------------------------------------------------------------------------
(* Unrelated threads                                                        *)

\* If no ident is given twice, the threads there are, and the threads whose data
\* unrelated ones have a copy of, have begun: their idents are not free.
Known(t) == t \in Idents => t \in begun

\* The same t, after the step.
KnownNext(t) == t \in Idents => t \in begun'

FramesKnown == \A i \in 1 .. Depth : Known(stack[i].thread)

AliensKnown ==
    \A a \in DOMAIN aliens :
        Known(aliens[a].thread) /\ (aliens[a].data => Known(aliens[a].tag))

IsolationInv == FramesKnown /\ AliensKnown /\ InheritedUnseen

\* r is the sequence s without the place a.
Removes(r, s, a) ==
    a \in DOMAIN s /\ r = SubSeq(s, 1, a - 1) \o SubSeq(s, a + 1, Len(s))

Among(r, s) == \A b \in DOMAIN r : \E c \in DOMAIN s : r[b] = s[c]

\* The threads that are left when one ends.
LEMMA RemovedAre ==
    ASSUME NEW S, NEW s \in Seq(S), NEW a, NEW r, Removes(r, s, a)
    PROVE  Among(r, s)
<1> DEFINE n == Len(s)
<1>0. n \in Nat /\ DOMAIN s = 1 .. n /\ a \in 1 .. n
  BY DEF Removes
<1> HIDE DEF n
<1>1. PICK p : p = SubSeq(s, 1, a - 1)
  OBVIOUS
<1>2. PICK q : q = SubSeq(s, a + 1, n)
  OBVIOUS
<1>3. p \in Seq(S) /\ Len(p) = a - 1 /\ \A b \in 1 .. a - 1 : p[b] = s[b]
  <2>1. PICK m \in Int : m = a - 1
    BY <1>0
  <2>2. \A i \in 1 .. m : s[i] \in S
    BY <1>0, <2>1
  <2>3. /\ SubSeq(s, 1, m) \in Seq(S) /\ Len(SubSeq(s, 1, m)) = IF 1 <= m THEN m - 1 + 1 ELSE 0
        /\ \A i \in 1 .. m - 1 + 1 : SubSeq(s, 1, m)[i] = s[1 + i - 1]
    BY <1>0, <2>2, SubSeqProperties
  <2> QED  BY <1>0, <1>1, <2>1, <2>3
<1>4. q \in Seq(S) /\ Len(q) = n - a /\ \A b \in 1 .. n - a : q[b] = s[a + b]
  <2>1. PICK m \in Int : m = a + 1
    BY <1>0
  <2>2. \A i \in m .. n : s[i] \in S
    BY <1>0, <2>1
  <2>3. /\ SubSeq(s, m, n) \in Seq(S) /\ Len(SubSeq(s, m, n)) = IF m <= n THEN n - m + 1 ELSE 0
        /\ \A i \in 1 .. n - m + 1 : SubSeq(s, m, n)[i] = s[m + i - 1]
    BY <1>0, <2>2, SubSeqProperties
  <2> QED  BY <1>0, <1>2, <2>1, <2>3
<1>5. r = p \o q
  BY <1>1, <1>2 DEF Removes, n
<1>6. r \in Seq(S) /\ Len(r) = Len(p) + Len(q)
  BY <1>3, <1>4, <1>5, ConcatProperties
<1>7. DOMAIN r = 1 .. Len(p) + Len(q)
  <2>1. DOMAIN r = 1 .. Len(r)
    BY <1>6
  <2> QED  BY <1>6, <2>1
<1>8. \A b \in 1 .. Len(p) + Len(q) : r[b] = IF b <= Len(p) THEN p[b] ELSE q[b - Len(p)]
  <2>1. \A b \in 1 .. Len(p) + Len(q) :
           (p \o q)[b] = IF b <= Len(p) THEN p[b] ELSE q[b - Len(p)]
    BY <1>3, <1>4, ConcatProperties, Zenon
  <2> QED  BY <1>5, <2>1, Zenon
<1> SUFFICES ASSUME NEW b \in 1 .. Len(p) + Len(q)
             PROVE  \E c \in 1 .. n : r[b] = s[c]
  BY <1>0, <1>7 DEF Among
<1>9. CASE b <= Len(p)
  <2>1. b \in 1 .. a - 1 /\ b \in 1 .. n
    BY <1>0, <1>3, <1>4, <1>9
  <2>2. r[b] = s[b]
    BY <1>3, <1>8, <1>9, <2>1
  <2> QED  BY <2>1, <2>2
<1>10. CASE ~ b <= Len(p)
  <2>1. b - (a - 1) \in 1 .. n - a /\ a + (b - (a - 1)) = b + 1 /\ b + 1 \in 1 .. n
    BY <1>0, <1>3, <1>4, <1>10
  <2>2. r[b] = q[b - (a - 1)]
    BY <1>3, <1>8, <1>10
  <2>3. r[b] = s[b + 1]
    BY <1>4, <2>1, <2>2
  <2> QED  BY <2>1, <2>3
<1> QED
  BY <1>9, <1>10

\* The thread of a frame stays what it is, and the thread of a new one is its
\* caller's caller's, one that begins, that of a sync frame or a pool's.
LEMMA FramesStayKnown ==
    ASSUME Inv, Next, ~Recycled, FramesKnown
    PROVE  FramesKnown'
<1>1. \A t : Known(t) => KnownNext(t)
  <2>1. UNCHANGED begun \/ \E t \in Free : Begins(t)
    BY DEF Next, vars, SetLocal, SetPlain, CallAsync, Finish, CopyBack, ReturnAsync,
           CallSync, CallGiven, ReturnSync, Give, StartFromFlow, StartFromAlien, Start,
           AlienSets, AlienCalls, AlienEnds
  <2> QED  BY <2>1 DEF Begins, Known, KnownNext
<1>2. \A i \in 1 .. Depth : KnownNext(stack[i].thread)
  BY <1>1 DEF FramesKnown
<1>3. Depth \in Nat /\ Depth >= 1 /\ stack \in Seq(FrameType) /\ Depth = Len(stack)
  BY TopTyped
<1>4. CASE UNCHANGED stack
  BY <1>2, <1>4 DEF FramesKnown, Known, KnownNext, Depth
<1>5. ASSUME NEW f, f.thread = Top.thread, stack' = [stack EXCEPT ![Depth] = f]
      PROVE  FramesKnown'
  <2>1. Depth' = Depth /\ \A i \in 1 .. Depth : stack'[i] = IF i = Depth THEN f ELSE stack[i]
    BY <1>3, <1>5 DEF Depth
  <2> QED  BY <1>2, <1>3, <1>5, <2>1 DEF FramesKnown, Known, KnownNext, Top
<1>6. ASSUME NEW v, SetLocal(v) \/ SetPlain(v)
      PROVE  FramesKnown'
  <2>1. \A g \in FrameType : \A l :
           /\ [g EXCEPT !.ctx.local = l].thread = g.thread
           /\ [g EXCEPT !.ctx.plain = l].thread = g.thread
    BY DEF FrameType
  <2>2. \/ stack' = [stack EXCEPT ![Depth] = [Top EXCEPT !.ctx.local = Stored(v, Top.thread)]]
        \/ stack' = [stack EXCEPT ![Depth] = [Top EXCEPT !.ctx.plain = v]]
    BY <1>6 DEF SetLocal, SetPlain, Top
  <2> QED  BY <1>5, <2>1, <2>2, TopTyped
<1>7. CASE Finish \/ CopyBack
  <2>1. \A g \in FrameType : \A c :
           /\ [g EXCEPT !.at = "result"].thread = g.thread
           /\ [g EXCEPT !.at = "copied", !.box = c].thread = g.thread
    BY DEF FrameType
  <2>2. \/ stack' = [stack EXCEPT ![Depth] = [Top EXCEPT !.at = "result"]]
        \/ stack' = [stack EXCEPT ![Depth] = [Top EXCEPT !.at = "copied", !.box = Top.ctx]]
    BY <1>3, <1>7 DEF Finish, CopyBack, Top
  <2> QED  BY <1>5, <2>1, <2>2, TopTyped
<1>8. ASSUME NEW kind, NEW via, NEW t, NEW ctx, stack' = Pushed(kind, via, t, ctx), KnownNext(t)
      PROVE  FramesKnown'
  <2>1. PICK f : stack' = Append(stack, f) /\ f.thread = t
    BY <1>8 DEF Pushed
  <2>2. /\ Depth' = Depth + 1 /\ stack'[Depth + 1] = f
        /\ \A i \in 1 .. Depth : stack'[i] = stack[i]
    BY <1>3, <2>1 DEF Depth
  <2> QED  BY <1>2, <1>3, <1>8, <2>1, <2>2 DEF FramesKnown, Known, KnownNext
<1>9. CASE CallAsync
  <2>1. Depth > 1 => KnownNext(Caller.thread)
    BY <1>2, <1>3 DEF Caller
  <2>2. ASSUME NEW t \in Free, Begins(t) PROVE KnownNext(t)
    BY <2>2 DEF Begins, KnownNext
  <2> QED  BY <1>8, <1>9, <2>1, <2>2 DEF CallAsync
<1>10. CASE CallSync \/ CallGiven
  <2>1. \A t \in WorkerThreads : KnownNext(t)
    <3>1. KnownNext(Worker(Depth))
      BY <1>3, HandoffAssumption DEF KnownNext, Worker
    <3> QED  BY <1>2, <3>1 DEF WorkerThreads, Callee
  <2> QED  BY <1>8, <1>10, <2>1 DEF CallSync, CallGiven
<1>11. ASSUME Depth > 1, stack' = Popped \/ \E ctx : stack' = Resumed(ctx)
       PROVE  FramesKnown'
  <2>1. \A g \in FrameType : \A c : [g EXCEPT !.ctx = c].thread = g.thread
    BY DEF FrameType
  <2>2. /\ Len(stack') = Depth - 1
        /\ \A i \in 1 .. Depth - 1 : stack'[i].thread = stack[i].thread
    <3>1. /\ Popped \in Seq(FrameType) /\ Len(Popped) = Depth - 1
          /\ \A i \in 1 .. Depth - 1 : Popped[i] = stack[i] /\ Popped[i] \in FrameType
      BY <1>3, <1>11, PoppedIs
    <3>2. ASSUME NEW c, stack' = [Popped EXCEPT ![Depth - 1] = [Popped[Depth - 1] EXCEPT !.ctx = c]]
          PROVE  /\ Len(stack') = Depth - 1
                 /\ \A i \in 1 .. Depth - 1 : stack'[i].thread = stack[i].thread
      BY <1>3, <1>11, <2>1, <3>1, <3>2
    <3>3. ASSUME NEW ctx, stack' = Resumed(ctx)
          PROVE  \E c : stack' = [Popped EXCEPT ![Depth - 1] = [Popped[Depth - 1] EXCEPT !.ctx = c]]
      BY <3>3 DEF Resumed
    <3> QED  BY <1>11, <3>1, <3>2, <3>3
  <2> QED  BY <1>2, <1>3, <2>2 DEF FramesKnown, Known, KnownNext, Depth
<1>12. CASE ReturnAsync
  <2>1. Depth > 1
    BY <1>12, TopTyped DEF ReturnAsync, Inv, Shape, Top
  <2> QED  BY <1>11, <1>12, <2>1 DEF ReturnAsync
<1>13. CASE ReturnSync
  BY <1>11, <1>13 DEF ReturnSync
<1> QED
  BY <1>4, <1>6, <1>7, <1>9, <1>10, <1>12, <1>13
     DEF Next, Give, StartFromFlow, StartFromAlien, Start, AlienSets, AlienCalls, AlienEnds

\* A new thread sees nothing of what it inherits: the owner of the data has
\* begun, so its ident is not given to the new one.
LEMMA StartKept ==
    ASSUME aliens \in Seq(AlienType), ~Recycled, AliensKnown, InheritedUnseen,
           NEW data, NEW tag, data => Known(tag), Start(data, tag)
    PROVE  (AliensKnown /\ InheritedUnseen)'
<1>1. PICK t \in Free : /\ aliens' = Append(aliens, [thread |-> t, data |-> data, tag |-> tag,
                                                     how |-> "inherited"])
                        /\ Begins(t)
  BY DEF Start
<1>2. DOMAIN aliens' = 1 .. Len(aliens) + 1 /\ Len(aliens) \in Nat
  BY <1>1
<1>3. \A a \in 1 .. Len(aliens) : aliens'[a] = aliens[a] /\ a \in DOMAIN aliens
  BY <1>1
<1>4. aliens'[Len(aliens) + 1] = [thread |-> t, data |-> data, tag |-> tag, how |-> "inherited"]
  BY <1>1
<1>5. \A a \in DOMAIN aliens' : a \in 1 .. Len(aliens) \/ a = Len(aliens) + 1
  BY <1>2
<1>6. begun' = begun \union {t} /\ ~(data /\ tag = t)
  BY <1>1 DEF Begins, Free, Known
<1>7. AliensKnown'
  BY <1>3, <1>4, <1>5, <1>6 DEF AliensKnown, Known
<1>8. InheritedUnseen'
  BY <1>3, <1>4, <1>5, <1>6 DEF InheritedUnseen, AlienSees, Visible, Unset
<1> QED
  BY <1>7, <1>8

LEMMA AliensKept ==
    ASSUME Inv, [Next]_vars, ~Recycled, IsolationInv
    PROVE  (AliensKnown /\ InheritedUnseen)'
<1> USE DEF IsolationInv
<1>1. aliens \in Seq(AlienType)
  BY DEF Inv, FlowTypeOK
<1>2. CASE UNCHANGED aliens /\ begun \subseteq begun'
  BY <1>2 DEF AliensKnown, Known, InheritedUnseen, AlienSees
<1>3. CASE StartFromFlow
  <2>1. Top.ctx.local.data # Unset => Known(Top.ctx.local.tag)
    BY TopTyped DEF Tagged, FramesKnown, Top
  <2> DEFINE data == Top.ctx.local.data # Unset
             tag == Top.ctx.local.tag
  <2>2. Start(data, tag) /\ (data => Known(tag))
    BY <1>3, <2>1 DEF StartFromFlow
  <2> HIDE DEF data, tag
  <2> QED  BY <1>1, <2>2, StartKept
<1>4. ASSUME NEW a \in DOMAIN aliens, StartFromAlien(a)
      PROVE  (AliensKnown /\ InheritedUnseen)'
  <2> DEFINE data == aliens[a].data
             tag == aliens[a].tag
  <2>1. Start(data, tag) /\ (data => Known(tag))
    BY <1>4 DEF StartFromAlien, AliensKnown
  <2> HIDE DEF data, tag
  <2> QED  BY <1>1, <2>1, StartKept
<1>5. ASSUME NEW a \in DOMAIN aliens, AlienSets(a) \/ AlienCalls(a)
      PROVE  (AliensKnown /\ InheritedUnseen)'
  <2>1. aliens[a] \in AlienType
    BY <1>1
  <2>2. /\ DOMAIN aliens' = DOMAIN aliens /\ begun' = begun
        /\ \A b \in DOMAIN aliens \ {a} : aliens'[b] = aliens[b]
    BY <1>1, <1>5 DEF AlienSets, AlienCalls
  <2>3. /\ aliens'[a].how # "inherited" /\ aliens'[a].thread = aliens[a].thread
        /\ aliens'[a].tag = aliens[a].thread
    <3>1. \/ aliens' = [aliens EXCEPT ![a].data = TRUE, ![a].tag = aliens[a].thread,
                                     ![a].how = "own"]
          \/ aliens' = [aliens EXCEPT ![a].tag = aliens[a].thread, ![a].how = "moved"]
      BY <1>5 DEF AlienSets, AlienCalls
    <3>2. \/ aliens'[a] = [aliens[a] EXCEPT !.data = TRUE, !.tag = aliens[a].thread,
                                           !.how = "own"]
          \/ aliens'[a] = [aliens[a] EXCEPT !.tag = aliens[a].thread, !.how = "moved"]
      BY <1>1, <3>1
    <3> QED  BY <2>1, <3>2 DEF AlienType
  <2>4. AliensKnown'
    BY <2>2, <2>3 DEF AliensKnown, Known
  <2>5. InheritedUnseen'
    BY <2>2, <2>3 DEF InheritedUnseen, AlienSees
  <2> QED  BY <2>4, <2>5
<1>6. ASSUME NEW a \in DOMAIN aliens, AlienEnds(a)
      PROVE  (AliensKnown /\ InheritedUnseen)'
  <2>1. begun' = begun /\ Removes(aliens', aliens, a)
    BY <1>6 DEF AlienEnds, Removes
  <2>2. PICK r : r = aliens'
    OBVIOUS
  <2>3. Among(r, aliens)
    BY <1>1, <2>1, <2>2, RemovedAre
  <2>4. \A b \in DOMAIN aliens' : \E c \in DOMAIN aliens : aliens'[b] = aliens[c]
    BY <2>2, <2>3 DEF Among
  <2>5. AliensKnown'
    BY <2>1, <2>4 DEF AliensKnown, Known
  <2>6. InheritedUnseen'
    BY <2>1, <2>4 DEF InheritedUnseen, AlienSees
  <2> QED  BY <2>5, <2>6
<1> QED
  BY <1>2, <1>3, <1>4, <1>5, <1>6 DEF Next, SetLocal, SetPlain, CallAsync, Begins, Finish,
     CopyBack, ReturnAsync, CallSync, CallGiven, ReturnSync, Give, vars

\* As long as no ident is given twice, no unrelated thread sees data of a Local
\* that it has merely inherited, through however many threads it came and
\* whatever the flow calls meanwhile: what it sees it set itself, or asgiref
\* moved there when it called across the bridge.
THEOREM Isolated == ASSUME ~Recycled PROVE Spec => []InheritedUnseen
<1>1. Init => IsolationInv
  <2> SUFFICES ASSUME Init PROVE IsolationInv
    OBVIOUS
  <2>1. Depth = 1 /\ stack[1].thread = Main
    BY DEF Init, Depth
  <2>2. FramesKnown
    BY <2>1, HandoffAssumption DEF FramesKnown, Known, Main
  <2>3. AliensKnown /\ InheritedUnseen
    BY DEF Init, AliensKnown, InheritedUnseen
  <2> QED  BY <2>2, <2>3 DEF IsolationInv
<1>2. Inv /\ IsolationInv /\ [Next]_vars => IsolationInv'
  <2> SUFFICES ASSUME Inv, IsolationInv, [Next]_vars PROVE IsolationInv'
    OBVIOUS
  <2>1. FramesKnown'
    <3>1. CASE Next
      BY <3>1, FramesStayKnown DEF IsolationInv
    <3>2. CASE UNCHANGED vars
      BY <3>2 DEF vars, IsolationInv, FramesKnown, Known, Depth
    <3> QED  BY <3>1, <3>2
  <2> QED  BY <2>1, AliensKept DEF IsolationInv
<1>3. IsolationInv => InheritedUnseen
  BY DEF IsolationInv
<1> QED
  BY <1>1, <1>2, <1>3, InitInv, NextStep, PTL DEF Spec
=============================================================================
