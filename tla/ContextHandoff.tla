---------------------------- MODULE ContextHandoff ----------------------------
(***************************************************************************)
(* Context variables across the bridge: the copies AsyncToSync and          *)
(* SyncToAsync take, _restore_context (src/asgiref/sync.py), and the        *)
(* storage of a Local, tagged with a thread (src/asgiref/local.py).         *)
(*                                                                         *)
(* One flow of control is a stack of frames, each in a thread and a         *)
(* context; only the top one runs.  A context holds a plain variable and    *)
(* one attribute of a Local that is not thread_critical.  Beside the flow,  *)
(* unrelated threads start with a copy of their creator's context, as with  *)
(* sys.flags.thread_inherit_context.  Worker threads of pools do not end.   *)
(***************************************************************************)
EXTENDS Integers, Sequences

CONSTANTS
    Values,
    MaxFrames,  \* bound on the frames and the unrelated threads alive, together
    Idents,     \* idents of threads that end: loops' and unrelated ones
    Recycled    \* whether the idents of threads that ended are given again

ASSUME HandoffAssumption ==
    /\ MaxFrames \in Nat \ {0}
    /\ Idents \intersect Int = {}   \* other threads have numbers here
    /\ 0 \notin Values
    /\ Recycled \in BOOLEAN

VARIABLES
    stack,  \* the frames of the flow
    given,  \* the context the user passes as context=, but for its tag
    aliens, \* the unrelated threads
    begun   \* idents that are not given any more, if none is given twice

vars == <<stack, given, aliens, begun>>

Unset == 0
Main == 0
Worker(depth) == -depth    \* of a pool
AllThreads == {Main} \union Idents \union {Worker(d) : d \in 1 .. MaxFrames}

Content == Values \union {Unset}
\* A _Storage.  None at all is the same as one without data.
Storage == [tag : AllThreads, data : Content]
Context == [plain : Content, local : Storage]

FrameType ==
    [kind : {"sync", "async"}, via : {"outer", "plain", "posted", "given"},
     thread : AllThreads, ctx : Context,
     box : Context,     \* context[0] of AsyncToSync
     at : {"running", "result", "copied"}]      \* where main_wrap is

\* Of the data in the context of an unrelated thread, only whether there is
\* any, and where it is from: the copy the thread started with, the thread
\* itself, or _restore_context.
AlienType ==
    [thread : Idents, data : BOOLEAN, tag : AllThreads,
     how : {"inherited", "own", "moved"}]

Empty == [plain |-> Unset, local |-> [tag |-> Main, data |-> Unset]]

FlowTypeOK ==
    /\ stack \in Seq(FrameType) /\ Len(stack) \in 1 .. MaxFrames
    /\ \A i \in 1 .. Len(stack) :
          stack[i].ctx.local.data # Unset => stack[i].ctx.local.tag = stack[i].thread
    /\ given \in [plain : Content, data : Content]
    /\ aliens \in Seq(AlienType)
    /\ Len(stack) + Len(aliens) <= MaxFrames

\* Besides the types: the storage a frame finds in its context is its thread's.
TypeOK == FlowTypeOK /\ begun \subseteq Idents

Depth == Len(stack)
Top == stack[Depth]
Caller == stack[Depth - 1]
Room == Depth + Len(aliens) < MaxFrames
Popped == SubSeq(stack, 1, Depth - 1)

InUse == {stack[i].thread : i \in 1 .. Depth} \union {aliens[a].thread : a \in DOMAIN aliens}
Free == Idents \ (InUse \union begun)
Begins(t) == begun' = IF Recycled THEN begun ELSE begun \union {t}

Init ==
    /\ \E k \in {"sync", "async"} :
          stack = <<[kind |-> k, via |-> "outer", thread |-> Main, ctx |-> Empty,
                     box |-> Empty, at |-> "running"]>>
    /\ given = [plain |-> Unset, data |-> Unset]
    /\ aliens = <<>>
    /\ begun = {}

-----------------------------------------------------------------------------
(* Local                                                                    *)

\* MUTANT: storage that another thread owns is read.
VisibleAnywhere(local, thread) == local.data

\* _CVar._storage and __getattr__.
Visible(local, thread) == IF local.tag = thread THEN local.data ELSE Unset

\* __setattr__ and, with Unset, __delattr__.
Stored(v, thread) == [tag |-> IF v = Unset THEN Main ELSE thread, data |-> v]

Running == Top.at = "running"

SetLocal(v) ==
    /\ Running
    /\ v = Unset => Visible(Top.ctx.local, Top.thread) # Unset
    /\ stack' = [stack EXCEPT ![Depth].ctx.local = Stored(v, Top.thread)]
    /\ UNCHANGED <<given, aliens, begun>>

SetPlain(v) ==
    /\ Running
    /\ stack' = [stack EXCEPT ![Depth].ctx.plain = v]
    /\ UNCHANGED <<given, aliens, begun>>

-----------------------------------------------------------------------------
(* The bridge                                                               *)

\* MUTANT: the storage keeps its tag.
RestoredAsIs(context, onto, thread) ==
    [context EXCEPT !.plain = IF @ = Unset THEN onto.plain ELSE @]

\* _restore_context: the variables of a context, set in the one a thread is
\* in.  What is not set there is left as it is.
Restored(context, onto, thread) ==
    [plain |-> IF context.plain = Unset THEN onto.plain ELSE context.plain,
     local |-> Stored(context.local.data, thread)]

Pushed(kind, via, thread, ctx) ==
    Append(stack, [kind |-> kind, via |-> via, thread |-> thread, ctx |-> ctx,
                   box |-> IF kind = "async" THEN Top.ctx ELSE Empty, at |-> "running"])

\* AsyncToSync.__call__ and the start of main_wrap: in the loop the caller was
\* called from, by create_task, which copies the caller's context, or in a new
\* loop in a new thread, whose context is empty.
CallAsync ==
    /\ Running /\ Top.kind = "sync" /\ Room
    /\ \/ /\ Depth > 1
          /\ stack' = Pushed("async", "posted", Caller.thread,
                             Restored(Top.ctx, Top.ctx, Caller.thread))
          /\ UNCHANGED begun
       \/ \E t \in Free :
             /\ stack' = Pushed("async", "plain", t, Restored(Top.ctx, Empty, t))
             /\ Begins(t)
    /\ UNCHANGED <<given, aliens>>

\* main_wrap sets call_result and then puts a copy of its context in the box.
Finish ==
    /\ Running /\ Top.kind = "async" /\ Depth > 1
    /\ stack' = [stack EXCEPT ![Depth].at = "result"]
    /\ UNCHANGED <<given, aliens, begun>>

CopyBack ==
    /\ Top.at = "result"
    /\ stack' = [stack EXCEPT ![Depth].at = "copied", ![Depth].box = Top.ctx]
    /\ UNCHANGED <<given, aliens, begun>>

Resumed(ctx) == [Popped EXCEPT ![Depth - 1].ctx = Restored(ctx, @, Caller.thread)]

\* The caller waits for the end of a new loop, but for no more than the result
\* of a coroutine in the main loop.
ReturnAsync ==
    /\ Top.at = "copied" \/ (Top.at = "result" /\ Top.via = "posted")
    /\ stack' = Resumed(Top.box)
    /\ UNCHANGED <<given, aliens, begun>>

\* Thread-sensitive code runs in the thread of the closest sync frame.
Callee == {i \in 1 .. Depth : stack[i].kind = "sync"}
WorkerThreads ==
    {Worker(Depth)} \union
    {stack[i].thread : i \in {j \in Callee : \A k \in Callee : k <= j}}

\* SyncToAsync.__call__, thread_handler and run_child.
CallSync ==
    /\ Running /\ Top.kind = "async" /\ Room
    /\ \E t \in WorkerThreads :
          stack' = Pushed("sync", "plain", t, Restored(Top.ctx, Top.ctx, t))
    /\ UNCHANGED <<given, aliens, begun>>

\* With context=: a context that is not entered already.
Entered == \E i \in 1 .. Depth : stack[i].via = "given"

CallGiven ==
    /\ Running /\ Top.kind = "async" /\ Room
    /\ ~Entered
    /\ \E t \in WorkerThreads :
          stack' = Pushed("sync", "given", t,
                          [plain |-> given.plain, local |-> Stored(given.data, t)])
    /\ UNCHANGED <<given, aliens, begun>>

TopContent == [plain |-> Top.ctx.plain, data |-> Top.ctx.local.data]

\* MUTANT: the caller's context is restored from the user's one as well.
ReturnSyncMixed ==
    /\ Running /\ Top.kind = "sync" /\ Depth > 1
    /\ stack' = Resumed(Top.ctx)
    /\ given' = IF Top.via = "given" THEN TopContent ELSE given
    /\ UNCHANGED <<aliens, begun>>

ReturnSync ==
    /\ Running /\ Top.kind = "sync" /\ Depth > 1
    /\ stack' = IF Top.via = "given" THEN Popped ELSE Resumed(Top.ctx)
    /\ given' = IF Top.via = "given" THEN TopContent ELSE given
    /\ UNCHANGED <<aliens, begun>>

\* User code: copy_context().
Give ==
    /\ Running /\ ~Entered
    /\ given' = TopContent
    /\ UNCHANGED <<stack, aliens, begun>>

-----------------------------------------------------------------------------
(* Unrelated threads                                                        *)

\* A thread is started, by the flow or by another such thread, with a copy of
\* the context there.
Start(data, tag) ==
    /\ Room
    /\ \E t \in Free :
          /\ aliens' = Append(aliens, [thread |-> t, data |-> data, tag |-> tag,
                                       how |-> "inherited"])
          /\ Begins(t)
    /\ UNCHANGED <<stack, given>>

StartFromFlow == Running /\ Start(Top.ctx.local.data # Unset, Top.ctx.local.tag)

StartFromAlien(a) == Start(aliens[a].data, aliens[a].tag)

AlienSets(a) ==
    /\ aliens' = [aliens EXCEPT ![a].data = TRUE, ![a].tag = aliens[a].thread, ![a].how = "own"]
    /\ UNCHANGED <<stack, given, begun>>

\* It calls async_to_sync, of code that sets nothing: the context is moved to
\* the code and back.
AlienCalls(a) ==
    /\ aliens[a].data /\ aliens[a].tag # aliens[a].thread
    /\ aliens' = [aliens EXCEPT ![a].tag = aliens[a].thread, ![a].how = "moved"]
    /\ UNCHANGED <<stack, given, begun>>

AlienEnds(a) ==
    /\ aliens' = SubSeq(aliens, 1, a - 1) \o SubSeq(aliens, a + 1, Len(aliens))
    /\ UNCHANGED <<stack, given, begun>>

-----------------------------------------------------------------------------
Next ==
    \/ \E v \in Content : SetLocal(v)
    \/ \E v \in Values : SetPlain(v)
    \/ CallAsync \/ Finish \/ CopyBack \/ ReturnAsync
    \/ CallSync \/ CallGiven \/ ReturnSync \/ Give
    \/ StartFromFlow
    \/ \E a \in DOMAIN aliens :
          StartFromAlien(a) \/ AlienSets(a) \/ AlienCalls(a) \/ AlienEnds(a)

Spec == Init /\ [][Next]_vars

-----------------------------------------------------------------------------
(* Properties                                                               *)

\* What the code of a frame reads.
Reads(i) ==
    [x \in {"plain", "local"} |->
        IF x = "plain" THEN stack[i].ctx.plain
        ELSE Visible(stack[i].ctx.local, stack[i].thread)]

\* The flow reads and writes one context, that moves with it from thread to
\* thread, apart from what posted calls may lose and from context=.
Abstract ==
    INSTANCE CallContext WITH
        Variables <- {"plain", "local"},
        now <- Reads(Depth),
        given <- [x \in {"plain", "local"} |->
                     IF x = "plain" THEN given.plain ELSE given.data],
        saved <- [i \in 1 .. Depth - 1 |-> [how |-> stack[i + 1].via, was |-> Reads(i)]]

ImplementsCallContext == Abstract!Spec

AlienSees(a) ==
    aliens[a].data /\ Visible([tag |-> aliens[a].tag, data |-> 1], aliens[a].thread) # Unset

\* What a thread has merely inherited it does not see: data of a Local that it
\* sees it set itself, or asgiref moved there when it called across the bridge.
\* This is so while idents are not given again (src/asgiref/local.py:50).
InheritedUnseen ==
    \A a \in DOMAIN aliens : AlienSees(a) => aliens[a].how # "inherited"

\* "data merely inherited by an unrelated thread is never re-homed and so stays
\* isolated" (src/asgiref/local.py:21): a thread sees what it set itself.
SeesOnlyOwn ==
    \A a \in DOMAIN aliens : AlienSees(a) => aliens[a].how = "own"
=============================================================================
