------------------------------ MODULE CallContext ------------------------------
(***************************************************************************)
(* What asgiref promises of context variables: there is one context, and it *)
(* moves with the flow of control through every call across the bridge,     *)
(* whatever threads the calls run in.  A call made with a context of the    *)
(* user's runs in that one instead and leaves the caller's alone.           *)
(***************************************************************************)
EXTENDS Naturals, Sequences

CONSTANTS
    Variables,  \* the context variables
    Values, Unset

VARIABLES
    now,    \* what the running code reads
    given,  \* what the user's own context holds
    saved   \* the calls under way: how each was made, what its caller reads

vars == <<now, given, saved>>

Contexts == [Variables -> Values \union {Unset}]
Hows == {"plain", "posted", "given"}

TypeOK ==
    /\ now \in Contexts /\ given \in Contexts
    /\ saved \in Seq([how : Hows, was : Contexts])

Init ==
    /\ now = [x \in Variables |-> Unset] /\ given = now
    /\ saved = <<>>

Back == saved' = SubSeq(saved, 1, Len(saved) - 1)
Top == saved[Len(saved)]

Write ==
    /\ \E x \in Variables, v \in Values \union {Unset} : now' = [now EXCEPT ![x] = v]
    /\ UNCHANGED <<given, saved>>

Give == given' = now /\ UNCHANGED <<now, saved>>

Call ==
    /\ \E how \in Hows :
          /\ saved' = Append(saved, [how |-> how, was |-> now])
          /\ now' = IF how = "given" THEN given ELSE now
    /\ UNCHANGED given

Return ==
    /\ saved # <<>> /\ Top.how # "given"
    /\ Back /\ UNCHANGED <<now, given>>

ReturnGiven ==
    /\ saved # <<>> /\ Top.how = "given"
    /\ Back /\ given' = now /\ now' = Top.was

\* A call posted to the caller's own loop may lose what it wrote, but then it
\* loses everything: the caller never reads a mixture.
Lose ==
    /\ saved # <<>> /\ Top.how = "posted"
    /\ Back /\ now' = Top.was /\ UNCHANGED given

Next == Write \/ Give \/ Call \/ Return \/ ReturnGiven \/ Lose

Spec == Init /\ [][Next]_vars
=============================================================================
