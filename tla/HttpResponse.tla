----------------------------- MODULE HttpResponse -----------------------------
(***************************************************************************)
(* The response an ASGI server accepts for one request: one start message,  *)
(* then body messages, the last of which says so, and no more bytes of body *)
(* than the start message announced.                                        *)
(***************************************************************************)
EXTENDS Naturals, Sequences, SequencesExt

CONSTANTS
    Lengths,    \* what content-length may say
    NoLength,   \* there is none
    Sizes       \* what a body may measure

VARIABLE sent   \* the messages the server was sent

Start(length) == [type |-> "start", size |-> 0, length |-> length]
Body(size) == [type |-> "body", size |-> size, length |-> NoLength]
Final(size) == [type |-> "final", size |-> size, length |-> NoLength]

\* The bytes of body in a sequence of messages.
Total(messages) ==
    LET sum[n \in 0 .. Len(messages)] == IF n = 0 THEN 0 ELSE sum[n - 1] + messages[n].size
    IN sum[Len(messages)]

\* A body of this size may be sent next.
Fits(size) ==
    /\ sent # <<>> /\ Last(sent).type # "final"
    /\ Head(sent).length # NoLength => Total(sent) + size <= Head(sent).length

Init == sent = <<>>

SendStart ==
    /\ sent = <<>>
    /\ \E length \in Lengths \union {NoLength} : sent' = <<Start(length)>>

SendBody == \E size \in Sizes : Fits(size) /\ sent' = Append(sent, Body(size))

SendFinal == \E size \in Sizes : Fits(size) /\ sent' = Append(sent, Final(size))

Next == SendStart \/ SendBody \/ SendFinal

Spec == Init /\ [][Next]_sent
=============================================================================
