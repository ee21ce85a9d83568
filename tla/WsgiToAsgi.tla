------------------------------ MODULE WsgiToAsgi ------------------------------
(***************************************************************************)
(* WsgiToAsgiInstance, src/asgiref/wsgi.py: a WSGI application run for one  *)
(* request in a thread, its output sent from there through AsyncToSync.     *)
(*                                                                         *)
(* `co` is the coroutine __call__, in the loop; `pc` is run_wsgi_app, in    *)
(* the thread.  What the application does each time it is asked for output  *)
(* is left open: call start_response, yield, end, raise.                    *)
(***************************************************************************)
EXTENDS Naturals, Sequences

CONSTANTS
    Lengths,        \* what content-length may say
    NoLength,       \* there is none
    Missing,        \* start_response was not called
    Sizes,          \* of the application's output
    MaxMessages     \* bound on the messages of a response

ASSUME WsgiAssumption ==
    /\ Lengths \subseteq Nat /\ {NoLength, Missing} \intersect Nat = {}
    /\ Missing # NoLength
    /\ Sizes \subseteq Nat /\ 0 \in Sizes
    /\ \A n \in Sizes : 0 .. n \subseteq Sizes    \* an output may be cut
    /\ MaxMessages \in Nat

VARIABLES
    co,         \* "receive"; "waiting" for the thread, if cancelled for the send
                \* ("killing") and then for the thread ("cancelled"); "ended"
    ok,         \* __call__ returned without an exception
    pc,         \* where the thread is
    started,    \* response_started
    start,      \* the length in response_start, Missing before there is one
    length,     \* response_content_length
    garbled,    \* the last call of start_response failed at its content-length
    output,     \* the size of the output at hand
    bytes,      \* bytes_sent
    flight,     \* the message being sent: none, or posted to the loop, or begun
    sent        \* the messages sent

loop == <<co, ok>>
headers == <<started, start, length, garbled>>
vars == <<loop, pc, headers, output, bytes, flight, sent>>

Idle == [at |-> "none", message |-> "none", then |-> "none"]

\* The messages, their length left out if it does not count.
Seen == IF garbled THEN [i \in DOMAIN sent |-> [sent[i] EXCEPT !.length = NoLength]] ELSE sent

Response == INSTANCE HttpResponse WITH sent <- Seen

Start(n) == Response!Start(n)
Body(n) == Response!Body(n)
Final == Response!Final(0)

Places == {"none", "environ", "app", "clamp", "count", "close", "final", "returned", "raised"}
Messages == {Start(n) : n \in Lengths \union {NoLength}} \union {Body(n) : n \in Sizes} \union {Final}

TypeOK ==
    /\ co \in {"receive", "waiting", "killing", "cancelled", "ended"}
    /\ ok \in BOOLEAN /\ started \in BOOLEAN /\ garbled \in BOOLEAN
    /\ pc \in Places \union {"sending"}
    /\ start \in Lengths \union {NoLength, Missing}
    /\ length \in Lengths \union {NoLength}
    /\ output \in Sizes
    /\ bytes \in Nat /\ (length # NoLength => bytes <= length)
    /\ flight \in [at : {"posted", "begun"}, message : Messages, then : Places] \union {Idle}
    /\ (pc = "sending") <=> (flight # Idle)
    /\ sent \in Seq(Messages)

Init ==
    /\ co = "receive" /\ ok = FALSE
    /\ pc = "none"
    /\ started = FALSE /\ start = Missing /\ length = NoLength /\ garbled = FALSE
    /\ output = 0 /\ bytes = 0
    /\ flight = Idle /\ sent = <<>>

-----------------------------------------------------------------------------
(* The coroutine                                                            *)

\* Requests that say more_body change nothing here.  Any other message than a
\* request, or a cancellation, ends the instance.
ReceiveRequest ==
    /\ co = "receive"
    /\ co' = "waiting" /\ pc' = "environ"
    /\ UNCHANGED <<ok, headers, output, bytes, flight, sent>>

ReceiveFails ==
    /\ co = "receive"
    /\ co' = "ended"
    /\ UNCHANGED <<ok, pc, headers, output, bytes, flight, sent>>

Finished == pc \in {"returned", "raised"}

ThreadEnded ==
    /\ co \in {"waiting", "cancelled"} /\ Finished
    /\ co' = "ended"
    /\ ok' \in {pc = "returned", pc = "returned" /\ co = "waiting"}
    /\ UNCHANGED <<pc, headers, output, bytes, flight, sent>>

\* SyncToAsync passes a cancellation to the send that the thread waits for, if
\* it has begun, and then waits for both.
CancelSend ==
    /\ co = "waiting" /\ flight.at = "begun"
    /\ co' = "killing"
    /\ UNCHANGED <<ok, pc, headers, output, bytes, flight, sent>>

\* With no send to cancel it does not wait for the thread, nor once it is
\* cancelled again.
CutOff ==
    /\ ~Finished
    /\ (co = "waiting" /\ flight.at # "begun") \/ co = "cancelled"
    /\ co' = "ended"
    /\ pc' = pc \/ (pc = "environ" /\ pc' = "raised")   \* it may not have started
    /\ UNCHANGED <<ok, headers, output, bytes, flight, sent>>

-----------------------------------------------------------------------------
(* sync_send                                                                *)

Send(message, then) ==
    /\ pc' = "sending"
    /\ flight' = [at |-> "posted", message |-> message, then |-> then]

SendBegins ==
    /\ flight.at = "posted"
    /\ flight' = [flight EXCEPT !.at = "begun"]
    /\ UNCHANGED <<loop, pc, headers, output, bytes, sent>>

\* A send may raise, cancelled or not, before or after the server has the
\* message; cancelled, it may also go on.
SendOver(place) ==
    /\ flight.at = "begun"
    /\ pc' = place /\ flight' = Idle
    /\ co' = IF co = "killing" THEN "cancelled" ELSE co
    /\ UNCHANGED <<ok, headers, output, bytes>>

\* MUTANT: the thread is not told that its send failed.
SendRaisesUnheard ==
    /\ flight.at = "begun" /\ flight' = Idle
    /\ UNCHANGED <<loop, pc, headers, output, bytes, sent>>

SendReturns == SendOver(flight.then) /\ sent' = Append(sent, flight.message)

SendRaises == SendOver("raised") /\ sent' \in {sent, Append(sent, flight.message)}

-----------------------------------------------------------------------------
(* start_response                                                           *)

\* Not once the response has begun, and not twice without exc_info.
Accepted(exc) == ~started /\ (start = Missing \/ exc)

\* What the application sends next is announced by this call.
StartResponse(exc, n) ==
    /\ pc = "app" /\ Accepted(exc)
    /\ start' = n /\ length' = n /\ garbled' = FALSE
    /\ UNCHANGED <<loop, pc, started, output, bytes, flight, sent>>

\* int() refuses the content-length: response_start is not replaced, but the
\* length that belongs to it is forgotten.  The application may go on.
StartResponseGarbled(exc) ==
    /\ pc = "app" /\ Accepted(exc)
    /\ length' = NoLength /\ garbled' = TRUE
    /\ pc' \in {"app", "raised"}
    /\ UNCHANGED <<loop, started, start, output, bytes, flight, sent>>

-----------------------------------------------------------------------------
(* run_wsgi_app                                                             *)

\* Too many headers of a name: the adapter answers by itself.
Environ ==
    /\ pc = "environ"
    /\ pc' = "app" \/ pc' = "raised"
    /\ UNCHANGED <<loop, headers, output, bytes, flight, sent>>

\* (The body it sends last is not told from an empty one.)
BadRequest ==
    /\ pc = "environ"
    /\ Send(Start(NoLength), "final")
    /\ UNCHANGED <<loop, headers, output, bytes, sent>>

\* response_start is sent before the first body; without one, the code fails.
SendStart(then) ==
    /\ started' = TRUE
    /\ IF start = Missing THEN pc' = "raised" /\ UNCHANGED flight
                          ELSE Send(Start(start), then)
    /\ UNCHANGED <<start, length, garbled>>

AppYields(n) ==
    /\ pc = "app" /\ Len(sent) + 2 < MaxMessages
    /\ output' = n
    /\ IF started THEN pc' = "clamp" /\ UNCHANGED <<headers, flight>>
                  ELSE SendStart("clamp")
    /\ UNCHANGED <<loop, bytes, sent>>

\* MUTANT: the bytes already sent are not counted.
ClampedEach(n) == IF length # NoLength /\ n > length THEN length ELSE n

Clamped(n) == IF length # NoLength /\ n > length - bytes THEN length - bytes ELSE n

SendOutput ==
    /\ pc = "clamp"
    /\ output' = Clamped(output)
    /\ Send(Body(Clamped(output)), "count")
    /\ UNCHANGED <<loop, headers, bytes, sent>>

Count ==
    /\ pc = "count"
    /\ bytes' = bytes + output
    /\ pc' = IF bytes + output = length THEN "close" ELSE "app"
    /\ UNCHANGED <<loop, headers, output, flight, sent>>

AppEnds ==
    /\ pc = "app"
    /\ pc' = "close" \/ pc' = "raised"
    /\ UNCHANGED <<loop, headers, output, bytes, flight, sent>>

\* MUTANT: no final message if the application sent no body.
CloseQuietly ==
    /\ pc = "close"
    /\ IF started THEN Send(Final, "returned") /\ UNCHANGED headers ELSE SendStart("returned")
    /\ UNCHANGED <<loop, output, bytes, sent>>

Close ==
    /\ pc = "close"
    /\ IF started THEN Send(Final, "returned") /\ UNCHANGED headers ELSE SendStart("final")
    /\ UNCHANGED <<loop, output, bytes, sent>>

SendFinal ==
    /\ pc = "final"
    /\ Send(Final, "returned")
    /\ UNCHANGED <<loop, headers, output, bytes, sent>>

-----------------------------------------------------------------------------
Thread == Environ \/ BadRequest \/ SendOutput \/ Count \/ AppEnds \/ Close \/ SendFinal
Sending == SendBegins \/ SendReturns \/ SendRaises

Next ==
    \/ ReceiveRequest \/ ReceiveFails \/ ThreadEnded
    \/ CancelSend \/ CutOff
    \/ Sending \/ Thread
    \/ \E exc \in BOOLEAN, n \in Lengths \union {NoLength} : StartResponse(exc, n)
    \/ \E exc \in BOOLEAN : StartResponseGarbled(exc)
    \/ \E n \in Sizes : AppYields(n)

Spec == Init /\ [][Next]_vars

\* The loop and the thread run, sends end, and the application ends.
FairSpec ==
    /\ Spec
    /\ WF_vars(Thread) /\ WF_vars(Sending) /\ WF_vars(ThreadEnded)

-----------------------------------------------------------------------------
(* Properties                                                               *)

\* Whatever the application does, the messages are a response: one start, then
\* bodies of no more bytes than it announced, then an end.  (The length does
\* not count if the last call of start_response failed at its own.)
ImplementsHttpResponse == Response!Spec

\* __call__ returns without an exception only after a whole response.
ReturnsComplete == ok => sent # <<>> /\ sent[Len(sent)] = Final

\* An instance ends, and so does its thread, if its application does: however
\* sends fail and whenever it is cancelled.
InstanceEnds == (co # "receive") ~> (co = "ended" /\ (pc = "none" \/ Finished))
=============================================================================
