--------------------------- MODULE WsgiToAsgiProofs ---------------------------
(***************************************************************************)
(* Theorems of WsgiToAsgi, for any lengths an application announces, any    *)
(* sizes of what it yields and any number of messages.                      *)
(***************************************************************************)
EXTENDS WsgiToAsgi, SequenceTheorems, WellFoundedInduction, TLAPS

\* Nothing is counted before the response has begun, so the length may still
\* change; and an output that was cut fits into what is left of the length.
CutToLength ==
    /\ ~started => bytes = 0 /\ pc \notin {"clamp", "count"} /\ flight.then \notin {"clamp", "count"}
    /\ (pc = "count" \/ flight.then = "count") /\ length # NoLength =>
          bytes + output <= length

\* The thread returns only when it has sent the final message.
FinalLast ==
    /\ flight.then = "returned" => flight.message = Final
    /\ pc = "returned" => sent # <<>> /\ sent[Len(sent)] = Final
    /\ ok => pc = "returned"

\* The thread is started by the end of the request.
NotStarted == co = "receive" => pc = "none"

Inv == TypeOK /\ CutToLength /\ FinalLast /\ NotStarted

-----------------------------------------------------------------------------
\* What the messages and the flight are, and that the literals differ.
LEMMA MessagesTyped ==
    /\ Final \in Messages
    /\ \A n \in Sizes : Body(n) \in Messages
    /\ \A n \in Lengths \union {NoLength} : Start(n) \in Messages
  BY DEF Messages

LEMMA FlightTyped ==
    ASSUME TypeOK, flight # Idle
    PROVE  /\ flight.at \in {"posted", "begun"} /\ flight.message \in Messages
           /\ flight.then \in Places /\ flight.then # "sending"
  BY DEF TypeOK, Places

\* A send leaves what it was called with to the loop.
LEMMA SendIs ==
    ASSUME NEW message \in Messages, NEW then \in Places, Send(message, then)
    PROVE  /\ pc' = "sending" /\ flight' # Idle
           /\ flight' \in [at : {"posted", "begun"}, message : Messages, then : Places]
           /\ flight'.then = then /\ flight'.message = message
  BY DEF Send, Idle

\* Initially.
LEMMA InitInv == Init => Inv
<1> SUFFICES ASSUME Init PROVE Inv
  OBVIOUS
<1>1. TypeOK
  <2>1. sent \in Seq(Messages) /\ flight \in {Idle} /\ output \in Sizes
    BY WsgiAssumption DEF Init
  <2> QED
    BY <2>1 DEF Init, TypeOK, Places
<1>2. CutToLength
  BY DEF Init, CutToLength, Idle
<1>3. FinalLast /\ NotStarted
  BY DEF Init, FinalLast, NotStarted, Idle
<1> QED
  BY <1>1, <1>2, <1>3 DEF Inv

-----------------------------------------------------------------------------
\* Steps of the coroutine.
LEMMA CoroutineKeeps ==
    ASSUME Inv, ReceiveRequest \/ ReceiveFails \/ ThreadEnded \/ CancelSend \/ CutOff
    PROVE  Inv'
<1> USE DEF Inv, TypeOK, CutToLength, FinalLast, NotStarted, headers, Places
<1>1. CASE ReceiveRequest
  BY <1>1 DEF ReceiveRequest
<1>2. CASE ReceiveFails
  BY <1>2 DEF ReceiveFails
<1>3. CASE ThreadEnded
  BY <1>3 DEF ThreadEnded, Finished
<1>4. CASE CancelSend
  BY <1>4 DEF CancelSend
<1>5. CASE CutOff
  BY <1>5 DEF CutOff, Finished
<1> QED
  BY <1>1, <1>2, <1>3, <1>4, <1>5

\* Steps of a send.
LEMMA SendingKeeps == ASSUME Inv, Sending PROVE Inv'
<1>1. flight # Idle /\ pc = "sending"
  BY DEF Inv, TypeOK, Sending, SendBegins, SendReturns, SendRaises, SendOver, Idle
<1>2. /\ flight.message \in Messages /\ flight.then \in Places /\ flight.then # "sending"
      /\ flight \in [at : {"posted", "begun"}, message : Messages, then : Places]
  BY <1>1, FlightTyped DEF Inv, TypeOK
<1>3. CASE SendBegins
  <2>1. /\ flight' # Idle
        /\ flight' \in [at : {"posted", "begun"}, message : Messages, then : Places]
        /\ flight'.then = flight.then /\ flight'.message = flight.message
    BY <1>2, <1>3 DEF SendBegins, Idle
  <2> QED
    BY <1>1, <1>3, <2>1
       DEF SendBegins, Inv, TypeOK, CutToLength, FinalLast, NotStarted, loop, headers
<1>4. ASSUME NEW place \in {flight.then, "raised"}, SendOver(place),
             sent' \in {sent, Append(sent, flight.message)},
             place = "returned" => sent' = Append(sent, flight.message)
      PROVE  Inv'
  <2>1. sent' \in Seq(Messages)
    BY <1>2, <1>4 DEF Inv, TypeOK
  <2>2. TypeOK'
    BY <1>1, <1>2, <1>4, <2>1 DEF SendOver, Inv, TypeOK, NotStarted, headers, Places
  <2>3. CutToLength'
    BY <1>1, <1>2, <1>4 DEF SendOver, Inv, CutToLength, headers, Idle
  <2>4. FinalLast'
    <3>1. place = "returned" => sent' # <<>> /\ sent'[Len(sent')] = Final
      BY <1>2, <1>4 DEF Inv, TypeOK, FinalLast
    <3> QED
      BY <1>1, <1>4, <3>1 DEF SendOver, Inv, FinalLast, Idle
  <2>5. NotStarted'
    BY <1>1, <1>4 DEF SendOver, Inv, TypeOK, NotStarted
  <2> QED
    BY <2>2, <2>3, <2>4, <2>5 DEF Inv
<1>5. CASE SendReturns
  BY <1>4, <1>5 DEF SendReturns
<1>6. CASE SendRaises
  BY <1>4, <1>6 DEF SendRaises
<1> QED
  BY <1>3, <1>5, <1>6 DEF Sending

\* The thread posts a message, with nothing counted but the output at hand.
LEMMA SendKeeps ==
    ASSUME Inv, pc \in {"environ", "app", "clamp", "close", "final"},
           NEW message \in Messages, NEW then \in Places, Send(message, then),
           output' \in Sizes, UNCHANGED <<loop, start, length, garbled, bytes, sent>>,
           started' \in BOOLEAN, started => started',
           then \in {"clamp", "count"} => started',
           then = "count" => (length # NoLength => bytes + output' <= length),
           then = "returned" => message = Final
    PROVE  Inv'
<1>1. /\ pc' = "sending" /\ flight' # Idle
      /\ flight' \in [at : {"posted", "begun"}, message : Messages, then : Places]
      /\ flight'.then = then /\ flight'.message = message
  BY SendIs
<1>2. TypeOK'
  BY <1>1 DEF Inv, TypeOK, loop
<1>3. CutToLength'
  BY <1>1 DEF Inv, CutToLength
<1>4. FinalLast' /\ NotStarted'
  BY <1>1 DEF Inv, FinalLast, NotStarted, loop
<1> QED
  BY <1>2, <1>3, <1>4 DEF Inv

\* The thread goes on to another place without a message.
LEMMA MoveKeeps ==
    ASSUME Inv, pc \in {"environ", "app", "count", "close"},
           pc' \in {"app", "clamp", "close", "raised"}, pc' = "clamp" => started,
           output' \in Sizes, started' \in BOOLEAN, started => started',
           start' \in Lengths \union {NoLength, Missing},
           length' \in Lengths \union {NoLength}, garbled' \in BOOLEAN,
           bytes' \in Nat, ~started' => bytes' = 0,
           length' # NoLength => bytes' <= length',
           UNCHANGED <<loop, flight, sent>>
    PROVE  Inv'
<1>1. flight = Idle /\ flight.then = "none"
  BY DEF Inv, TypeOK, Idle
<1>2. TypeOK'
  BY <1>1 DEF Inv, TypeOK, loop, Places
<1>3. CutToLength'
  BY <1>1 DEF Inv, CutToLength
<1>4. FinalLast' /\ NotStarted'
  BY <1>1 DEF Inv, FinalLast, NotStarted, loop
<1> QED
  BY <1>2, <1>3, <1>4 DEF Inv

\* What is cut fits, and is a size.
LEMMA ClampedIs ==
    ASSUME Inv
    PROVE  /\ Clamped(output) \in Sizes
           /\ length # NoLength => bytes + Clamped(output) <= length
<1>1. output \in Nat /\ 0 .. output \subseteq Sizes /\ bytes \in Nat
  BY WsgiAssumption DEF Inv, TypeOK
<1>2. CASE length = NoLength
  BY <1>1, <1>2 DEF Inv, TypeOK, Clamped
<1>3. CASE length # NoLength
  <2>1. length \in Nat /\ bytes <= length
    BY <1>3, WsgiAssumption DEF Inv, TypeOK
  <2>2. Clamped(output) \in 0 .. output /\ Clamped(output) <= length - bytes
    BY <1>1, <1>3, <2>1 DEF Clamped
  <2>3. Clamped(output) \in Sizes
    BY <1>1, <2>2
  <2>4. bytes + Clamped(output) <= length
    BY <1>1, <2>1, <2>2
  <2> QED
    BY <2>3, <2>4
<1> QED
  BY <1>2, <1>3

-----------------------------------------------------------------------------
\* Steps of start_response.
LEMMA StartResponseKeeps ==
    ASSUME Inv, NEW exc \in BOOLEAN, NEW n \in Lengths \union {NoLength},
           StartResponse(exc, n) \/ StartResponseGarbled(exc)
    PROVE  Inv'
<1>1. pc = "app" /\ ~started /\ flight = Idle /\ bytes = 0
  BY DEF StartResponse, StartResponseGarbled, Accepted, Inv, TypeOK, CutToLength
<1>2. n # NoLength => n \in Nat
  BY WsgiAssumption
<1>3. CASE StartResponse(exc, n)
  <2>1. start' \in Lengths \union {NoLength, Missing} /\ length' \in Lengths \union {NoLength}
    BY <1>3 DEF StartResponse
  <2>2. length' # NoLength => bytes' <= length'
    BY <1>1, <1>2, <1>3 DEF StartResponse
  <2>3. TypeOK'
    BY <1>1, <1>3, <2>1, <2>2 DEF StartResponse, Inv, TypeOK, loop
  <2> QED
    BY <1>1, <1>3, <2>3
       DEF StartResponse, Inv, CutToLength, FinalLast, NotStarted, loop
<1>4. CASE StartResponseGarbled(exc)
  <2>1. TypeOK'
    BY <1>1, <1>4 DEF StartResponseGarbled, Inv, TypeOK, loop, Places
  <2> QED
    BY <1>1, <1>4, <2>1
       DEF StartResponseGarbled, Inv, CutToLength, FinalLast, NotStarted, loop, Idle
<1> QED
  BY <1>3, <1>4

\* Steps of run_wsgi_app that wait for the application.
LEMMA YieldKeeps == ASSUME Inv, NEW n \in Sizes, AppYields(n) PROVE Inv'
<1>1. CASE started
  BY <1>1, MoveKeeps DEF AppYields, Inv, TypeOK, CutToLength, headers
<1>2. CASE ~started /\ start = Missing
  BY <1>2, MoveKeeps DEF AppYields, SendStart, Inv, TypeOK, CutToLength
<1>3. CASE ~started /\ start # Missing
  <2>1. Start(start) \in Messages /\ "clamp" \in Places
    BY <1>3, MessagesTyped DEF Inv, TypeOK, Places
  <2>2. Send(Start(start), "clamp")
    BY <1>3 DEF AppYields, SendStart
  <2> QED
    BY <1>3, <2>1, <2>2, SendKeeps DEF AppYields, SendStart, Inv, TypeOK
<1> QED
  BY <1>1, <1>2, <1>3

\* Steps of run_wsgi_app by itself.
LEMMA ThreadKeeps == ASSUME Inv, Thread PROVE Inv'
<1>1. CASE Environ
  BY <1>1, MoveKeeps DEF Environ, Inv, TypeOK, CutToLength, headers
<1>2. CASE BadRequest
  <2>1. Start(NoLength) \in Messages /\ "final" \in Places
    BY MessagesTyped DEF Places
  <2> QED
    BY <1>2, <2>1, SendKeeps DEF BadRequest, Inv, TypeOK, headers
<1>3. CASE SendOutput
  <2>1. Body(Clamped(output)) \in Messages /\ "count" \in Places
    BY ClampedIs, MessagesTyped DEF Places
  <2> QED
    BY <1>3, <2>1, ClampedIs, SendKeeps DEF SendOutput, Inv, TypeOK, CutToLength, headers
<1>4. CASE Count
  <2>1. started /\ (length # NoLength => bytes + output <= length) /\ bytes + output \in Nat
    BY <1>4, WsgiAssumption DEF Count, Inv, TypeOK, CutToLength
  <2> QED
    BY <1>4, <2>1, MoveKeeps DEF Count, Inv, TypeOK, headers
<1>5. CASE AppEnds
  BY <1>5, MoveKeeps DEF AppEnds, Inv, TypeOK, CutToLength, headers
<1>6. CASE Close
  <2>1. Final \in Messages /\ {"returned", "final"} \subseteq Places
    BY MessagesTyped DEF Places
  <2>2. CASE started
    BY <1>6, <2>1, <2>2, SendKeeps DEF Close, Inv, TypeOK, headers
  <2>3. CASE ~started /\ start = Missing
    BY <1>6, <2>3, MoveKeeps DEF Close, SendStart, Inv, TypeOK, CutToLength
  <2>4. CASE ~started /\ start # Missing
    <3>1. Start(start) \in Messages /\ Send(Start(start), "final")
      BY <1>6, <2>4, MessagesTyped DEF Close, SendStart, Inv, TypeOK
    <3> QED
      BY <1>6, <2>1, <2>4, <3>1, SendKeeps DEF Close, SendStart, Inv, TypeOK
  <2> QED
    BY <2>2, <2>3, <2>4
<1>7. CASE SendFinal
  <2>1. Final \in Messages /\ "returned" \in Places
    BY MessagesTyped DEF Places
  <2> QED
    BY <1>7, <2>1, SendKeeps DEF SendFinal, Inv, TypeOK, headers
<1> QED
  BY <1>1, <1>2, <1>3, <1>4, <1>5, <1>6, <1>7 DEF Thread

LEMMA Invariant == Spec => []Inv
<1>1. Inv /\ [Next]_vars => Inv'
  <2> SUFFICES ASSUME Inv, [Next]_vars PROVE Inv'
    OBVIOUS
  <2>1. CASE UNCHANGED vars
    BY <2>1 DEF vars, loop, headers, Inv, TypeOK, CutToLength, FinalLast, NotStarted
  <2> QED
    BY <2>1, CoroutineKeeps, SendingKeeps, ThreadKeeps, StartResponseKeeps, YieldKeeps DEF Next
<1> QED
  BY InitInv, <1>1, PTL DEF Spec

-----------------------------------------------------------------------------
\* The cells of an instance keep their types, and the bytes counted as sent
\* never exceed the announced length: run_wsgi_app cuts what is too long.
THEOREM TypeCorrect == Spec => []TypeOK
<1>1. Inv => TypeOK
  BY DEF Inv
<1> QED
  BY <1>1, Invariant, PTL

\* __call__ returns without an exception only if the final message was sent,
\* whatever the application does, and whenever sends fail or are cancelled.
THEOREM WholeResponse == Spec => []ReturnsComplete
<1>1. Inv => ReturnsComplete
  BY DEF Inv, FinalLast, ReturnsComplete
<1> QED
  BY <1>1, Invariant, PTL

-----------------------------------------------------------------------------
(* The response                                                             *)

\* Some f is the running total of the messages of s, which Total takes last.
Sums(f, s, k) == f = [n \in 0 .. k |-> IF n = 0 THEN 0 ELSE f[n - 1] + s[n].size]

LEMMA MessageSizes == \A m \in Messages : m.size \in Nat /\ m.type \in {"start", "body", "final"}
<1>1. Sizes \subseteq Nat
  BY WsgiAssumption
<1> QED
  BY <1>1 DEF Messages, Start, Body, Final, Response!Start, Response!Body, Response!Final

\* A set of numbers that is not empty has a least one.
LEMMA LeastNumber ==
    ASSUME NEW S \in SUBSET Nat, S # {}
    PROVE  \E m \in S : \A n \in S : m <= n
<1> DEFINE R == OpToRel(<, Nat)
<1>1. PICK m \in S : \A n \in S : ~ (<<n, m>> \in R)
  BY NatLessThanWellFounded, WFMin
<1>2. \A n \in S : ~ (n < m)
  BY <1>1 DEF OpToRel
<1> QED
  BY <1>2

LEMMA SumsExist ==
    ASSUME NEW s \in Seq(Messages), NEW k \in 0 .. Len(s)
    PROVE  \E f : Sums(f, s, k)
<1> DEFINE Lacking == {j \in 0 .. k : ~ \E f : Sums(f, s, j)}
<1> SUFFICES ASSUME Lacking # {} PROVE FALSE
  <2>1. k \in 0 .. k
    OBVIOUS
  <2> QED
    BY <2>1
<1>1. PICK j \in Lacking : \A i \in Lacking : j <= i
  <2>1. Lacking \in SUBSET Nat
    OBVIOUS
  <2> QED
    BY <2>1, LeastNumber
<1>2. CASE j = 0
  <2>1. Sums([n \in 0 .. 0 |-> 0], s, 0)
    BY DEF Sums
  <2> QED
    BY <1>2, <2>1
<1>3. CASE j # 0
  <2>1. j - 1 \in 0 .. k /\ ~ j <= j - 1
    BY <1>3
  <2>2. PICK f : Sums(f, s, j - 1)
    BY <1>1, <2>1
  <2> DEFINE g == [n \in 0 .. j |-> IF n = j THEN f[j - 1] + s[j].size ELSE f[n]]
  <2>3. ASSUME NEW n \in 0 .. j
        PROVE  g[n] = IF n = 0 THEN 0 ELSE g[n - 1] + s[n].size
    <3>1. CASE n = j
      BY <1>3, <3>1
    <3>2. CASE n # j
      <4>1. n \in 0 .. j - 1 /\ g[n] = f[n]
        BY <3>2
      <4>2. n # 0 => n - 1 \in 0 .. j /\ n - 1 # j /\ g[n - 1] = f[n - 1]
        BY <4>1
      <4> QED
        BY <2>2, <4>1, <4>2 DEF Sums
    <3> QED
      BY <3>1, <3>2
  <2>4. g = [n \in 0 .. j |-> IF n = 0 THEN 0 ELSE g[n - 1] + s[n].size]
    <3>1. g = [n \in 0 .. j |-> g[n]]
      OBVIOUS
    <3> HIDE DEF g
    <3> QED
      BY <2>3, <3>1
  <2>5. Sums(g, s, j)
    BY <2>4 DEF Sums
  <2> QED
    BY <2>5
<1> QED
  BY <1>2, <1>3

LEMMA TotalIs ==
    ASSUME NEW s \in Seq(Messages)
    PROVE  \E f : Sums(f, s, Len(s)) /\ Response!Total(s) = f[Len(s)]
<1> DEFINE g == CHOOSE f : Sums(f, s, Len(s))
<1>1. Sums(g, s, Len(s))
  <2>1. Len(s) \in 0 .. Len(s)
    OBVIOUS
  <2> QED
    BY <2>1, SumsExist
<1>2. Response!Total(s) = g[Len(s)]
  BY DEF Response!Total, Sums
<1> QED
  BY <1>1, <1>2

\* Two running totals agree where they are both defined.
LEMMA SumsAgree ==
    ASSUME NEW s \in Seq(Messages), NEW m \in Messages, NEW f, NEW g,
           Sums(f, s, Len(s)), Sums(g, Append(s, m), Len(s) + 1)
    PROVE  g[Len(s)] = f[Len(s)]
<1> DEFINE Apart == {n \in 0 .. Len(s) : g[n] # f[n]}
<1>1. \A n \in 1 .. Len(s) : Append(s, m)[n] = s[n]
  OBVIOUS
<1>2. f[0] = 0 /\ g[0] = 0 /\ Len(s) \in Nat
  BY DEF Sums
<1>3. \A n \in 1 .. Len(s) : f[n] = f[n - 1] + s[n].size /\ g[n] = g[n - 1] + s[n].size
  <2> SUFFICES ASSUME NEW n \in 1 .. Len(s)
               PROVE  f[n] = f[n - 1] + s[n].size /\ g[n] = g[n - 1] + s[n].size
    OBVIOUS
  <2>1. n \in 0 .. Len(s) /\ n \in 0 .. Len(s) + 1 /\ n # 0
    OBVIOUS
  <2> QED
    BY <1>1, <2>1 DEF Sums
<1>4. Apart = {}
  <2> SUFFICES ASSUME Apart # {} PROVE FALSE
    OBVIOUS
  <2>1. PICK n \in Apart : \A i \in Apart : n <= i
    <3>1. Apart \in SUBSET Nat
      OBVIOUS
    <3> QED
      BY <3>1, LeastNumber
  <2>2. n \in 1 .. Len(s)
    BY <1>2, <2>1
  <2>3. n - 1 \in 0 .. Len(s) /\ ~ n <= n - 1
    BY <2>2
  <2>4. g[n - 1] = f[n - 1]
    BY <2>1, <2>3
  <2> QED
    BY <1>3, <2>1, <2>2, <2>4
<1> QED
  BY <1>2, <1>4

\* The total of the messages grows by each message.
LEMMA TotalGrows ==
    ASSUME NEW s \in Seq(Messages), NEW m \in Messages
    PROVE  Response!Total(Append(s, m)) = Response!Total(s) + m.size
<1>1. Append(s, m) \in Seq(Messages) /\ Len(Append(s, m)) = Len(s) + 1
      /\ Append(s, m)[Len(s) + 1] = m /\ Len(s) \in Nat
  OBVIOUS
<1>2. PICK f : Sums(f, s, Len(s)) /\ Response!Total(s) = f[Len(s)]
  BY TotalIs
<1>3. PICK g : Sums(g, Append(s, m), Len(s) + 1) /\ Response!Total(Append(s, m)) = g[Len(s) + 1]
  BY <1>1, TotalIs
<1>4. g[Len(s)] = f[Len(s)]
  BY <1>2, <1>3, SumsAgree
<1>5. g[Len(s) + 1] = g[Len(s)] + m.size
  <2>1. PICK t, k : t = Append(s, m) /\ k = Len(s) + 1
    OBVIOUS
  <2>2. k \in 0 .. k /\ k # 0 /\ k - 1 = Len(s) /\ t[k] = m
    BY <1>1, <2>1
  <2>3. g[k] = g[k - 1] + t[k].size
    <3>1. Sums(g, t, k)
      BY <1>3, <2>1
    <3> QED
      BY <2>2, <3>1 DEF Sums
  <2> QED
    BY <2>1, <2>2, <2>3
<1> QED
  BY <1>2, <1>3, <1>4, <1>5

LEMMA TotalEmpty == Response!Total(<<>>) = 0
<1>1. <<>> \in Seq(Messages) /\ Len(<<>>) = 0
  OBVIOUS
<1>2. PICK f : Sums(f, <<>>, 0) /\ Response!Total(<<>>) = f[0]
  BY <1>1, TotalIs
<1> QED
  BY <1>2 DEF Sums

\* The message being sent is one that may come next, and where the thread is
\* tells what has been sent.
Posted ==
    flight # Idle =>
       \/ /\ flight.then = "clamp" /\ sent = <<>>
          /\ started /\ start # Missing /\ flight.message = Start(start)
       \/ /\ flight.then = "count" /\ sent # <<>>
          /\ started /\ flight.message = Body(output)
       \/ /\ flight.then = "final" /\ sent = <<>>
          /\ \/ started /\ start # Missing /\ flight.message = Start(start)
             \/ ~started /\ flight.message = Start(NoLength)
       \/ flight.then = "returned" /\ sent # <<>> /\ flight.message = Final

Begun ==
    /\ pc \in {"none", "environ"} => ~started /\ sent = <<>>
    /\ pc \in {"app", "close"} => (started <=> sent # <<>>)
    /\ pc \in {"clamp", "count"} => started /\ sent # <<>>
    /\ pc = "final" => sent # <<>>

\* The start message is that of the headers, or the adapter's own.
Headed ==
    /\ sent # <<>> => sent[1] = Start(IF started THEN start ELSE NoLength)
    /\ sent # <<>> /\ started => start # Missing
    /\ start # Missing /\ ~garbled => length = start

Unfinished == sent # <<>> /\ pc \notin {"returned", "raised"} => sent[Len(sent)].type # "final"

\* The bytes counted are those sent, but for what was sent last.
Counted == pc # "raised" => Response!Total(sent) = bytes + (IF pc = "count" THEN output ELSE 0)

Answer == Posted /\ Begun /\ Headed /\ Unfinished /\ Counted

LEMMA InitAnswer == Init => Answer
  BY TotalEmpty DEF Init, Answer, Posted, Begun, Headed, Unfinished, Counted

LEMMA CoroutineAnswers ==
    ASSUME Answer, ReceiveRequest \/ ReceiveFails \/ ThreadEnded \/ CancelSend \/ CutOff, Inv
    PROVE  Answer' /\ sent' = sent /\ garbled' = garbled
<1> USE DEF Answer, Posted, Begun, Headed, Unfinished, Counted, headers
<1>1. CASE ReceiveRequest
  BY <1>1 DEF ReceiveRequest, Inv, NotStarted
<1>2. CASE ReceiveFails
  BY <1>2 DEF ReceiveFails
<1>3. CASE ThreadEnded
  BY <1>3 DEF ThreadEnded
<1>4. CASE CancelSend
  BY <1>4 DEF CancelSend
<1>5. CASE CutOff
  BY <1>5 DEF CutOff
<1> QED
  BY <1>1, <1>2, <1>3, <1>4, <1>5

\* The application's calls of start_response come before the first message.
LEMMA StartResponseAnswers ==
    ASSUME Inv, Answer, NEW exc \in BOOLEAN, NEW n \in Lengths \union {NoLength},
           StartResponse(exc, n) \/ StartResponseGarbled(exc)
    PROVE  Answer' /\ sent' = <<>> /\ sent = <<>>
<1>1. pc = "app" /\ ~started /\ flight = Idle /\ sent = <<>>
  BY DEF StartResponse, StartResponseGarbled, Accepted, Inv, TypeOK, Answer, Begun
<1>2. n # Missing
  BY WsgiAssumption
<1> USE DEF Answer, Posted, Begun, Headed, Unfinished, Counted
<1>3. CASE StartResponse(exc, n)
  BY <1>1, <1>2, <1>3 DEF StartResponse
<1>4. CASE StartResponseGarbled(exc)
  BY <1>1, <1>4 DEF StartResponseGarbled
<1> QED
  BY <1>1, <1>3, <1>4 DEF StartResponse, StartResponseGarbled

-----------------------------------------------------------------------------
(* Every step is a step of a response, or none that can be seen             *)

\* What is seen does not change with the headers once there are messages.
LEMMA SeenStays ==
    ASSUME TypeOK, sent' = sent, garbled' = garbled \/ sent = <<>>
    PROVE  Seen' = Seen
<1>1. CASE garbled' = garbled
  BY <1>1 DEF Seen
<1>2. CASE sent = <<>>
  BY <1>2 DEF Seen
<1> QED
  BY <1>1, <1>2

\* How a message is seen.
AsSeen(m) == IF garbled THEN [m EXCEPT !.length = NoLength] ELSE m

LEMMA SeenIs ==
    ASSUME TypeOK
    PROVE  /\ Len(Seen) = Len(sent) /\ Seen = [i \in 1 .. Len(sent) |-> Seen[i]]
           /\ \A i \in 1 .. Len(sent) : Seen[i] = AsSeen(sent[i])
           /\ ~garbled => Seen = sent
           /\ Seen = <<>> <=> sent = <<>>
<1>1. sent \in Seq(Messages) /\ Len(sent) \in Nat /\ DOMAIN sent = 1 .. Len(sent)
  BY DEF TypeOK
<1>2. CASE garbled
  BY <1>1, <1>2 DEF Seen, AsSeen
<1>3. CASE ~garbled
  BY <1>1, <1>3 DEF Seen, AsSeen
<1> QED
  BY <1>2, <1>3

LEMMA SeenGrows ==
    ASSUME TypeOK, TypeOK', NEW m \in Messages, sent' = Append(sent, m), garbled' = garbled
    PROVE  Seen' = Append(Seen, AsSeen(m))
<1>1. sent \in Seq(Messages) /\ Len(sent) \in Nat /\ DOMAIN sent = 1 .. Len(sent)
  BY DEF TypeOK
<1>2. /\ DOMAIN sent' = 1 .. Len(sent) + 1 /\ sent'[Len(sent) + 1] = m
      /\ \A i \in 1 .. Len(sent) : sent'[i] = sent[i]
  BY <1>1
<1>3. CASE garbled
  <2>1. Seen = [i \in 1 .. Len(sent) |-> [sent[i] EXCEPT !.length = NoLength]]
    BY <1>1, <1>3 DEF Seen
  <2>2. Seen' = [i \in 1 .. Len(sent) + 1 |-> [sent'[i] EXCEPT !.length = NoLength]]
    BY <1>2, <1>3 DEF Seen
  <2>3. ASSUME NEW i \in 1 .. Len(sent) + 1
        PROVE  Seen'[i] = IF i = Len(sent) + 1 THEN AsSeen(m) ELSE Seen[i]
    <3>1. Seen'[i] = [sent'[i] EXCEPT !.length = NoLength]
      BY <2>2
    <3>2. CASE i = Len(sent) + 1
      BY <1>2, <1>3, <3>1, <3>2 DEF AsSeen
    <3>3. CASE i # Len(sent) + 1
      <4>1. i \in 1 .. Len(sent) /\ sent'[i] = sent[i]
        BY <1>1, <1>2, <3>3
      <4>2. Seen[i] = [sent[i] EXCEPT !.length = NoLength]
        BY <2>1, <4>1
      <4> QED
        BY <3>1, <3>3, <4>1, <4>2
    <3> QED
      BY <3>2, <3>3
  <2>4. Append(Seen, AsSeen(m)) =
           [i \in 1 .. Len(sent) + 1 |-> IF i = Len(sent) + 1 THEN AsSeen(m) ELSE Seen[i]]
    BY <1>1, <2>1
  <2> QED
    BY <2>2, <2>3, <2>4
<1>4. CASE ~garbled
  BY <1>4 DEF Seen, AsSeen
<1> QED
  BY <1>3, <1>4

\* The messages, one by one.
LEMMA StartSeen ==
    ASSUME NEW n \in Lengths \union {NoLength}
    PROVE  /\ \E l \in Lengths \union {NoLength} : AsSeen(Start(n)) = Response!Start(l)
           /\ Start(n).size = 0 /\ Start(n).type = "start" /\ Start(n).length = n
           /\ AsSeen(Start(n)).length = (IF garbled THEN NoLength ELSE n)
<1>1. Start(n) = [type |-> "start", size |-> 0, length |-> n]
  BY DEF Start, Response!Start
<1>2. AsSeen(Start(n)) = Response!Start(IF garbled THEN NoLength ELSE n)
  BY <1>1 DEF AsSeen, Response!Start
<1> QED
  BY <1>1, <1>2 DEF Response!Start

LEMMA BodySeen ==
    ASSUME NEW n \in Sizes
    PROVE  /\ AsSeen(Body(n)) = Response!Body(n) /\ AsSeen(Final) = Response!Final(0)
           /\ Body(n).size = n /\ Body(n).type = "body"
           /\ Final.size = 0 /\ Final.type = "final"
  BY DEF AsSeen, Body, Final, Response!Body, Response!Final

LEMMA Kinds ==
    /\ \A n : Start(n).type = "start" /\ Start(n).size = 0 /\ Body(n).type = "body"
    /\ Final.size = 0
  BY DEF Start, Body, Final, Response!Start, Response!Body, Response!Final

\* The next body fits.
LEMMA NextFits ==
    ASSUME TypeOK, Answer, pc = "sending", sent # <<>>, NEW n \in Sizes,
           length # NoLength => bytes + n <= length
    PROVE  Response!Fits(n)
<1>1. sent \in Seq(Messages) /\ Len(sent) \in Nat \ {0} /\ n \in Nat
  BY WsgiAssumption DEF TypeOK
<1>2. Seen # <<>> /\ Len(Seen) = Len(sent)
  BY SeenIs
<1>3. Response!Last(Seen).type # "final"
  <2>1. sent[Len(sent)].type # "final" /\ sent[Len(sent)] \in Messages
    BY <1>1 DEF Answer, Unfinished
  <2>2. Seen[Len(sent)] = AsSeen(sent[Len(sent)])
    BY <1>1, SeenIs
  <2>3. AsSeen(sent[Len(sent)]).type = sent[Len(sent)].type
    <3>1. \A m \in Messages : AsSeen(m).type = m.type
      BY DEF AsSeen, Messages, Start, Body, Final, Response!Start, Response!Body, Response!Final
    <3> QED
      BY <2>1, <3>1
  <2> QED
    BY <1>2, <2>1, <2>2, <2>3 DEF Response!Last
<1>4. ASSUME Head(Seen).length # NoLength
      PROVE  Response!Total(Seen) + n <= Head(Seen).length
  <2>1. PICK l : l = IF started THEN start ELSE NoLength
    OBVIOUS
  <2>2. l \in Lengths \union {NoLength} /\ sent[1] = Start(l)
    BY <2>1 DEF Answer, Headed, TypeOK
  <2>3. Head(Seen) = AsSeen(Start(l))
    <3>1. Seen[1] = AsSeen(sent[1])
      BY <1>1, SeenIs
    <3> QED
      BY <2>2, <3>1
  <2>4. ~garbled /\ l # NoLength /\ Head(Seen).length = l
    BY <1>4, <2>2, <2>3, StartSeen
  <2>5. length = l
    BY <2>1, <2>2, <2>4 DEF Answer, Headed
  <2>6. Seen = sent /\ Response!Total(sent) = bytes
    <3>1. bytes + 0 = bytes
      BY DEF TypeOK
    <3> QED
      BY <2>4, <3>1, SeenIs DEF Answer, Counted
  <2> QED
    BY <2>4, <2>5, <2>6
<1> QED
  BY <1>2, <1>3, <1>4 DEF Response!Fits

\* The message in flight is sent.
LEMMA SentResponds ==
    ASSUME Inv, Inv', Answer, flight.at = "begun", sent' = Append(sent, flight.message),
           garbled' = garbled
    PROVE  Response!Next
<1>1. flight # Idle /\ pc = "sending" /\ TypeOK /\ TypeOK'
  BY DEF Inv, TypeOK, Idle
<1>2. flight.message \in Messages
  BY <1>1, FlightTyped
<1>3. Seen' = Append(Seen, AsSeen(flight.message))
  BY <1>1, <1>2, SeenGrows
<1>4. ASSUME NEW n \in Lengths \union {NoLength}, sent = <<>>, flight.message = Start(n)
      PROVE  Response!SendStart
  <2>1. Seen = <<>>
    BY <1>1, <1>4, SeenIs
  <2>2. PICK l \in Lengths \union {NoLength} : AsSeen(Start(n)) = Response!Start(l)
    BY StartSeen
  <2>3. Seen' = <<Response!Start(l)>>
    BY <1>3, <1>4, <2>1, <2>2
  <2> QED
    BY <2>1, <2>3 DEF Response!SendStart
<1>5. CASE sent = <<>>
  <2>1. \/ flight.message = Start(start) /\ start # Missing
        \/ flight.message = Start(NoLength)
    BY <1>1, <1>5 DEF Answer, Posted
  <2>2. start # Missing => start \in Lengths \union {NoLength}
    BY <1>1 DEF TypeOK
  <2>3. Response!SendStart
    BY <1>4, <1>5, <2>1, <2>2
  <2> QED
    BY <2>3 DEF Response!Next
<1>6. CASE flight.then = "count" /\ sent # <<>>
  <2>1. flight.message = Body(output) /\ output \in Sizes
    BY <1>1, <1>6 DEF Answer, Posted, TypeOK
  <2>2. Response!Fits(output)
    BY <1>1, <1>6, <2>1, NextFits DEF Inv, CutToLength
  <2>3. Seen' = Append(Seen, Response!Body(output))
    BY <1>3, <2>1, BodySeen
  <2> QED
    BY <2>1, <2>2, <2>3 DEF Response!SendBody, Response!Next
<1>7. CASE flight.then = "returned"
  <2>1. flight.message = Final /\ sent # <<>>
    BY <1>1, <1>7 DEF Answer, Posted
  <2>2. 0 \in Sizes /\ (length # NoLength => bytes + 0 <= length)
    BY <1>1, WsgiAssumption DEF TypeOK
  <2>3. Response!Fits(0)
    BY <1>1, <2>1, <2>2, NextFits
  <2>4. Seen' = Append(Seen, Response!Final(0))
    BY <1>3, <2>1, <2>2, BodySeen
  <2> QED
    BY <2>2, <2>3, <2>4 DEF Response!SendFinal, Response!Next
<1> QED
  BY <1>1, <1>5, <1>6, <1>7 DEF Answer, Posted

\* A step of a send.
LEMMA SendingAnswers ==
    ASSUME Inv, Inv', Answer, Sending
    PROVE  Answer' /\ [Response!Next]_Seen
<1>1. flight # Idle /\ pc = "sending" /\ TypeOK
  BY DEF Sending, SendBegins, SendReturns, SendRaises, SendOver, Inv, TypeOK, Idle
<1>2. flight.message \in Messages /\ sent \in Seq(Messages)
  BY <1>1, FlightTyped DEF TypeOK
<1>3. CASE SendBegins
  <2>1. flight'.then = flight.then /\ flight'.message = flight.message
    BY <1>1, <1>3 DEF SendBegins, TypeOK
  <2>2. Answer'
    BY <1>1, <1>3, <2>1
       DEF SendBegins, Answer, Posted, Begun, Headed, Unfinished, Counted, headers
  <2> QED
    BY <1>1, <1>3, <2>2, SeenStays DEF SendBegins, headers
<1>4. ASSUME NEW place, SendOver(place), sent' = Append(sent, flight.message),
             place \in {flight.then, "raised"}
      PROVE  Answer' /\ [Response!Next]_Seen
  <2>1. /\ flight.at = "begun" /\ pc' = place /\ flight' = Idle
        /\ started' = started /\ start' = start /\ length' = length /\ garbled' = garbled
        /\ output' = output /\ bytes' = bytes
    BY <1>4 DEF SendOver, headers
  <2>2. /\ sent' # <<>> /\ sent'[Len(sent')] = flight.message
        /\ IF sent = <<>> THEN sent'[1] = flight.message ELSE sent'[1] = sent[1]
    BY <1>2, <1>4
  <2>3. Posted'
    BY <2>1 DEF Posted
  <2>4. Begun'
    BY <1>1, <1>4, <2>1, <2>2 DEF Answer, Posted, Begun
  <2>5. Headed'
    BY <1>1, <2>1, <2>2 DEF Answer, Posted, Headed
  <2>6. Unfinished'
    <3>1. CASE flight.then = "returned"
      BY <1>4, <2>1, <3>1 DEF Unfinished
    <3>2. CASE flight.then # "returned"
      <4>1. flight.message.type # "final"
        <5>1. flight.message = Body(output) \/ \E n : flight.message = Start(n)
          BY <1>1, <3>2 DEF Answer, Posted
        <5> QED
          BY <5>1, Kinds
      <4> QED
        BY <2>2, <4>1 DEF Unfinished
    <3> QED
      BY <3>1, <3>2
  <2>7. Counted'
    <3>1. Response!Total(sent') = Response!Total(sent) + flight.message.size
      BY <1>2, <1>4, TotalGrows
    <3>2. Response!Total(sent) = bytes /\ bytes \in Nat /\ output \in Nat
      BY <1>1, WsgiAssumption DEF Answer, Counted, TypeOK
    <3>3. CASE flight.then = "count"
      <4>1. flight.message.size = output
        <5>1. flight.message = Body(output) /\ output \in Sizes
          BY <1>1, <3>3 DEF Answer, Posted, TypeOK
        <5> QED
          BY <5>1, BodySeen
      <4> QED
        BY <1>4, <2>1, <3>1, <3>2, <3>3, <4>1 DEF Counted
    <3>4. CASE flight.then # "count"
      <4>1. flight.message.size = 0
        <5>1. flight.message = Final \/ \E n : flight.message = Start(n)
          BY <1>1, <3>4 DEF Answer, Posted
        <5> QED
          BY <5>1, Kinds
      <4> QED
        BY <1>4, <2>1, <3>1, <3>2, <3>4, <4>1 DEF Counted
    <3> QED
      BY <3>3, <3>4
  <2>8. Response!Next
    BY <1>4, <2>1, SentResponds
  <2> QED
    BY <2>3, <2>4, <2>5, <2>6, <2>7, <2>8 DEF Answer
<1>5. CASE SendReturns
  BY <1>4, <1>5 DEF SendReturns
<1>6. CASE SendRaises /\ sent' = Append(sent, flight.message)
  BY <1>4, <1>6 DEF SendRaises
<1>7. CASE SendRaises /\ sent' = sent
  <2>1. pc' = "raised" /\ flight' = Idle /\ UNCHANGED <<headers, output, bytes>>
    BY <1>7 DEF SendRaises, SendOver
  <2>2. Answer'
    BY <1>7, <2>1 DEF Answer, Posted, Begun, Headed, Unfinished, Counted, headers
  <2> QED
    BY <1>1, <1>7, <2>1, <2>2, SeenStays DEF headers
<1> QED
  BY <1>3, <1>5, <1>6, <1>7 DEF Sending, SendRaises

\* The thread posts a message, or fails for want of a start message.
LEMMA SendAnswers ==
    ASSUME Answer, pc \in {"environ", "app", "clamp", "close", "final"},
           NEW message, NEW then, Send(message, then),
           UNCHANGED <<start, length, garbled, bytes, sent>>,
           sent # <<>> => started' = started, Posted'
    PROVE  Answer'
<1>1. pc' = "sending"
  BY DEF Send
<1> QED
  BY <1>1 DEF Answer, Begun, Headed, Unfinished, Counted

LEMMA StartAnswers ==
    ASSUME TypeOK, Answer, pc \in {"app", "close"}, ~started, NEW then \in {"clamp", "final"},
           SendStart(then), bytes' = bytes, sent' = sent
    PROVE  Answer'
<1>1. sent = <<>> /\ flight = Idle /\ started' /\ UNCHANGED <<start, length, garbled>>
  BY DEF TypeOK, Answer, Begun, SendStart
<1>2. CASE start = Missing
  <2>1. pc' = "raised" /\ flight' = Idle
    BY <1>1, <1>2 DEF SendStart
  <2> QED
    BY <1>1, <2>1 DEF Answer, Posted, Begun, Headed, Unfinished, Counted
<1>3. CASE start # Missing
  <2>1. Send(Start(start), then)
    BY <1>3 DEF SendStart
  <2>2. flight'.then = then /\ flight'.message = Start(start)
    BY <2>1 DEF Send
  <2>3. Posted'
    BY <1>1, <1>3, <2>2 DEF Posted
  <2> QED
    BY <1>1, <2>1, <2>3, SendAnswers
<1> QED
  BY <1>2, <1>3

\* A step of run_wsgi_app.
LEMMA ThreadAnswers ==
    ASSUME Inv, Answer, Thread \/ \E n \in Sizes : AppYields(n)
    PROVE  Answer' /\ sent' = sent /\ garbled' = garbled
<1>1. TypeOK
  BY DEF Inv
<1> USE DEF Answer, Posted, Begun, Headed, Unfinished, Counted, headers
<1>2. CASE Environ
  BY <1>2 DEF Environ
<1>3. CASE BadRequest
  BY <1>3 DEF BadRequest, Send
<1>4. CASE SendOutput
  BY <1>4 DEF SendOutput, Send
<1>5. CASE Count
  <2>1. bytes \in Nat /\ output \in Nat /\ bytes' = bytes + output
    BY <1>1, <1>5, WsgiAssumption DEF Count, TypeOK
  <2> QED
    BY <1>1, <1>5, <2>1 DEF Count, TypeOK
<1>6. CASE AppEnds
  BY <1>6 DEF AppEnds
<1>7. CASE Close
  <2>1. CASE started
    BY <1>7, <2>1 DEF Close, Send
  <2>2. CASE ~started
    <3> HIDE DEF Answer
    <3> QED
      BY <1>1, <1>7, <2>2, StartAnswers DEF Close, SendStart
  <2> QED
    BY <2>1, <2>2
<1>8. CASE SendFinal
  BY <1>8 DEF SendFinal, Send
<1>9. ASSUME NEW n \in Sizes, AppYields(n)
      PROVE  Answer' /\ sent' = sent /\ garbled' = garbled
  <2>1. CASE started
    BY <1>1, <1>9, <2>1 DEF AppYields, TypeOK
  <2>2. CASE ~started
    <3> HIDE DEF Answer
    <3> QED
      BY <1>1, <1>9, <2>2, StartAnswers DEF AppYields, SendStart
  <2> QED
    BY <2>1, <2>2
<1> QED
  BY <1>2, <1>3, <1>4, <1>5, <1>6, <1>7, <1>8, <1>9 DEF Thread

\* What run_wsgi_app sends is a response, for any application and any server:
\* one start message before the first body, no more bytes of body than it
\* announced, and nothing after the final message; sends that fail, a
\* cancellation and a start_response that failed do not change that.
THEOREM ResponseImplemented == Spec => ImplementsHttpResponse
<1>1. Init => Answer /\ Response!Init
  BY InitAnswer DEF Init, Response!Init, Seen
<1>2. ASSUME Inv, Inv', Answer, [Next]_vars
      PROVE  Answer' /\ [Response!Next]_Seen
  <2>1. TypeOK
    BY <1>2 DEF Inv
  <2>2. CASE UNCHANGED vars
    <3>1. Answer'
      BY <1>2, <2>2
         DEF vars, loop, headers, Answer, Posted, Begun, Headed, Unfinished, Counted
    <3> QED
      BY <2>1, <2>2, <3>1, SeenStays DEF vars, headers
  <2>3. CASE Sending
    BY <1>2, <2>3, SendingAnswers
  <2>4. CASE Thread \/ \E n \in Sizes : AppYields(n)
    BY <1>2, <2>1, <2>4, ThreadAnswers, SeenStays
  <2>5. CASE ReceiveRequest \/ ReceiveFails \/ ThreadEnded \/ CancelSend \/ CutOff
    BY <1>2, <2>1, <2>5, CoroutineAnswers, SeenStays
  <2>6. CASE \/ \E exc \in BOOLEAN, n \in Lengths \union {NoLength} : StartResponse(exc, n)
             \/ \E exc \in BOOLEAN : StartResponseGarbled(exc)
    BY <1>2, <2>1, <2>6, StartResponseAnswers, SeenStays
  <2> QED
    BY <1>2, <2>2, <2>3, <2>4, <2>5, <2>6 DEF Next
<1> QED
  BY <1>1, <1>2, Invariant, PTL DEF Spec, ImplementsHttpResponse, Response!Spec
=============================================================================
