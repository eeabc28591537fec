---------------------------- MODULE HttpExchange ----------------------------
(***************************************************************************)
(* An http_client and an http_connection of an http_server that exchange   *)
(* requests and responses over one connection: the buffers they send from, *)
(* the state of their receivers, the events of the application and the     *)
(* built-in router.                                                        *)
(*                                                                         *)
(* A message is a sequence of parts: its head, its body, or its chunks and *)
(* the last one.  A read brings any number of whole parts (HttpReceiver    *)
(* has the reads that end inside one).  Module Connection shows that one   *)
(* write at a time is in progress, that SENT follows it, and what a        *)
(* shutdown does; here a TCP connection is meant.                          *)
(*                                                                         *)
(* A send while an earlier message still has to leave its buffer replaces  *)
(* memory that the write in progress refers to.  That is undefined         *)
(* behaviour: the model notes it and goes no further.                      *)
(***************************************************************************)
EXTENDS RequestRouter

CONSTANTS
  Requests,      \* what the client's application may ask
  Registrations, \* sequences of add_method calls of the server's application
  Modes,         \* see Mode
  MaxRequests,   \* bound on the requests of one connection
  StreamLength   \* chunks of a streamed response

ASSUME BoundsAssumption == MaxRequests \in Nat /\ StreamLength \in Nat

(* A request has a body, is sent in chunks or is no more than its head.    *)
ASSUME RequestsAssumption ==
  \A r \in Requests :
    /\ r.body \in BOOLEAN /\ r.keep \in BOOLEAN /\ r.expect \in BOOLEAN
    /\ r.chunks \in Nat /\ (r.body => r.chunks = 0)

(***************************************************************************)
(* server: how it answers: with the "router", "late" (from outside the     *)
(*         request handler) or by a "stream" of chunks, sent one by one    *)
(*         from the message sent event;                                    *)
(* trace:  trace_enabled_;                                                 *)
(* careful: the client waits for each answer, and for a 100 Continue,      *)
(*         before it sends on.                                             *)
(***************************************************************************)
Mode == [server : {"router", "late", "stream"}, trace : BOOLEAN, careful : BOOLEAN]

ASSUME ModesAssumption == Modes \subseteq Mode

VARIABLES
  mode,
  routes, \* the add_method calls of the server's application
  client, \* see NewClient
  server  \* see NewServer

vars == <<mode, routes, client, server>>

Nothing == 0

(* A cleared receiver: of a request (head: which one, complete: it is) or  *)
(* of a response (answer: its head); data: how much of its body came in.   *)
NoRx == [head |-> Nothing, complete |-> FALSE, answer |-> [follow |-> "head"], data |-> 0]

(* Both ends have the buffers being written, transmitting_, the receiver,  *)
(* and what is under way to the other end.  stopped: a bad message came    *)
(* in, or an exception left the handler of a request, so that no further   *)
(* read is started; what follows is not followed.                          *)
(* The client: asked, the requests; left, the parts of the last one that   *)
(* it still has to send; got, what the response handlers told.             *)
NewClient ==
  [ writing |-> <<>>, busy |-> FALSE, rx |-> NoRx, stopped |-> FALSE,
    wire |-> <<>>, open |-> TRUE, undefined |-> FALSE,
    asked |-> <<>>, left |-> <<>>, got |-> <<>> ]

(* The server: told, what the request handler got; owed, requests to       *)
(* answer late; stream, the request being answered in chunks, and left,    *)
(* the number of its chunks to send.                                       *)
NewServer ==
  [ writing |-> <<>>, busy |-> FALSE, rx |-> NoRx, stopped |-> FALSE,
    wire |-> <<>>, open |-> TRUE, undefined |-> FALSE,
    told |-> <<>>, owed |-> <<>>, stream |-> Nothing, left |-> 0 ]

Asked(i)   == client.asked[i]
Chunked(r) == r.chunks > 0

-----------------------------------------------------------------------------
(* Sending.  A part of a message and the buffers of the connection that it *)
(* is written from.                                                        *)
Buffered(bufs, part) == [bufs |-> bufs, part |-> part]
Part(is, of) == [is |-> is, of |-> of]

InHeader(part) == Buffered({"tx_header_"}, part)
Body(i)  == Buffered({"tx_body_"}, Part("body", i))
Chunk(i) == Buffered({"tx_header_", "tx_body_"}, Part("chunk", i))
LastChunk(i) == InHeader(Part("last", i))

Uses(message) == UNION {message[i].bufs : i \in DOMAIN message}

SendForgetful(e, message) ==                   \* mutant
  IF e.busy THEN e ELSE [e EXCEPT !.writing = message]

(* Fill the buffers and call send_data, which refuses while transmitting.  *)
SendData(e, message) ==
  IF e.busy
  THEN [e EXCEPT !.undefined = @ \/ Uses(e.writing) \cap Uses(message) # {}]
  ELSE [e EXCEPT !.busy = TRUE, !.writing = message]

(* n more parts of the message leave.                                      *)
Transmit(e, n) ==
  [e EXCEPT !.writing = SubSeq(@, n + 1, Len(@)),
            !.wire = @ \o [i \in 1 .. n |-> e.writing[i].part]]

Written(e) == e.busy /\ e.writing = <<>>       \* its SENT is to be handled

-----------------------------------------------------------------------------
(* The server.                                                             *)
ClearRx(s) == [s EXCEPT !.rx = NoRx]

KeepAliveOfAnother(s) == s.rx.head # Nothing /\ Asked(s.rx.head).keep  \* mutant

(* A cleared request is keep-alive.                                        *)
KeepAlive(s) == s.rx.head # Nothing => Asked(s.rx.head).keep

\* When n is the number of parts that the socket has taken by then.
ShutdownNow(s, n) ==
  [Transmit(s, Min({n, Len(s.writing)})) EXCEPT !.open = FALSE]

SendClearing(s, message, continue, n) ==       \* mutant
  LET t == SendData(ClearRx(s), message)
  IN  IF KeepAlive(s) THEN t ELSE ShutdownNow(t, n)

(* http_connection::send.  When the request was not keep-alive, shutdown() *)
(* follows at once.                                                        *)
Send(s, message, continue, n) ==
  LET t == SendData(IF continue THEN s ELSE ClearRx(s), message)
  IN  IF KeepAlive(s) THEN t ELSE ShutdownNow(t, n)

(* The head of an answer: to which request and what, whether a body or     *)
(* chunks follow, and whether it has an HTTP version, which is that of the *)
(* request that the receiver holds.                                        *)
HeadOf(s, i, answer, follow) ==
  InHeader([is |-> "head", of |-> i, answer |-> answer, follow |-> follow,
            version |-> s.rx.head # Nothing])

(* send(response, body).  A refusal has an empty body.                     *)
IsHead(s) == s.rx.complete /\ Asked(s.rx.head).method = "HEAD"

SendResponse(s, i, answer, n) ==
  LET full == answer.status = "OK"
      head == HeadOf(s, i, answer, IF full THEN "body" ELSE "nothing")
  IN  Send(s, <<head>> \o IF full /\ ~IsHead(s) THEN <<Body(i)>> ELSE <<>>, FALSE, n)

(* send(response) with the head of a response in chunks, and send_response *)
(* for a status without a handler.                                         *)
SendHead(s, i, n) ==
  Send(s, <<HeadOf(s, i, Answer("OK", "stream", NoParameters), "chunks")>>, FALSE, n)

SendCode(s, i, status, n) ==
  Send(s, <<HeadOf(s, i, Refusal(status), "nothing")>>, status = "CONTINUE", n)

(* The request as the handler gets it: translate_head_ makes a HEAD a GET. *)
Translated(r) == [r EXCEPT !.method = IF @ = "HEAD" THEN "GET" ELSE @]

Registered(calls) ==
  FoldLeft(LAMBDA t, c : AddMethod(t, c.method, c.path, c.handler), <<>>, calls)

\* What the router answers to each request, tabulated.
RouterAnswer ==
  [calls \in Registrations |->
    [r \in Requests |-> HandleRequest(Registered(calls), Translated(r))]]

(* route_request.  What the router throws goes through receive_handler and *)
(* read_callback, which then neither answers nor reads.                    *)
RouteRequest(s, i, n) ==
  LET answer == RouterAnswer[routes][Asked(i)]
  IN  IF answer = Thrown THEN [s EXCEPT !.stopped = TRUE] ELSE SendResponse(s, i, answer, n)

(* http_request_handler_: route_request, or the application's handler.     *)
Handler(s, i, n) ==
  LET t == [s EXCEPT !.told = Append(@, [of |-> i, data |-> s.rx.data])]
  IN CASE mode.server = "router" -> RouteRequest(t, i, n)
       [] mode.server = "stream" ->
            [SendHead(t, i, n) EXCEPT !.stream = i, !.left = StreamLength]
       [] mode.server = "late"   -> [t EXCEPT !.owed = Append(@, i)]

(* receive_handler on VALID.  TRACE is answered by the server itself.  A   *)
(* request in chunks stays in the receiver when its handler has returned,  *)
(* any request when an exception has left it.                              *)
HandlerReturned(t) ==
  IF t.stopped \/ (t.rx.head # Nothing /\ Chunked(Asked(t.rx.head))) THEN t ELSE ClearRx(t)

Traced(s, i, n) ==
  ClearRx(IF mode.trace
          THEN SendResponse(s, i, Answer("OK", "trace", NoParameters), n)
          ELSE SendCode(s, i, "METHOD_NOT_ALLOWED", n))

Valid(s, i, n) ==
  IF Asked(i).method = "TRACE" THEN Traced(s, i, n) ELSE HandlerReturned(Handler(s, i, n))

(* ... and on INVALID.                                                     *)
Invalid(s, n) ==
  [ClearRx(SendCode(ClearRx(s), Nothing, "BAD_REQUEST", n)) EXCEPT !.stopped = TRUE]

TakeCompleteAtOnce(s, part) ==                 \* mutant
  [s EXCEPT !.rx = [NoRx EXCEPT !.head = part.of, !.complete = TRUE]]

(* request_receiver::receive, by parts: what one more part makes of rx.    *)
Take(s, part) ==
  CASE part.is = "head" ->
         [s EXCEPT !.rx = [NoRx EXCEPT !.head = part.of,
            !.complete = ~Asked(part.of).body /\ ~Chunked(Asked(part.of))]]
    [] part.is = "body"  -> [s EXCEPT !.rx.complete = TRUE, !.rx.data = @ + 1]
    [] part.is = "chunk" -> [s EXCEPT !.rx.data = @ + 1]
    [] part.is = "last"  -> [s EXCEPT !.rx.complete = TRUE]

(* The part is the next one of the request in the receiver.                *)
Fits(s, part) ==
  IF part.is = "head" THEN s.rx.head = Nothing
  ELSE s.rx.head = part.of /\ ~s.rx.complete

ExpectsAlways(s, part) == part.is # "last" /\ Asked(part.of).expect    \* mutant

(* EXPECT_CONTINUE: once, for the head of a request in chunks.             *)
Expects(s, part) ==
  part.is = "head" /\ Chunked(Asked(part.of)) /\ Asked(part.of).expect

\* t: the state with the part taken.
Taken(t, part, n) ==
  IF t.rx.complete THEN Valid(t, part.of, n)
  ELSE IF Expects(t, part) THEN SendCode(t, part.of, "CONTINUE", n)
  ELSE t

ServerTakes(s, part, n) ==
  IF s.stopped \/ s.undefined THEN s
  ELSE IF ~Fits(s, part) THEN Invalid(s, n)
  ELSE Taken(Take(s, part), part, n)

-----------------------------------------------------------------------------
(* The client.                                                             *)

(* http_client::send: the receiver starts afresh.                          *)
ClientSends(c, message) == SendData(ClearRx(c), message)

Delivered(c, head, whole) ==
  [c EXCEPT !.got = Append(@, [of |-> head.of, answer |-> head.answer, whole |-> whole]),
            !.rx = NoRx]

InvalidResponse(c) == [ClearRx(c) EXCEPT !.stopped = TRUE]

(* receive_handler and response_receiver::receive, by parts; more: there   *)
(* is more in the same read.  A 100 Continue has no Content-Length, and so *)
(* takes what follows it for its body.  The receiver does not know that a  *)
(* request was a HEAD, and waits for the body.                             *)
ClientTakes(c, part, more) ==
  LET h == c.rx.answer
      follows == h.follow
  IN  IF c.stopped THEN c
      ELSE CASE part.is = "head" /\ follows = "head" /\ part.version ->
                  IF part.answer = Refusal("CONTINUE") /\ more
                    THEN [c EXCEPT !.stopped = TRUE]
                  ELSE IF part.follow = "nothing" THEN Delivered(c, part, TRUE)
                  ELSE [c EXCEPT !.rx.answer = part]
             [] follows = "body" -> Delivered(c, h, part = Part("body", h.of))
             [] part.is = "chunk" /\ follows = "chunks" -> [c EXCEPT !.rx.data = @ + 1]
             [] part.is = "last" /\ follows = "chunks" ->
                  Delivered(c, h, part.of = h.of /\ c.rx.data = StreamLength)
             [] OTHER -> InvalidResponse(c)

-----------------------------------------------------------------------------
Told(i)     == \E j \in DOMAIN client.got : client.got[j].of = i
Answered(i) == \E j \in DOMAIN client.got :
                 client.got[j].of = i /\ client.got[j].answer # Refusal("CONTINUE")

(* A careful client's last request awaits its answer, or its 100 Continue. *)
Awaits ==
  LET i == Len(client.asked)
  IN  \/ client.left = <<>> /\ i > 0 /\ ~Answered(i)
      \/ client.left # <<>> /\ Asked(i).expect /\ ~Told(i)

MaySend == client.open /\ ~client.undefined /\ (mode.careful => ~client.busy /\ ~Awaits)

(* A request and, unless it comes in chunks, its body.                     *)
Ask(r) ==
  LET i == Len(client.asked) + 1
      message == <<InHeader(Part("head", i))>> \o IF r.body THEN <<Body(i)>> ELSE <<>>
  IN  /\ MaySend /\ client.left = <<>> /\ i <= MaxRequests
      /\ client' = [ClientSends(client, message) EXCEPT
                      !.asked = IF client.busy THEN @ ELSE Append(@, r),
                      !.left = IF Chunked(r) /\ ~client.busy
                                 THEN [k \in 1 .. r.chunks |-> Chunk(i)] \o <<LastChunk(i)>>
                                 ELSE @]
      /\ UNCHANGED <<mode, routes, server>>

(* send_chunk and last_chunk.                                              *)
AskMore ==
  /\ MaySend /\ client.left # <<>>
  /\ client' = [ClientSends(client, <<Head(client.left)>>) EXCEPT
                  !.left = IF client.busy THEN @ ELSE Tail(@)]
  /\ UNCHANGED <<mode, routes, server>>

ClientWrites ==
  /\ client.open /\ ~client.undefined
  /\ \E n \in 1 .. Len(client.writing) : client' = Transmit(client, n)
  /\ UNCHANGED <<mode, routes, server>>

ClientSent ==
  /\ client.open /\ ~client.undefined /\ Written(client)
  /\ client' = [client EXCEPT !.busy = FALSE]
  /\ UNCHANGED <<mode, routes, server>>

(* A read of n parts, taken one after the other.  The end of a write that  *)
(* preceded the read was queued before it.                                 *)
ClientReading(n) ==
  LET after[i \in 0 .. n] ==
        IF i = 0 THEN {client}
        ELSE {ClientTakes(c, server.wire[i], i < n) : c \in after[i - 1]}
  IN  after[n]

ClientReads ==
  /\ client.open /\ ~client.undefined /\ ~Written(client)
  /\ \E n \in 1 .. Len(server.wire) :
       /\ client' \in ClientReading(n)
       /\ server' = [server EXCEPT !.wire = SubSeq(@, n + 1, Len(@))]
  /\ UNCHANGED <<mode, routes>>

(* The server has closed, and the client has read everything.              *)
ClientLost ==
  /\ client.open /\ ~server.open /\ server.wire = <<>>
  /\ client' = [client EXCEPT !.open = FALSE]
  /\ UNCHANGED <<mode, routes, server>>

ServerMayRead ==
  server.open /\ ~server.undefined /\ ~Written(server) /\ client.wire # <<>>

ServerReading(n) ==
  LET after[i \in 0 .. n] ==
        IF i = 0 THEN {server}
        ELSE {ServerTakes(s, client.wire[i], taken) : s \in after[i - 1], taken \in 0 .. 2}
  IN  after[n]

ServerReads ==
  /\ ServerMayRead
  /\ \E n \in 1 .. Len(client.wire) :
       /\ server' \in ServerReading(n)
       /\ client' = [client EXCEPT !.wire = SubSeq(@, n + 1, Len(@))]
  /\ UNCHANGED <<mode, routes>>

ServerWrites ==
  /\ server.open /\ ~server.undefined
  /\ \E n \in 1 .. Len(server.writing) : server' = Transmit(server, n)
  /\ UNCHANGED <<mode, routes, client>>

(* The message sent event, from which an answer in chunks goes on with     *)
(* send_chunk and ends with last_chunk.                                    *)
SendChunk(s, i)     == [SendData(s, <<Chunk(i)>>) EXCEPT !.left = @ - 1]
SendLastChunk(s, i) == [SendData(s, <<LastChunk(i)>>) EXCEPT !.stream = Nothing]

ServerSent ==
  /\ server.open /\ ~server.undefined /\ Written(server)
  /\ LET s == [server EXCEPT !.busy = FALSE]
         i == s.stream
     IN  server' =
           IF i = Nothing THEN s
           ELSE IF s.left > 0 THEN SendChunk(s, i) ELSE SendLastChunk(s, i)
  /\ UNCHANGED <<mode, routes, client>>

(* The application answers a request after its handler has returned: what  *)
(* the router would, and a refusal where the router throws.                *)
LateAnswer(i) ==
  LET answer == RouterAnswer[routes][Asked(i)]
  IN  IF answer = Thrown THEN Refusal("UNAUTHORISED") ELSE answer

AnswerLate ==
  /\ server.open /\ ~server.undefined /\ server.owed # <<>>
  /\ \E taken \in 0 .. 2 :
       LET i == Head(server.owed)
       IN  server' = [SendResponse(server, i, LateAnswer(i), taken)
                        EXCEPT !.owed = Tail(@)]
  /\ UNCHANGED <<mode, routes, client>>

Init ==
  /\ mode \in Modes
  /\ routes \in Registrations
  /\ client = NewClient /\ server = NewServer

Next ==
  \/ \E r \in Requests : Ask(r)
  \/ AskMore
  \/ ClientWrites
  \/ ClientSent
  \/ ClientReads
  \/ ClientLost
  \/ ServerReads
  \/ ServerWrites
  \/ ServerSent
  \/ AnswerLate

Spec == Init /\ [][Next]_vars

(* asio runs what is ready, the network carries what was written, and a    *)
(* client that has begun a request finishes it.                            *)
Fairness ==
  /\ WF_vars(AskMore)
  /\ WF_vars(ClientWrites) /\ WF_vars(ClientSent) /\ WF_vars(ClientReads)
  /\ WF_vars(ServerWrites) /\ WF_vars(ServerSent)
  /\ []<>~ServerMayRead \/ []<><<ServerReads>>_vars     \* WF_vars(ServerReads)

FairSpec == Spec /\ Fairness

-----------------------------------------------------------------------------
(* Type correctness: each end writes only parts that it may send, and at   *)
(* most the rest of one message.                                           *)
ExchangeTypeOK ==
  /\ mode \in Modes
  /\ client.asked \in Seq(Requests) /\ Len(client.asked) <= MaxRequests
  /\ \A e \in {client, server} :
       /\ {e.busy, e.open, e.stopped, e.undefined} \subseteq BOOLEAN
       /\ e.writing # <<>> => e.busy
       /\ \A i \in DOMAIN e.wire : e.wire[i].of \in 0 .. Len(client.asked)
  /\ server.rx.head \in 0 .. Len(client.asked)
  /\ \A i \in DOMAIN server.told : server.told[i].of \in 1 .. Len(client.asked)

(* tx_header_ and tx_body_ are left alone until their write is over, when  *)
(* the client waits for its answers: whatever way the server answers, and  *)
(* for the 100 Continue and the chunks too.                                *)
BuffersOutliveTheirWrite ==
  mode.careful => ~client.undefined /\ ~server.undefined

(* The request handler is told each request once, in the order they were   *)
(* asked, with all of its body, whether the requests are pipelined or not  *)
(* and however they were cut into reads.                                   *)
RequestsToldOnceWhole ==
  \A i \in DOMAIN server.told :
    /\ i > 1 => server.told[i - 1].of < server.told[i].of
    /\ LET r == Asked(server.told[i].of)
       IN  server.told[i].data = IF Chunked(r) THEN r.chunks ELSE IF r.body THEN 1 ELSE 0

(* shutdown() cuts no answer to a request that asked to keep the           *)
(* connection, when requests are not pipelined.                            *)
CutOnlyAfterClose ==
  mode.careful /\ ~server.open =>
    \A i \in DOMAIN server.writing : ~Asked(server.writing[i].part.of).keep
=============================================================================
