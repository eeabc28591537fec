------------------------- MODULE HttpExchange_proofs -------------------------
(***************************************************************************)
(* Proofs about HttpExchange, for every set of requests and of routes, any *)
(* modes, any bound on the requests and any length of the streams.         *)
(*                                                                         *)
(* What the client has written and has still to write is one stream of     *)
(* parts.  Each of its parts has a label, the request and the place in it, *)
(* and consecutive parts have consecutive labels.  The label of the first  *)
(* part the server has not read, the cursor, says what the receiver holds  *)
(* and which requests the handler has been told.                           *)
(***************************************************************************)
EXTENDS HttpExchange, SequenceTheorems, WellFoundedInduction, TLAPS

(* What the messages are made of, with N requests asked.                   *)
Answers ==
  {Answer("OK", "stream", NoParameters), Answer("OK", "trace", NoParameters)}
    \cup {Refusal(x) : x \in {"BAD_REQUEST", "CONTINUE", "METHOD_NOT_ALLOWED",
                            "UNAUTHORISED"}}
    \cup {RouterAnswer[c][r] : c \in Registrations, r \in Requests}

Heads(N) ==
  [is : {"head"}, of : 0 .. N, answer : Answers,
   follow : {"nothing", "body", "chunks"}, version : BOOLEAN]

Asks(N)    == [is : {"head", "body", "chunk", "last"}, of : 1 .. N]
Replies(N) == Heads(N) \cup [is : {"body", "chunk", "last"}, of : 0 .. N]

Buffers == SUBSET {"tx_header_", "tx_body_"}
AskPieces(N)   == [bufs : Buffers, part : Asks(N)]
ReplyPieces(N) == [bufs : Buffers, part : Replies(N)]

NoAnswer == [follow |-> "head"]
Received(N) == [head : 0 .. N, complete : BOOLEAN, answer : {NoAnswer}, data : Nat]
Awaited(N)  == [head : {Nothing}, complete : {FALSE}, answer : Heads(N) \cup {NoAnswer},
                data : Nat]

Clients(N) ==
  [ writing : Seq(AskPieces(N)), busy : BOOLEAN, rx : Awaited(N), stopped : BOOLEAN,
    wire : Seq(Asks(N)), open : BOOLEAN, undefined : BOOLEAN,
    asked : Seq(Requests), left : Seq(AskPieces(N)),
    got : Seq([of : 0 .. N, answer : Answers, whole : BOOLEAN]) ]

Servers(N) ==
  [ writing : Seq(ReplyPieces(N)), busy : BOOLEAN, rx : Received(N), stopped : BOOLEAN,
    wire : Seq(Replies(N)), open : BOOLEAN, undefined : BOOLEAN,
    told : Seq([of : 1 .. N, data : Nat]), owed : Seq(1 .. N),
    stream : 0 .. N, left : Nat ]

ExchangeTypes ==
  /\ mode \in Modes /\ routes \in Registrations
  /\ client \in Clients(Len(client.asked)) /\ Len(client.asked) <= MaxRequests
  /\ server \in Servers(Len(client.asked))
  /\ \A e \in {client, server} : e.writing # <<>> => e.busy

-----------------------------------------------------------------------------
(* Arithmetic and sequences.                                               *)

LEMMA Least ==
  ASSUME NEW S \in SUBSET Nat, S # {}
  PROVE  \E m \in S : \A n \in S : m <= n
<1> DEFINE R == OpToRel(<, Nat)
<1>1. IsWellFoundedOn(R, Nat)
  BY NatLessThanWellFounded
<1>2. \A x, y \in Nat : <<x, y>> \in R <=> x < y
  BY DEF OpToRel
<1> HIDE DEF R
<1>3. PICK m \in S : \A n \in S : ~(<<n, m>> \in R)
  BY <1>1, WFMin
<1>4. \A n \in S : m <= n
  <2> TAKE n \in S
  <2>1. m \in Nat /\ n \in Nat
    OBVIOUS
  <2>2. ~(n < m)
    BY <1>2, <1>3, <2>1
  <2> QED BY <2>1, <2>2
<1> QED BY <1>4

(* Induction over the numbers up to n, for a set of those that are good.   *)
LEMMA CountUp ==
  ASSUME NEW n \in Nat, NEW Good, 0 \in Good,
         \A i \in 0 .. n - 1 : i \in Good => i + 1 \in Good
  PROVE  0 .. n \subseteq Good
<1> SUFFICES ASSUME (0 .. n) \ Good # {} PROVE FALSE
  OBVIOUS
<1>1. PICK m \in (0 .. n) \ Good : \A i \in (0 .. n) \ Good : m <= i
  <2>1. (0 .. n) \ Good \in SUBSET Nat
    OBVIOUS
  <2> QED BY <2>1, Least
<1>2. m # 0 /\ m - 1 \in 0 .. n - 1
  BY <1>1
<1>3. m - 1 \in Good
  BY <1>1, <1>2
<1> QED BY <1>1, <1>2, <1>3

LEMMA MinOfTwo ==
  ASSUME NEW a \in Nat, NEW b \in Nat
  PROVE  Min({a, b}) \in {a, b} /\ Min({a, b}) <= b
<1>1. \E x \in {a, b} : \A y \in {a, b} : x <= y
  <2>1. CASE a <= b
    BY <2>1
  <2>2. CASE ~(a <= b)
    BY <2>2
  <2> QED BY <2>1, <2>2
<1>2. Min({a, b}) = CHOOSE x \in {a, b} : \A y \in {a, b} : x <= y
  BY DEF Min
<1> QED BY <1>1, <1>2

(* What is left of a sequence without its first n elements.                *)
LEMMA Rest ==
  ASSUME NEW P, NEW w \in Seq(P), NEW n \in 0 .. Len(w)
  PROVE  LET v == SubSeq(w, n + 1, Len(w))
         IN  /\ v \in Seq(P) /\ Len(v) = Len(w) - n
             /\ \A i \in 1 .. Len(v) : v[i] = w[n + i]
<1>1. Len(w) \in Nat /\ n \in Nat
  OBVIOUS
<1>2. CASE n = Len(w)
  BY <1>1, <1>2, SubSeqEmpty, EmptySeq
<1>3. CASE n < Len(w)
  <2>1. n + 1 \in 1 .. Len(w) + 1 /\ Len(w) \in n .. Len(w)
    BY <1>1, <1>3
  <2> QED BY <1>1, <1>3, <2>1, SubSeqProperties
<1> QED BY <1>1, <1>2, <1>3

(* The first n of a sequence of pieces leave.                              *)
LEMMA Leaving ==
  ASSUME NEW P, NEW S, NEW w \in Seq(P), NEW n \in 0 .. Len(w), NEW x \in Seq(S),
         \A p \in P : p.part \in S
  PROVE  LET v == SubSeq(w, n + 1, Len(w))
             y == x \o [i \in 1 .. n |-> w[i].part]
         IN  /\ v \in Seq(P) /\ Len(v) = Len(w) - n
             /\ \A i \in 1 .. Len(v) : v[i] = w[n + i]
             /\ y \in Seq(S) /\ Len(y) = Len(x) + n
             /\ \A i \in 1 .. Len(x) : y[i] = x[i]
             /\ \A i \in 1 .. n : y[Len(x) + i] = w[i].part
<1> DEFINE v == SubSeq(w, n + 1, Len(w))
           z == [i \in 1 .. n |-> w[i].part]
           y == x \o z
<1>1. Len(w) \in Nat /\ Len(x) \in Nat /\ n \in Nat
  OBVIOUS
<1>2. v \in Seq(P) /\ Len(v) = Len(w) - n /\ \A i \in 1 .. Len(v) : v[i] = w[n + i]
  BY Rest
<1>3. z \in Seq(S) /\ Len(z) = n /\ \A i \in 1 .. n : z[i] = w[i].part
  <2>1. \A i \in 1 .. n : w[i].part \in S
    <3>1. \A i \in 1 .. n : w[i] \in P
      BY <1>1
    <3> QED BY <3>1
  <2>2. z \in [1 .. n -> S]
    BY <2>1
  <2> QED BY <1>1, <2>2
<1> HIDE DEF z
<1>4. /\ y \in Seq(S) /\ Len(y) = Len(x) + n
      /\ \A i \in 1 .. Len(x) : y[i] = x[i]
      /\ \A i \in 1 .. n : y[Len(x) + i] = z[i]
  <2>1. y \in Seq(S) /\ Len(y) = Len(x) + Len(z)
        /\ \A i \in 1 .. Len(x) + Len(z) : y[i] = IF i <= Len(x) THEN x[i] ELSE z[i - Len(x)]
    BY <1>3, ConcatProperties
  <2> HIDE DEF y
  <2>2. \A i \in 1 .. n : Len(x) + i \in 1 .. Len(x) + Len(z) /\ (Len(x) + i) - Len(x) = i
                        /\ ~(Len(x) + i <= Len(x))
    BY <1>1, <1>3
  <2>3. \A i \in 1 .. Len(x) : i \in 1 .. Len(x) + Len(z) /\ i <= Len(x)
    BY <1>1, <1>3
  <2>4. \A i \in 1 .. Len(x) : y[i] = x[i]
    BY <2>1, <2>3
  <2>5. \A i \in 1 .. n : y[Len(x) + i] = z[i]
    BY <2>1, <2>2
  <2> QED BY <1>3, <2>1, <2>4, <2>5
<1> QED BY <1>2, <1>3, <1>4 DEF z

-----------------------------------------------------------------------------
(* What the server sends.  Sending leaves alone what the handlers have     *)
(* been told and what is still to be answered, and may clear the receiver. *)

Unanswered(s, t) ==
  /\ t.told = s.told /\ t.owed = s.owed /\ t.stream = s.stream /\ t.left = s.left
  /\ t.stopped = s.stopped

WritesWhenBusy(e) == e.writing # <<>> => e.busy

LEMMA ServerFields ==
  ASSUME NEW N \in Nat, NEW s \in Servers(N)
  PROVE  /\ s.writing \in Seq(ReplyPieces(N)) /\ s.wire \in Seq(Replies(N))
         /\ s.busy \in BOOLEAN /\ s.stopped \in BOOLEAN
         /\ s.open \in BOOLEAN /\ s.undefined \in BOOLEAN
         /\ s.rx \in Received(N) /\ s.rx.head \in 0 .. N /\ s.rx.complete \in BOOLEAN
         /\ s.rx.data \in Nat
         /\ s.told \in Seq([of : 1 .. N, data : Nat]) /\ s.owed \in Seq(1 .. N)
         /\ s.stream \in 0 .. N /\ s.left \in Nat
<1>1. /\ s.writing \in Seq(ReplyPieces(N)) /\ s.wire \in Seq(Replies(N))
      /\ s.busy \in BOOLEAN /\ s.stopped \in BOOLEAN
      /\ s.open \in BOOLEAN /\ s.undefined \in BOOLEAN /\ s.rx \in Received(N)
      /\ s.told \in Seq([of : 1 .. N, data : Nat]) /\ s.owed \in Seq(1 .. N)
      /\ s.stream \in 0 .. N /\ s.left \in Nat
  BY DEF Servers
<1>2. s.rx.head \in 0 .. N /\ s.rx.complete \in BOOLEAN /\ s.rx.data \in Nat
  BY <1>1 DEF Received
<1> QED BY <1>1, <1>2

LEMMA NoRxReceived ==
  ASSUME NEW N \in Nat
  PROVE  /\ NoRx \in Received(N) /\ NoRx.head = Nothing /\ NoRx.complete = FALSE
         /\ NoRx.data = 0
BY DEF NoRx, Received, NoAnswer, Nothing

LEMMA ServerSendData ==
  ASSUME NEW N \in Nat, NEW s \in Servers(N), NEW m \in Seq(ReplyPieces(N)),
         WritesWhenBusy(s)
  PROVE  LET t == SendData(s, m)
         IN  /\ t \in Servers(N) /\ t.rx = s.rx /\ Unanswered(s, t)
             /\ t.open = s.open /\ t.wire = s.wire /\ WritesWhenBusy(t)
             /\ s.busy => t.writing = s.writing /\ t.busy
             /\ ~s.busy => t.writing = m /\ t.undefined = s.undefined
             /\ s.undefined => t.undefined
<1> DEFINE b == [s EXCEPT !.undefined = @ \/ Uses(s.writing) \cap Uses(m) # {}]
           w == [s EXCEPT !.busy = TRUE, !.writing = m]
<1>1. CASE s.busy
  <2>1. SendData(s, m) = b
    BY <1>1 DEF SendData
  <2> DEFINE u == s.undefined \/ Uses(s.writing) \cap Uses(m) # {}
  <2>2. u \in BOOLEAN /\ (s.undefined => u) /\ b = [s EXCEPT !.undefined = u]
    OBVIOUS
  <2> HIDE DEF u
  <2>3. /\ b \in Servers(N) /\ b.rx = s.rx /\ b.told = s.told /\ b.owed = s.owed
        /\ b.stream = s.stream /\ b.left = s.left /\ b.stopped = s.stopped
        /\ b.open = s.open /\ b.wire = s.wire /\ b.writing = s.writing
        /\ b.busy = s.busy /\ b.undefined = u
    BY <2>2 DEF Servers
  <2> HIDE DEF b
  <2> QED BY <1>1, <2>1, <2>2, <2>3 DEF Unanswered, WritesWhenBusy
<1>2. CASE ~s.busy
  <2>1. SendData(s, m) = w
    BY <1>2 DEF SendData
  <2>2. /\ w \in Servers(N) /\ w.rx = s.rx /\ w.told = s.told /\ w.owed = s.owed
        /\ w.stream = s.stream /\ w.left = s.left /\ w.stopped = s.stopped
        /\ w.open = s.open /\ w.wire = s.wire /\ w.writing = m /\ w.busy
        /\ w.undefined = s.undefined
    BY DEF Servers
  <2> HIDE DEF w
  <2> QED BY <1>2, <2>1, <2>2 DEF Unanswered, WritesWhenBusy
<1> QED BY <1>1, <1>2

LEMMA ServerTransmit ==
  ASSUME NEW N \in Nat, NEW s \in Servers(N), NEW n \in 0 .. Len(s.writing),
         WritesWhenBusy(s)
  PROVE  LET t == Transmit(s, n)
         IN  /\ t \in Servers(N) /\ t.rx = s.rx /\ Unanswered(s, t)
             /\ t.open = s.open /\ t.busy = s.busy /\ t.undefined = s.undefined
             /\ t.writing = SubSeq(s.writing, n + 1, Len(s.writing))
             /\ t.wire = s.wire \o [i \in 1 .. n |-> s.writing[i].part]
             /\ WritesWhenBusy(t)
<1> DEFINE v == SubSeq(s.writing, n + 1, Len(s.writing))
           y == s.wire \o [i \in 1 .. n |-> s.writing[i].part]
           t == [s EXCEPT !.writing = v, !.wire = y]
<1>1. s.writing \in Seq(ReplyPieces(N)) /\ s.wire \in Seq(Replies(N))
  BY ServerFields
<1>2. \A p \in ReplyPieces(N) : p.part \in Replies(N)
  BY DEF ReplyPieces
<1>3. v \in Seq(ReplyPieces(N)) /\ y \in Seq(Replies(N)) /\ Len(v) = Len(s.writing) - n
  <2>1. v \in Seq(ReplyPieces(N)) /\ Len(v) = Len(s.writing) - n
    BY <1>1, Rest
  <2>2. y \in Seq(Replies(N))
    BY <1>1, <1>2, Leaving
  <2> QED BY <2>1, <2>2
<1>4. Transmit(s, n) = t
  BY DEF Transmit
<1>5. v # <<>> => s.writing # <<>>
  BY <1>1, <1>3, EmptySeq, LenProperties
<1> HIDE DEF v, y
<1>6. /\ t \in Servers(N) /\ t.rx = s.rx /\ t.told = s.told /\ t.owed = s.owed
      /\ t.stream = s.stream /\ t.left = s.left /\ t.stopped = s.stopped
      /\ t.open = s.open /\ t.busy = s.busy /\ t.undefined = s.undefined
      /\ t.writing = v /\ t.wire = y
  BY <1>3 DEF Servers
<1> HIDE DEF t
<1> QED BY <1>4, <1>5, <1>6 DEF v, y, Unanswered, WritesWhenBusy

LEMMA ServerClears ==
  ASSUME NEW N \in Nat, NEW s \in Servers(N), WritesWhenBusy(s)
  PROVE  LET t == ClearRx(s)
         IN  /\ t \in Servers(N) /\ t.rx = NoRx /\ Unanswered(s, t)
             /\ t.open = s.open /\ t.busy = s.busy /\ t.undefined = s.undefined
             /\ t.writing = s.writing /\ t.wire = s.wire /\ WritesWhenBusy(t)
<1> DEFINE t == [s EXCEPT !.rx = NoRx]
<1>1. /\ t \in Servers(N) /\ t.rx = NoRx /\ t.told = s.told /\ t.owed = s.owed
      /\ t.stream = s.stream /\ t.left = s.left /\ t.stopped = s.stopped
      /\ t.open = s.open /\ t.busy = s.busy /\ t.undefined = s.undefined
      /\ t.writing = s.writing /\ t.wire = s.wire
  BY NoRxReceived DEF Servers
<1> HIDE DEF t
<1> QED BY <1>1 DEF ClearRx, Unanswered, WritesWhenBusy, t

LEMMA ServerShutsDown ==
  ASSUME NEW N \in Nat, NEW s \in Servers(N), NEW n \in Nat, WritesWhenBusy(s)
  PROVE  LET t == ShutdownNow(s, n)
         IN  /\ t \in Servers(N) /\ t.rx = s.rx /\ Unanswered(s, t)
             /\ t.undefined = s.undefined /\ ~t.open /\ WritesWhenBusy(t)
             /\ \A i \in DOMAIN t.writing : \E j \in DOMAIN s.writing :
                  t.writing[i] = s.writing[j]
<1> DEFINE k == Min({n, Len(s.writing)})
           u == Transmit(s, k)
           t == [u EXCEPT !.open = FALSE]
<1>1. Len(s.writing) \in Nat /\ s.writing \in Seq(ReplyPieces(N))
  <2>1. s.writing \in Seq(ReplyPieces(N))
    BY ServerFields
  <2> QED BY <2>1
<1>2. k \in 0 .. Len(s.writing)
  <2>1. \A b \in Nat : Min({n, b}) \in {n, b} /\ Min({n, b}) <= b
    BY MinOfTwo
  <2>2. k \in {n, Len(s.writing)} /\ k <= Len(s.writing)
    BY <1>1, <2>1
  <2> HIDE DEF k
  <2> QED BY <1>1, <2>2
<1>3. /\ u \in Servers(N) /\ u.rx = s.rx /\ Unanswered(s, u)
      /\ u.undefined = s.undefined /\ WritesWhenBusy(u)
      /\ u.writing = SubSeq(s.writing, k + 1, Len(s.writing))
  BY <1>2, ServerTransmit
<1>4. \A i \in DOMAIN u.writing : k + i \in DOMAIN s.writing /\ u.writing[i] = s.writing[k + i]
  <2> DEFINE v == SubSeq(s.writing, k + 1, Len(s.writing))
  <2>1. /\ v \in Seq(ReplyPieces(N)) /\ Len(v) = Len(s.writing) - k
        /\ \A i \in 1 .. Len(v) : v[i] = s.writing[k + i]
    <3> HIDE DEF k
    <3> QED BY <1>1, <1>2, Rest
  <2> HIDE DEF k
  <2>2. \A i \in 1 .. Len(v) : k + i \in 1 .. Len(s.writing)
    BY <1>1, <1>2, <2>1
  <2>3. DOMAIN v = 1 .. Len(v) /\ DOMAIN s.writing = 1 .. Len(s.writing) /\ u.writing = v
    BY <1>1, <1>3, <2>1
  <2> HIDE DEF v
  <2> QED BY <2>1, <2>2, <2>3
<1>5. ShutdownNow(s, n) = t
  BY DEF ShutdownNow
<1> HIDE DEF u
<1>6. /\ t \in Servers(N) /\ t.rx = u.rx /\ t.told = u.told /\ t.owed = u.owed
      /\ t.stream = u.stream /\ t.left = u.left /\ t.stopped = u.stopped
      /\ ~t.open /\ t.busy = u.busy /\ t.undefined = u.undefined /\ t.writing = u.writing
  BY <1>3 DEF Servers
<1> HIDE DEF t
<1>7. WritesWhenBusy(t) /\ Unanswered(s, t)
  BY <1>3, <1>6 DEF WritesWhenBusy, Unanswered
<1> QED BY <1>3, <1>4, <1>5, <1>6, <1>7

LEMMA ServerSend ==
  ASSUME NEW N \in Nat, NEW s \in Servers(N), NEW m \in Seq(ReplyPieces(N)),
         NEW continue \in BOOLEAN, NEW n \in Nat, WritesWhenBusy(s)
  PROVE  LET t == Send(s, m, continue, n)
         IN  /\ t \in Servers(N) /\ Unanswered(s, t) /\ WritesWhenBusy(t)
             /\ t.rx = IF continue THEN s.rx ELSE NoRx
             /\ s.undefined => t.undefined
<1> DEFINE c == IF continue THEN s ELSE ClearRx(s)
           u == SendData(c, m)
<1>1. /\ c \in Servers(N) /\ Unanswered(s, c) /\ WritesWhenBusy(c)
      /\ c.rx = (IF continue THEN s.rx ELSE NoRx) /\ c.undefined = s.undefined
  BY ServerClears DEF Unanswered
<1> HIDE DEF c
<1>2. /\ u \in Servers(N) /\ u.rx = c.rx /\ Unanswered(c, u) /\ WritesWhenBusy(u)
      /\ c.undefined => u.undefined
  BY <1>1, ServerSendData
<1> HIDE DEF u
<1> DEFINE d == ShutdownNow(u, n)
<1>3. /\ d \in Servers(N) /\ d.rx = u.rx /\ Unanswered(u, d) /\ WritesWhenBusy(d)
      /\ d.undefined = u.undefined
  BY <1>2, ServerShutsDown
<1>4. Send(s, m, continue, n) \in {u, d}
  BY DEF Send, c, u
<1> HIDE DEF d
<1> QED BY <1>1, <1>2, <1>3, <1>4 DEF Unanswered
(* A server that has sent, or tried to.                                    *)
Sends(N, s, t) ==
  /\ t \in Servers(N) /\ Unanswered(s, t) /\ WritesWhenBusy(t)
  /\ t.rx \in {s.rx, NoRx}
  /\ s.undefined => t.undefined

LEMMA ReplyPieceTypes ==
  ASSUME NEW N \in Nat, NEW i \in 0 .. N
  PROVE  /\ Body(i) \in ReplyPieces(N) /\ Chunk(i) \in ReplyPieces(N)
         /\ LastChunk(i) \in ReplyPieces(N)
BY DEF Body, Chunk, LastChunk, InHeader, Buffered, Part, ReplyPieces, Replies, Buffers

LEMMA HeadOfType ==
  ASSUME NEW N \in Nat, NEW s, NEW i \in 0 .. N, NEW answer \in Answers,
         NEW follow \in {"nothing", "body", "chunks"}
  PROVE  HeadOf(s, i, answer, follow) \in ReplyPieces(N)
<1> DEFINE version == s.rx.head # Nothing
           head == [is |-> "head", of |-> i, answer |-> answer, follow |-> follow,
                    version |-> version]
<1>1. version \in BOOLEAN
  OBVIOUS
<1> HIDE DEF version
<1>2. head \in Heads(N)
  BY <1>1 DEF Heads
<1>3. HeadOf(s, i, answer, follow) = [bufs |-> {"tx_header_"}, part |-> head]
  BY DEF HeadOf, InHeader, Buffered, version
<1> HIDE DEF head
<1> QED BY <1>2, <1>3 DEF ReplyPieces, Replies, Buffers

LEMMA ResponseIsSent ==
  ASSUME NEW N \in Nat, NEW s \in Servers(N), NEW i \in 0 .. N, NEW answer \in Answers,
         NEW n \in Nat, WritesWhenBusy(s)
  PROVE  Sends(N, s, SendResponse(s, i, answer, n))
<1> DEFINE full == answer.status = "OK"
           head == HeadOf(s, i, answer, IF full THEN "body" ELSE "nothing")
           rest == IF full /\ ~IsHead(s) THEN <<Body(i)>> ELSE <<>>
           m == <<head>> \o rest
           t == Send(s, m, FALSE, n)
<1>1. head \in ReplyPieces(N)
  BY HeadOfType
<1>2. rest \in Seq(ReplyPieces(N))
  <2>1. Body(i) \in ReplyPieces(N)
    BY ReplyPieceTypes
  <2> QED BY <2>1
<1>3. SendResponse(s, i, answer, n) = t
  BY DEF SendResponse
<1> HIDE DEF head, rest
<1>4. m \in Seq(ReplyPieces(N))
  BY <1>1, <1>2
<1> HIDE DEF m
<1>5. t \in Servers(N) /\ Unanswered(s, t) /\ WritesWhenBusy(t)
  BY <1>4, ServerSend
<1>6. t.rx = NoRx
  BY <1>4, ServerSend
<1>7. s.undefined => t.undefined
  BY <1>4, ServerSend
<1> HIDE DEF t
<1> QED BY <1>3, <1>5, <1>6, <1>7 DEF Sends

LEMMA HeadIsSent ==
  ASSUME NEW N \in Nat, NEW s \in Servers(N), NEW i \in 0 .. N, NEW n \in Nat,
         WritesWhenBusy(s)
  PROVE  Sends(N, s, SendHead(s, i, n))
<1> DEFINE head == HeadOf(s, i, Answer("OK", "stream", NoParameters), "chunks")
           t == Send(s, <<head>>, FALSE, n)
<1>1. head \in ReplyPieces(N)
  BY HeadOfType DEF Answers
<1>2. SendHead(s, i, n) = t
  BY DEF SendHead
<1> HIDE DEF head
<1>3. <<head>> \in Seq(ReplyPieces(N))
  BY <1>1
<1>4. t \in Servers(N) /\ Unanswered(s, t) /\ WritesWhenBusy(t)
  BY <1>3, ServerSend
<1>5. t.rx = NoRx
  BY <1>3, ServerSend
<1>6. s.undefined => t.undefined
  BY <1>3, ServerSend
<1> HIDE DEF t
<1> QED BY <1>2, <1>4, <1>5, <1>6 DEF Sends

LEMMA CodeIsSent ==
  ASSUME NEW N \in Nat, NEW s \in Servers(N), NEW i \in 0 .. N, NEW n \in Nat,
         NEW status \in {"BAD_REQUEST", "CONTINUE", "METHOD_NOT_ALLOWED"},
         WritesWhenBusy(s)
  PROVE  LET t == SendCode(s, i, status, n)
         IN  /\ Sends(N, s, t)
             /\ status = "CONTINUE" => t.rx = s.rx
<1> DEFINE head == HeadOf(s, i, Refusal(status), "nothing")
           continue == status = "CONTINUE"
           t == Send(s, <<head>>, continue, n)
<1>1. head \in ReplyPieces(N)
  BY HeadOfType DEF Answers
<1>2. SendCode(s, i, status, n) = t /\ continue \in BOOLEAN
  BY DEF SendCode
<1> HIDE DEF head
<1>3. <<head>> \in Seq(ReplyPieces(N))
  BY <1>1
<1>7. continue <=> status = "CONTINUE"
  OBVIOUS
<1> HIDE DEF continue
<1>4. t \in Servers(N) /\ Unanswered(s, t) /\ WritesWhenBusy(t)
  BY <1>2, <1>3, ServerSend
<1>5. t.rx = IF continue THEN s.rx ELSE NoRx
  BY <1>2, <1>3, ServerSend
<1>6. s.undefined => t.undefined
  BY <1>2, <1>3, ServerSend
<1> HIDE DEF t
<1> QED BY <1>2, <1>7, <1>4, <1>5, <1>6 DEF Sends
-----------------------------------------------------------------------------
(* What the server makes of a part that it reads.                          *)

(* The state in which the steps are taken.                                 *)
Given(N) ==
  /\ N = Len(client.asked) /\ client.asked \in Seq(Requests)
  /\ mode \in Modes /\ routes \in Registrations

LEMMA GivenRequests ==
  ASSUME NEW N, Given(N)
  PROVE  /\ N \in Nat
         /\ \A i \in 1 .. N :
              /\ Asked(i) \in Requests
              /\ Asked(i).body \in BOOLEAN /\ Asked(i).chunks \in Nat
              /\ Asked(i).body => Asked(i).chunks = 0
<1>1. N \in Nat /\ \A i \in 1 .. N : Asked(i) \in Requests
  BY DEF Given, Asked
<1> QED BY <1>1, RequestsAssumption

(* The request handler is told what the receiver holds of request i.       *)
Tells(N, s, i, t) ==
  /\ t \in Servers(N) /\ WritesWhenBusy(t)
  /\ t.told = Append(s.told, [of |-> i, data |-> s.rx.data])
  /\ t.rx \in {s.rx, NoRx}
  /\ s.undefined => t.undefined

LEMMA LateAnswerIsAnAnswer ==
  ASSUME NEW i, routes \in Registrations, Asked(i) \in Requests
  PROVE  LateAnswer(i) \in Answers
BY DEF LateAnswer, Answers

(* An exception leaves the handler.                                        *)
LEMMA StoppedServer ==
  ASSUME NEW N \in Nat, NEW s \in Servers(N)
  PROVE  LET t == [s EXCEPT !.stopped = TRUE]
         IN  /\ t \in Servers(N) /\ t.stopped /\ t.rx = s.rx /\ t.told = s.told
             /\ t.undefined = s.undefined /\ t.busy = s.busy /\ t.writing = s.writing
             /\ t.open = s.open /\ t.owed = s.owed /\ t.stream = s.stream
BY DEF Servers

LEMMA HandlerIsTold ==
  ASSUME NEW N, Given(N), NEW s \in Servers(N), NEW i \in 1 .. N, NEW n \in Nat,
         WritesWhenBusy(s)
  PROVE  Tells(N, s, i, Handler(s, i, n))
<1> DEFINE told == Append(s.told, [of |-> i, data |-> s.rx.data])
           t == [s EXCEPT !.told = told]
<1>1. N \in Nat /\ Asked(i) \in Requests /\ i \in 0 .. N
  BY GivenRequests
<1>2. told \in Seq([of : 1 .. N, data : Nat])
  <2>1. s.told \in Seq([of : 1 .. N, data : Nat]) /\ s.rx.data \in Nat
    BY <1>1, ServerFields
  <2> QED BY <2>1, AppendProperties
<1> HIDE DEF told
<1>3. /\ t \in Servers(N) /\ t.rx = s.rx /\ t.told = told /\ t.stopped = s.stopped
      /\ t.undefined = s.undefined /\ t.busy = s.busy /\ t.writing = s.writing
  BY <1>2 DEF Servers
<1>4. WritesWhenBusy(t)
  BY <1>3 DEF WritesWhenBusy
<1> DEFINE r == SendResponse(t, i, RouterAnswer[routes][Asked(i)], n)
           x == [t EXCEPT !.stopped = TRUE]
           h == SendHead(t, i, n)
           u == [h EXCEPT !.stream = i, !.left = StreamLength]
           w == [t EXCEPT !.owed = Append(@, i)]
<1>5. Handler(s, i, n) \in {r, x, u, w}
  <2>1. mode.server \in {"router", "late", "stream"}
    BY ModesAssumption DEF Given, Mode
  <2> QED BY <2>1 DEF Handler, RouteRequest, told
<1> HIDE DEF t
<1>6. Tells(N, s, i, r)
  <2>1. RouterAnswer[routes][Asked(i)] \in Answers
    BY <1>1 DEF Given, Answers
  <2>2. Sends(N, t, r)
    BY <1>1, <1>3, <1>4, <2>1, ResponseIsSent
  <2> HIDE DEF r
  <2> QED BY <1>3, <2>2 DEF Tells, Sends, Unanswered, told
<1>7. Tells(N, s, i, u)
  <2>1. Sends(N, t, h)
    BY <1>1, <1>3, <1>4, HeadIsSent
  <2> HIDE DEF h
  <2>2. /\ u \in Servers(N) /\ u.rx = h.rx /\ u.told = h.told /\ u.stopped = h.stopped
        /\ u.undefined = h.undefined /\ u.busy = h.busy /\ u.writing = h.writing
    <3>1. h \in Servers(N)
      BY <2>1 DEF Sends
    <3> QED BY <1>1, <3>1, BoundsAssumption DEF Servers
  <2> HIDE DEF u
  <2> QED BY <1>3, <2>1, <2>2 DEF Tells, Sends, Unanswered, WritesWhenBusy, told
<1>8. Tells(N, s, i, w)
  <2> DEFINE owed == Append(t.owed, i)
             y == [t EXCEPT !.owed = owed]
  <2>1. owed \in Seq(1 .. N)
    BY <1>1, <1>3, ServerFields, AppendProperties
  <2>2. w = y
    OBVIOUS
  <2> HIDE DEF owed
  <2>3. /\ y \in Servers(N) /\ y.rx = t.rx /\ y.told = t.told /\ y.stopped = t.stopped
        /\ y.undefined = t.undefined /\ y.busy = t.busy /\ y.writing = t.writing
    BY <1>3, <2>1 DEF Servers
  <2> HIDE DEF y, w
  <2> QED BY <1>3, <1>4, <2>2, <2>3 DEF Tells, WritesWhenBusy, told
<1>9. Tells(N, s, i, x)
  <2>1. /\ x \in Servers(N) /\ x.rx = t.rx /\ x.told = t.told
        /\ x.undefined = t.undefined /\ x.busy = t.busy /\ x.writing = t.writing
    BY <1>1, <1>3, StoppedServer
  <2> HIDE DEF x
  <2> QED BY <1>3, <1>4, <2>1 DEF Tells, WritesWhenBusy, told
<1> HIDE DEF r, u, w, x
<1> QED BY <1>5, <1>6, <1>7, <1>8, <1>9

(* A complete request is told the handler, or not, if it is a TRACE.       *)
Completes(N, s, i, t) ==
  /\ t \in Servers(N) /\ WritesWhenBusy(t)
  /\ t.told \in {s.told, Append(s.told, [of |-> i, data |-> s.rx.data])}
  /\ t.rx \in {s.rx, NoRx}
  /\ s.undefined => t.undefined

LEMMA ValidCompletes ==
  ASSUME NEW N, Given(N), NEW s \in Servers(N), NEW i \in 1 .. N, NEW n \in Nat,
         WritesWhenBusy(s)
  PROVE  Completes(N, s, i, Valid(s, i, n))
<1>1. N \in Nat /\ i \in 0 .. N
  BY GivenRequests
<1> DEFINE r == SendResponse(s, i, Answer("OK", "trace", NoParameters), n)
           c == SendCode(s, i, "METHOD_NOT_ALLOWED", n)
           h == Handler(s, i, n)
<1>2. Sends(N, s, r)
  <2>1. Answer("OK", "trace", NoParameters) \in Answers
    BY DEF Answers
  <2> QED BY <1>1, <2>1, ResponseIsSent
<1>3. Sends(N, s, c)
  BY <1>1, CodeIsSent
<1>4. Tells(N, s, i, h)
  BY HandlerIsTold
<1>5. Valid(s, i, n) \in {ClearRx(r), ClearRx(c), ClearRx(h), h}
  BY DEF Valid, Traced, HandlerReturned
<1> HIDE DEF r, c, h
<1>6. Completes(N, s, i, ClearRx(r))
  BY <1>1, <1>2, ServerClears DEF Sends, Completes, Unanswered
<1>7. Completes(N, s, i, ClearRx(c))
  BY <1>1, <1>3, ServerClears DEF Sends, Completes, Unanswered
<1>8. Completes(N, s, i, ClearRx(h))
  BY <1>1, <1>4, ServerClears DEF Tells, Completes, Unanswered
<1>9. Completes(N, s, i, h)
  BY <1>4 DEF Tells, Completes
<1> QED BY <1>5, <1>6, <1>7, <1>8, <1>9

LEMMA InvalidStops ==
  ASSUME NEW N \in Nat, NEW s \in Servers(N), NEW n \in Nat, WritesWhenBusy(s)
  PROVE  LET t == Invalid(s, n)
         IN  t \in Servers(N) /\ WritesWhenBusy(t) /\ t.stopped /\ t.told = s.told
<1> DEFINE c == ClearRx(s)
           u == SendCode(c, Nothing, "BAD_REQUEST", n)
           v == ClearRx(u)
           t == [v EXCEPT !.stopped = TRUE]
<1>1. c \in Servers(N) /\ WritesWhenBusy(c) /\ c.told = s.told
  BY ServerClears DEF Unanswered
<1> HIDE DEF c
<1>2. Sends(N, c, u)
  BY <1>1, CodeIsSent DEF Nothing
<1> HIDE DEF u
<1>3. v \in Servers(N) /\ WritesWhenBusy(v) /\ v.told = s.told
  BY <1>1, <1>2, ServerClears DEF Sends, Unanswered
<1>4. Invalid(s, n) = t
  BY DEF Invalid, c, u
<1> HIDE DEF v
<1>5. /\ t \in Servers(N) /\ t.stopped /\ t.told = v.told
      /\ t.busy = v.busy /\ t.writing = v.writing
  BY <1>3 DEF Servers
<1> HIDE DEF t
<1> QED BY <1>3, <1>4, <1>5 DEF WritesWhenBusy

(* The parts of request i, by number, and how much data it has.            *)
Size(r)  == IF Chunked(r) THEN r.chunks + 2 ELSE IF r.body THEN 2 ELSE 1
Whole(r) == IF Chunked(r) THEN r.chunks ELSE IF r.body THEN 1 ELSE 0

PartOf(i, k) ==
  Part(IF k = 0 THEN "head" ELSE IF Asked(i).body THEN "body"
       ELSE IF k <= Asked(i).chunks THEN "chunk" ELSE "last", i)

(* What the receiver holds when part k of request i comes next: nothing,   *)
(* all that came before of that request, or an earlier one.  The cursor    *)
(* moves on to <<NextOf(i, k), NextAt(i, k)>>.                             *)
Holds(s, i, k) ==
  \/ s.stopped \/ s.undefined
  \/ s.rx.head = Nothing
  \/ k > 0 /\ s.rx.head = i /\ ~s.rx.complete /\ s.rx.data = k - 1
  \/ s.rx.complete /\ s.rx.head < i

NextOf(i, k) == IF k + 1 < Size(Asked(i)) THEN i ELSE i + 1
NextAt(i, k) == IF k + 1 < Size(Asked(i)) THEN k + 1 ELSE 0

(* The handler has been told requests before i only, each once and whole.  *)
ToldBefore(s, i) ==
  \A j \in DOMAIN s.told :
    /\ s.told[j].of < i
    /\ j > 1 => s.told[j - 1].of < s.told[j].of
    /\ s.told[j].data = Whole(Asked(s.told[j].of))

LEMMA TakeAddsThePart ==
  ASSUME NEW N, Given(N), NEW s \in Servers(N), NEW i \in 1 .. N,
         NEW k \in 0 .. Size(Asked(i)) - 1, WritesWhenBusy(s),
         Holds(s, i, k), ~s.stopped, ~s.undefined, Fits(s, PartOf(i, k))
  PROVE  LET t == Take(s, PartOf(i, k))
         IN  /\ t \in Servers(N) /\ WritesWhenBusy(t) /\ t.told = s.told
             /\ t.stopped = s.stopped /\ t.undefined = s.undefined
             /\ t.rx.head = i
             /\ t.rx.complete <=> k + 1 = Size(Asked(i))
             /\ t.rx.data = IF t.rx.complete THEN Whole(Asked(i)) ELSE k
<1> DEFINE part == PartOf(i, k)
           r == Asked(i)
           t == Take(s, part)
           Taking(x, rx) == /\ x \in Servers(N) /\ x.rx = rx
                            /\ x.told = s.told /\ x.stopped = s.stopped
                            /\ x.undefined = s.undefined
                            /\ x.busy = s.busy /\ x.writing = s.writing
<1>1. /\ N \in Nat /\ r.body \in BOOLEAN /\ r.chunks \in Nat
      /\ r.body => r.chunks = 0
  BY GivenRequests
<1>2. /\ s.rx \in Received(N) /\ s.rx.data \in Nat /\ s.rx.head \in 0 .. N
      /\ s.rx.complete \in BOOLEAN
  BY <1>1, ServerFields
<1>3. \A rx \in Received(N) : Taking([s EXCEPT !.rx = rx], rx)
  BY DEF Servers
<1>4. part.of = i /\ part.is = (IF k = 0 THEN "head" ELSE IF r.body THEN "body"
                                ELSE IF k <= r.chunks THEN "chunk" ELSE "last")
  BY DEF PartOf, Part
<1>5. k \in Nat
  BY <1>1 DEF Size, Chunked
<1> HIDE DEF part
<1>6. CASE k = 0
  <2> DEFINE all == ~r.body /\ ~Chunked(r)
             rx == [NoRx EXCEPT !.head = i, !.complete = all]
  <2>1. part.is = "head"
    BY <1>4, <1>6
  <2>2. t = [s EXCEPT !.rx = rx]
    BY <1>4, <2>1 DEF Take
  <2>3. all \in BOOLEAN /\ (all <=> k + 1 = Size(r)) /\ (all => Whole(r) = 0)
    BY <1>1, <1>6 DEF Size, Whole, Chunked
  <2> HIDE DEF all
  <2>4. rx \in Received(N) /\ rx.head = i /\ rx.complete = all /\ rx.data = 0
    <3>1. i \in 0 .. N
      BY <1>1
    <3> QED BY <2>3, <3>1 DEF NoRx, Received, NoAnswer, Nothing
  <2> HIDE DEF rx, t
  <2>5. Taking(t, rx)
    BY <1>3, <2>2, <2>4
  <2> QED BY <1>6, <2>3, <2>4, <2>5 DEF WritesWhenBusy, t, part
<1>7. CASE k > 0
  <2>1. s.rx.head = i /\ ~s.rx.complete /\ s.rx.data = k - 1
    <3>1. part.is # "head"
      BY <1>4, <1>5, <1>7
    <3>2. s.rx.head = i /\ ~s.rx.complete
      BY <1>4, <3>1 DEF Fits, part
    <3> QED BY <1>1, <1>2, <3>2 DEF Holds, Nothing
  <2> DEFINE more == [s.rx EXCEPT !.data = @ + 1]
             full == [s.rx EXCEPT !.complete = TRUE, !.data = @ + 1]
             last == [s.rx EXCEPT !.complete = TRUE]
  <2>2. /\ more \in Received(N) /\ more.head = i /\ ~more.complete /\ more.data = k
        /\ full \in Received(N) /\ full.head = i /\ full.complete /\ full.data = k
        /\ last \in Received(N) /\ last.head = i /\ last.complete /\ last.data = k - 1
    <3>1. s.rx.data + 1 \in Nat /\ s.rx.data + 1 = k
      BY <1>2, <1>5, <2>1
    <3> QED BY <1>2, <2>1, <3>1 DEF Received
  <2>3. CASE r.body
    <3>1. part.is = "body" /\ k = 1 /\ Size(r) = 2 /\ Whole(r) = 1
      BY <1>1, <1>4, <1>5, <1>7, <2>3 DEF Size, Whole, Chunked
    <3>2. t = [s EXCEPT !.rx = full]
      BY <3>1, <1>2 DEF Take, Servers
    <3> HIDE DEF full, more, last, t
    <3>3. Taking(t, full)
      BY <1>3, <2>2, <3>2
    <3> QED BY <2>2, <3>1, <3>3 DEF WritesWhenBusy, t, part
  <2>4. CASE ~r.body /\ k <= r.chunks
    <3>1. part.is = "chunk" /\ Size(r) = r.chunks + 2
      BY <1>1, <1>4, <1>5, <1>7, <2>4 DEF Size, Chunked
    <3>2. t = [s EXCEPT !.rx = more]
      BY <3>1 DEF Take
    <3> HIDE DEF full, more, last, t
    <3>3. Taking(t, more)
      BY <1>3, <2>2, <3>2
    <3> QED BY <1>1, <1>5, <2>2, <2>4, <3>1, <3>3 DEF WritesWhenBusy, t, part
  <2>5. CASE ~r.body /\ ~(k <= r.chunks)
    <3>1. /\ part.is = "last" /\ Size(r) = r.chunks + 2 /\ k = r.chunks + 1
          /\ Whole(r) = r.chunks
      BY <1>1, <1>4, <1>5, <1>7, <2>5 DEF Size, Whole, Chunked
    <3>2. t = [s EXCEPT !.rx = last]
      BY <3>1 DEF Take
    <3> HIDE DEF full, more, last, t
    <3>3. Taking(t, last)
      BY <1>3, <2>2, <3>2
    <3>4. k + 1 = Size(r) /\ Whole(r) = k - 1
      BY <1>1, <1>5, <3>1
    <3> QED BY <2>2, <3>3, <3>4 DEF WritesWhenBusy, t, part
  <2> QED BY <1>1, <1>5, <2>3, <2>4, <2>5
<1> QED BY <1>5, <1>6, <1>7

(* One more part read: the cursor moves on with the receiver.              *)
Follows(N, s, i, k) ==
  s \in Servers(N) /\ WritesWhenBusy(s) /\ Holds(s, i, k) /\ ToldBefore(s, i)

LEMMA ToldOf ==
  ASSUME NEW N \in Nat, NEW s \in Servers(N), NEW j \in DOMAIN s.told
  PROVE  s.told[j].of \in 1 .. N /\ s.told[j].of \in Nat
<1> DEFINE R == [of : 1 .. N, data : Nat]
           q == s.told
<1>1. q \in Seq(R)
  BY ServerFields
<1>2. \A r \in R : r.of \in 1 .. N
  OBVIOUS
<1> HIDE DEF R
<1>3. q[j] \in R
  <2>1. DOMAIN q = 1 .. Len(q) /\ j \in DOMAIN q
    BY <1>1
  <2> HIDE DEF q
  <2> QED BY <1>1, <2>1, ElementOfSeq
<1>4. q[j].of \in 1 .. N
  BY <1>2, <1>3
<1> HIDE DEF q
<1>5. q[j].of \in Nat
  BY <1>4
<1> QED BY <1>4, <1>5 DEF q

LEMMA ToldBeforeNext ==
  ASSUME NEW N, Given(N), NEW s \in Servers(N), NEW i \in 1 .. N, NEW k, NEW t,
         ToldBefore(s, i), t.told = s.told
  PROVE  ToldBefore(t, NextOf(i, k))
<1>1. \A j \in DOMAIN s.told : s.told[j].of \in 1 .. N
  BY GivenRequests, ToldOf
<1>2. NextOf(i, k) \in {i, i + 1}
  BY DEF NextOf
<1>3. \A j \in DOMAIN s.told : s.told[j].of < NextOf(i, k)
  <2> TAKE j \in DOMAIN s.told
  <2>1. s.told[j].of < i /\ s.told[j].of \in 1 .. N
    BY <1>1 DEF ToldBefore
  <2> QED BY <1>2, <2>1
<1> QED BY <1>3 DEF ToldBefore

LEMMA ToldOneMore ==
  ASSUME NEW N, Given(N), NEW s \in Servers(N), NEW i \in 1 .. N, NEW k, NEW t,
         ToldBefore(s, i), k + 1 = Size(Asked(i)),
         t.told = Append(s.told, [of |-> i, data |-> Whole(Asked(i))])
  PROVE  ToldBefore(t, NextOf(i, k))
<1> DEFINE rec == [of |-> i, data |-> Whole(Asked(i))]
           m == Len(s.told)
<1>1. N \in Nat /\ s.told \in Seq([of : 1 .. N, data : Nat])
  <2>1. N \in Nat
    BY GivenRequests
  <2> QED BY <2>1, ServerFields
<1>2. NextOf(i, k) = i + 1
  <2>1. Size(Asked(i)) \in Nat
    BY GivenRequests DEF Size, Chunked
  <2> QED BY <2>1 DEF NextOf
<1>3. /\ m \in Nat /\ DOMAIN s.told = 1 .. m /\ DOMAIN t.told = 1 .. m + 1
      /\ \A j \in 1 .. m : t.told[j] = s.told[j]
      /\ t.told[m + 1] = rec
  BY <1>1
<1>4. rec.of = i /\ rec.data = Whole(Asked(i))
  OBVIOUS
<1> HIDE DEF rec, m
<1>5. ASSUME NEW j \in 1 .. m + 1
      PROVE  /\ t.told[j].of < i + 1
             /\ j > 1 => t.told[j - 1].of < t.told[j].of
             /\ t.told[j].data = Whole(Asked(t.told[j].of))
  <2>1. \A l \in 1 .. m : s.told[l].of < i /\ s.told[l].of \in Nat
    <3>1. \A l \in DOMAIN s.told : s.told[l].of \in Nat
      BY <1>1, ToldOf
    <3> QED BY <1>3, <3>1 DEF ToldBefore
  <2>2. CASE j = m + 1
    <3>1. t.told[j].of = i /\ t.told[j].data = Whole(Asked(i)) /\ i < i + 1
      <4>1. t.told[j] = rec
        BY <1>3, <2>2
      <4>2. i < i + 1
        OBVIOUS
      <4> QED BY <1>4, <4>1, <4>2
    <3>2. j > 1 => t.told[j - 1].of < i
      <4> SUFFICES ASSUME j > 1 PROVE t.told[j - 1].of < i
        OBVIOUS
      <4>1. j - 1 = m /\ m \in 1 .. m
        BY <1>3, <2>2
      <4>2. t.told[m] = s.told[m] /\ s.told[m].of < i
        BY <1>3, <2>1, <4>1
      <4> QED BY <4>1, <4>2
    <3> QED BY <3>1, <3>2
  <2>3. CASE j \in 1 .. m
    <3>1. t.told[j] = s.told[j] /\ s.told[j].of < i + 1
      <4>1. t.told[j] = s.told[j] /\ s.told[j].of < i /\ s.told[j].of \in Nat
        BY <1>3, <2>1, <2>3
      <4>2. \A a \in Nat : a < i => a < i + 1 /\ i < i + 1
        OBVIOUS
      <4> QED BY <4>1, <4>2
    <3>2. j > 1 => s.told[j - 1].of < s.told[j].of
      BY <1>3, <2>3 DEF ToldBefore
    <3>3. j > 1 => t.told[j - 1] = s.told[j - 1]
      <4>1. j > 1 => j - 1 \in 1 .. m
        BY <1>3, <2>3
      <4> QED BY <1>3, <4>1
    <3>4. s.told[j].data = Whole(Asked(s.told[j].of))
      BY <1>3, <2>3 DEF ToldBefore
    <3> QED BY <3>1, <3>2, <3>3, <3>4
  <2> QED BY <1>3, <2>2, <2>3
<1> QED BY <1>2, <1>3, <1>5 DEF ToldBefore

LEMMA ServerTakesOne ==
  ASSUME NEW N, Given(N), NEW s, NEW i \in 1 .. N, NEW k \in 0 .. Size(Asked(i)) - 1,
         NEW n \in Nat, Follows(N, s, i, k)
  PROVE  Follows(N, ServerTakes(s, PartOf(i, k), n), NextOf(i, k), NextAt(i, k))
<1> DEFINE part == PartOf(i, k)
           t == ServerTakes(s, part, n)
           x == Take(s, part)
<1>1. /\ N \in Nat /\ s \in Servers(N) /\ WritesWhenBusy(s) /\ Holds(s, i, k)
      /\ ToldBefore(s, i)
  BY GivenRequests DEF Follows
<1>2. part.of = i
  BY DEF PartOf, Part
<1>3. Size(Asked(i)) \in Nat /\ k \in Nat
  BY GivenRequests DEF Size, Chunked
<1> HIDE DEF part
<1>4. CASE s.stopped \/ s.undefined
  <2>1. t = s
    BY <1>4 DEF ServerTakes
  <2>2. ToldBefore(t, NextOf(i, k))
    BY <1>1, <2>1, ToldBeforeNext
  <2> QED BY <1>1, <1>4, <2>1, <2>2 DEF Follows, Holds, part
<1>5. CASE ~(s.stopped \/ s.undefined) /\ ~Fits(s, part)
  <2>1. t = Invalid(s, n)
    BY <1>5 DEF ServerTakes
  <2>2. t \in Servers(N) /\ WritesWhenBusy(t) /\ t.stopped /\ t.told = s.told
    BY <1>1, <2>1, InvalidStops
  <2> HIDE DEF t
  <2>3. ToldBefore(t, NextOf(i, k))
    BY <1>1, <2>2, ToldBeforeNext
  <2> QED BY <2>2, <2>3 DEF Follows, Holds, t, part
<1>6. CASE ~(s.stopped \/ s.undefined) /\ Fits(s, part)
  <2>1. t = Taken(x, part, n)
    BY <1>6 DEF ServerTakes
  <2>2. /\ x \in Servers(N) /\ WritesWhenBusy(x) /\ x.told = s.told
        /\ x.stopped = s.stopped /\ x.undefined = s.undefined
        /\ x.rx.head = i
        /\ x.rx.complete <=> k + 1 = Size(Asked(i))
        /\ x.rx.data = IF x.rx.complete THEN Whole(Asked(i)) ELSE k
    BY <1>1, <1>6, TakeAddsThePart DEF part
  <2> HIDE DEF t, x
  <2>3. CASE x.rx.complete
    <3>1. Completes(N, x, i, t)
      BY <1>2, <2>1, <2>2, <2>3, ValidCompletes DEF Taken
    <3>2. NextOf(i, k) = i + 1
      BY <1>3, <2>2, <2>3 DEF NextOf
    <3>3. ToldBefore(t, NextOf(i, k))
      <4>1. CASE t.told = s.told
        BY <1>1, <4>1, ToldBeforeNext
      <4>2. CASE t.told = Append(s.told, [of |-> i, data |-> Whole(Asked(i))])
        <5>1. k + 1 = Size(Asked(i))
          BY <2>2, <2>3
        <5> QED BY <1>1, <4>2, <5>1, ToldOneMore
      <4>3. t.told \in {s.told, Append(s.told, [of |-> i, data |-> Whole(Asked(i))])}
        <5>1. t.told \in {x.told, Append(x.told, [of |-> i, data |-> x.rx.data])}
          BY <3>1 DEF Completes
        <5> QED BY <2>2, <2>3, <5>1
      <4> QED BY <4>1, <4>2, <4>3
    <3>4. Holds(t, NextOf(i, k), NextAt(i, k))
      <4>1. t.rx = x.rx \/ t.rx = NoRx
        BY <3>1 DEF Completes
      <4>2. CASE t.rx = x.rx
        BY <2>2, <2>3, <3>2, <4>2 DEF Holds
      <4>3. CASE t.rx = NoRx
        BY <1>1, <4>3, NoRxReceived DEF Holds
      <4> QED BY <4>1, <4>2, <4>3
    <3> QED BY <3>1, <3>3, <3>4 DEF Follows, Completes, t, part
  <2>4. CASE ~x.rx.complete
    <3>1. k + 1 < Size(Asked(i)) /\ NextOf(i, k) = i /\ NextAt(i, k) = k + 1
      <4>1. k + 1 # Size(Asked(i)) /\ k <= Size(Asked(i)) - 1
        BY <1>3, <2>2, <2>4
      <4> QED BY <1>3, <4>1 DEF NextOf, NextAt
    <3>2. t \in Servers(N) /\ WritesWhenBusy(t) /\ t.told = s.told /\ t.rx = x.rx
      <4>1. CASE Expects(x, part)
        <5>1. t = SendCode(x, i, "CONTINUE", n)
          BY <1>2, <2>1, <2>4, <4>1 DEF Taken
        <5>2. i \in 0 .. N
          BY <1>1
        <5>3. Sends(N, x, t) /\ t.rx = x.rx
          BY <1>1, <2>2, <5>1, <5>2, CodeIsSent
        <5> QED BY <2>2, <5>3 DEF Sends, Unanswered
      <4>2. CASE ~Expects(x, part)
        <5>1. t = x
          BY <2>1, <2>4, <4>2 DEF Taken
        <5> QED BY <2>2, <5>1
      <4> QED BY <4>1, <4>2
    <3>3. ToldBefore(t, NextOf(i, k))
      BY <1>1, <3>2, ToldBeforeNext
    <3>4. Holds(t, NextOf(i, k), NextAt(i, k))
      BY <1>3, <2>2, <2>4, <3>1, <3>2 DEF Holds
    <3> QED BY <3>2, <3>3, <3>4 DEF Follows, t, part
  <2> QED BY <2>3, <2>4
<1> QED BY <1>4, <1>5, <1>6
-----------------------------------------------------------------------------
(* A read of n parts is taken one part after the other: what holds of the  *)
(* state before, and is kept by each part, holds after it.  holds[j] are   *)
(* the states that are possible when j parts have been taken.              *)
LEMMA ServerReadingLeadsTo ==
  ASSUME NEW n \in Nat, NEW holds, server \in holds[0],
         \A j \in 1 .. n : \A s \in holds[j - 1], taken \in 0 .. 2 :
           ServerTakes(s, client.wire[j], taken) \in holds[j]
  PROVE  ServerReading(n) \subseteq holds[n]
<1> DEFINE Step(j, S) == {ServerTakes(s, client.wire[j], taken) : s \in S, taken \in 0 .. 2}
           Rec(f, m) == f = [j \in 0 .. m |-> IF j = 0 THEN {server} ELSE Step(j, f[j - 1])]
           after == CHOOSE f : Rec(f, n)
<1>1. ServerReading(n) = after[n]
  BY DEF ServerReading
<1>2. \A j \in 1 .. n : \A S : S \subseteq holds[j - 1] => Step(j, S) \subseteq holds[j]
  OBVIOUS
<1> HIDE DEF Step
<1>3. \E f : Rec(f, n)
  <2> DEFINE Good == {m \in 0 .. n : \E f : Rec(f, m)}
  <2>1. 0 \in Good
    <3> DEFINE f == [j \in 0 .. 0 |-> IF j = 0 THEN {server} ELSE {}]
    <3>1. \A j \in 0 .. 0 : f[j] = IF j = 0 THEN {server} ELSE Step(j, f[j - 1])
      OBVIOUS
    <3>2. f = [j \in 0 .. 0 |-> IF j = 0 THEN {server} ELSE Step(j, f[j - 1])]
      BY <3>1
    <3>3. \E x : Rec(x, 0)
      BY <3>2
    <3> HIDE DEF Rec
    <3> QED BY <3>3
  <2>2. ASSUME NEW m \in 0 .. n - 1, m \in Good
        PROVE  m + 1 \in Good
    <3>1. PICK f : Rec(f, m)
      BY <2>2
    <3> DEFINE g == [j \in 0 .. m + 1 |-> IF j <= m THEN f[j] ELSE Step(m + 1, f[m])]
               h == [j \in 0 .. m + 1 |-> IF j = 0 THEN {server} ELSE Step(j, g[j - 1])]
    <3>2. ASSUME NEW j \in 0 .. m + 1
          PROVE  g[j] = h[j]
      <4>1. CASE j = m + 1
        <5>1. g[j] = Step(m + 1, f[m]) /\ h[j] = Step(m + 1, g[m])
          BY <4>1
        <5>2. g[m] = f[m]
          OBVIOUS
        <5> QED BY <5>1, <5>2
      <4>2. CASE j \in 1 .. m
        <5>1. g[j] = f[j] /\ h[j] = Step(j, g[j - 1]) /\ g[j - 1] = f[j - 1]
          <6>1. j \in 0 .. m + 1 /\ j # 0 /\ j <= m /\ j - 1 \in 0 .. m + 1 /\ j - 1 <= m
            BY <4>2
          <6>2. h[j] = Step(j, g[j - 1])
            BY <6>1
          <6>3. \A l \in 0 .. m + 1 : l <= m => g[l] = f[l]
            OBVIOUS
          <6> HIDE DEF g, h
          <6> QED BY <6>1, <6>2, <6>3
        <5>2. f[j] = Step(j, f[j - 1])
          <6>1. \A l \in 0 .. m : f[l] = IF l = 0 THEN {server} ELSE Step(l, f[l - 1])
            BY <3>1
          <6> QED BY <4>2, <6>1
        <5> QED BY <5>1, <5>2
      <4>3. CASE j = 0
        BY <3>1, <4>3
      <4> QED BY <4>1, <4>2, <4>3
    <3>3. g = h
      BY <3>2
    <3>4. Rec(g, m + 1)
      BY <3>3
    <3>5. \E x : Rec(x, m + 1)
      BY <3>4
    <3> HIDE DEF Rec
    <3> QED BY <3>5
  <2> HIDE DEF Good
  <2>3. 0 .. n \subseteq Good
    BY <2>1, <2>2, CountUp
  <2>4. n \in Good
    BY <2>3
  <2> QED BY <2>4 DEF Good
<1>4. Rec(after, n)
  BY <1>3
<1> HIDE DEF after
<1> DEFINE Kept == {j \in 0 .. n : after[j] \subseteq holds[j]}
<1>5. 0 \in Kept
  BY <1>4
<1>6. ASSUME NEW j \in 0 .. n - 1, j \in Kept
      PROVE  j + 1 \in Kept
  <2>1. after[j + 1] = Step(j + 1, after[j])
    <3>1. \A l \in 0 .. n : after[l] = IF l = 0 THEN {server} ELSE Step(l, after[l - 1])
      BY <1>4
    <3>2. j + 1 \in 0 .. n /\ j + 1 # 0 /\ (j + 1) - 1 = j
      OBVIOUS
    <3> QED BY <3>1, <3>2
  <2>2. after[j] \subseteq holds[j] /\ j + 1 \in 1 .. n /\ (j + 1) - 1 = j
    BY <1>6
  <2>3. Step(j + 1, after[j]) \subseteq holds[j + 1]
    BY <1>2, <2>2
  <2> QED BY <2>1, <2>2, <2>3
<1> HIDE DEF Kept
<1>7. 0 .. n \subseteq Kept
  BY <1>5, <1>6, CountUp
<1>8. n \in Kept
  BY <1>7
<1> QED BY <1>1, <1>8 DEF Kept
-----------------------------------------------------------------------------
(* The client.  What it sends changes, of what it has to send, only what   *)
(* is being written; what it reads changes nothing of it.                  *)

LEMMA ClientFields ==
  ASSUME NEW N \in Nat, NEW c \in Clients(N)
  PROVE  /\ c.writing \in Seq(AskPieces(N)) /\ c.wire \in Seq(Asks(N))
         /\ c.left \in Seq(AskPieces(N)) /\ c.asked \in Seq(Requests)
         /\ c.busy \in BOOLEAN /\ c.stopped \in BOOLEAN
         /\ c.open \in BOOLEAN /\ c.undefined \in BOOLEAN
         /\ c.rx \in Awaited(N)
         /\ c.got \in Seq([of : 0 .. N, answer : Answers, whole : BOOLEAN])
BY DEF Clients

LEMMA AskPieceTypes ==
  ASSUME NEW N \in Nat, NEW i \in 1 .. N
  PROVE  /\ InHeader(Part("head", i)) \in AskPieces(N) /\ Body(i) \in AskPieces(N)
         /\ Chunk(i) \in AskPieces(N) /\ LastChunk(i) \in AskPieces(N)
         /\ InHeader(Part("head", i)).part = Part("head", i)
         /\ Body(i).part = Part("body", i)
         /\ Chunk(i).part = Part("chunk", i)
         /\ LastChunk(i).part = Part("last", i)
BY DEF Body, Chunk, LastChunk, InHeader, Buffered, Part, AskPieces, Asks, Buffers

LEMMA NoRxAwaited ==
  ASSUME NEW N \in Nat
  PROVE  NoRx \in Awaited(N)
BY DEF NoRx, Awaited, NoAnswer

(* Types grow with the number of requests.                                 *)
LEMMA TypesGrow ==
  ASSUME NEW N \in Nat
  PROVE  /\ Clients(N) \subseteq Clients(N + 1) /\ Servers(N) \subseteq Servers(N + 1)
<1>1. 0 .. N \subseteq 0 .. N + 1 /\ 1 .. N \subseteq 1 .. N + 1
  OBVIOUS
<1>2. Heads(N) \subseteq Heads(N + 1)
  BY <1>1 DEF Heads
<1>3. Asks(N) \subseteq Asks(N + 1)
  BY <1>1 DEF Asks
<1>4. Replies(N) \subseteq Replies(N + 1)
  BY <1>1, <1>2 DEF Replies
<1>5. AskPieces(N) \subseteq AskPieces(N + 1)
  BY <1>3 DEF AskPieces
<1>6. ReplyPieces(N) \subseteq ReplyPieces(N + 1)
  BY <1>4 DEF ReplyPieces
<1>7. Received(N) \subseteq Received(N + 1) /\ Awaited(N) \subseteq Awaited(N + 1)
  BY <1>1, <1>2 DEF Received, Awaited
<1> DEFINE G(n) == [of : 0 .. n, answer : Answers, whole : BOOLEAN]
           T(n) == [of : 1 .. n, data : Nat]
<1>8. G(N) \subseteq G(N + 1) /\ T(N) \subseteq T(N + 1)
  BY <1>1
<1>9. ASSUME NEW S, NEW T0, S \subseteq T0
      PROVE  Seq(S) \subseteq Seq(T0)
  BY <1>9
<1>10. /\ Seq(AskPieces(N)) \subseteq Seq(AskPieces(N + 1))
       /\ Seq(Asks(N)) \subseteq Seq(Asks(N + 1)) /\ Seq(G(N)) \subseteq Seq(G(N + 1))
  BY <1>3, <1>5, <1>8, <1>9
<1>11. /\ Seq(ReplyPieces(N)) \subseteq Seq(ReplyPieces(N + 1))
       /\ Seq(Replies(N)) \subseteq Seq(Replies(N + 1)) /\ Seq(T(N)) \subseteq Seq(T(N + 1))
       /\ Seq(1 .. N) \subseteq Seq(1 .. N + 1)
  BY <1>1, <1>4, <1>6, <1>8, <1>9
<1>12. Clients(N) \subseteq Clients(N + 1)
  <2>1. \A n : Clients(n) =
          [ writing : Seq(AskPieces(n)), busy : BOOLEAN, rx : Awaited(n), stopped : BOOLEAN,
            wire : Seq(Asks(n)), open : BOOLEAN, undefined : BOOLEAN,
            asked : Seq(Requests), left : Seq(AskPieces(n)), got : Seq(G(n)) ]
    BY DEF Clients
  <2> HIDE DEF G
  <2> QED BY <1>7, <1>10, <2>1
<1>13. Servers(N) \subseteq Servers(N + 1)
  <2>1. \A n : Servers(n) =
          [ writing : Seq(ReplyPieces(n)), busy : BOOLEAN, rx : Received(n),
            stopped : BOOLEAN, wire : Seq(Replies(n)), open : BOOLEAN,
            undefined : BOOLEAN, told : Seq(T(n)), owed : Seq(1 .. n),
            stream : 0 .. n, left : Nat ]
    BY DEF Servers
  <2> HIDE DEF T
  <2> QED BY <1>1, <1>7, <1>11, <2>1
<1> QED BY <1>12, <1>13

(* What the client has to send is no different.                            *)
SameOutput(c, d) ==
  /\ d.asked = c.asked /\ d.left = c.left /\ d.writing = c.writing /\ d.wire = c.wire

LEMMA ClientSendsOn ==
  ASSUME NEW N \in Nat, NEW c \in Clients(N), NEW m,
         c.busy \/ m \in Seq(AskPieces(N)), WritesWhenBusy(c)
  PROVE  LET d == ClientSends(c, m)
         IN  /\ d \in Clients(N) /\ WritesWhenBusy(d)
             /\ d.asked = c.asked /\ d.left = c.left /\ d.wire = c.wire
             /\ d.writing = IF c.busy THEN c.writing ELSE m
             /\ d.busy
<1> DEFINE e == [c EXCEPT !.rx = NoRx]
           u == e.undefined \/ Uses(e.writing) \cap Uses(m) # {}
           b == [e EXCEPT !.undefined = u]
           w == [e EXCEPT !.busy = TRUE, !.writing = m]
<1>1. /\ e \in Clients(N) /\ e.asked = c.asked /\ e.left = c.left /\ e.wire = c.wire
      /\ e.writing = c.writing /\ e.busy = c.busy /\ e.undefined = c.undefined
  BY NoRxAwaited DEF Clients
<1>2. ClientSends(c, m) = IF c.busy THEN b ELSE w
  BY <1>1 DEF ClientSends, ClearRx, SendData
<1> HIDE DEF e
<1>3. u \in BOOLEAN
  BY <1>1 DEF Clients
<1> HIDE DEF u
<1>4. /\ b \in Clients(N) /\ b.asked = e.asked /\ b.left = e.left /\ b.wire = e.wire
      /\ b.writing = e.writing /\ b.busy = e.busy
  BY <1>1, <1>3 DEF Clients
<1>5. ~c.busy => /\ w \in Clients(N) /\ w.asked = e.asked /\ w.left = e.left
                 /\ w.wire = e.wire /\ w.writing = m /\ w.busy
  BY <1>1 DEF Clients
<1>6. WritesWhenBusy(b)
  BY <1>1, <1>4 DEF WritesWhenBusy
<1>7. ~c.busy => WritesWhenBusy(w)
  BY <1>5 DEF WritesWhenBusy
<1> HIDE DEF b, w
<1> QED BY <1>1, <1>2, <1>4, <1>5, <1>6, <1>7

LEMMA ClientTransmit ==
  ASSUME NEW N \in Nat, NEW c \in Clients(N), NEW n \in 0 .. Len(c.writing),
         WritesWhenBusy(c)
  PROVE  LET d == Transmit(c, n)
         IN  /\ d \in Clients(N) /\ WritesWhenBusy(d)
             /\ d.asked = c.asked /\ d.left = c.left
             /\ d.writing = SubSeq(c.writing, n + 1, Len(c.writing))
             /\ d.wire = c.wire \o [i \in 1 .. n |-> c.writing[i].part]
<1> DEFINE v == SubSeq(c.writing, n + 1, Len(c.writing))
           y == c.wire \o [i \in 1 .. n |-> c.writing[i].part]
           d == [c EXCEPT !.writing = v, !.wire = y]
<1>1. c.writing \in Seq(AskPieces(N)) /\ c.wire \in Seq(Asks(N))
  BY ClientFields
<1>2. \A p \in AskPieces(N) : p.part \in Asks(N)
  BY DEF AskPieces
<1>3. v \in Seq(AskPieces(N)) /\ y \in Seq(Asks(N)) /\ Len(v) = Len(c.writing) - n
  <2>1. v \in Seq(AskPieces(N)) /\ Len(v) = Len(c.writing) - n
    BY <1>1, Rest
  <2>2. y \in Seq(Asks(N))
    BY <1>1, <1>2, Leaving
  <2> QED BY <2>1, <2>2
<1>4. Transmit(c, n) = d
  BY DEF Transmit
<1>5. v # <<>> => c.writing # <<>>
  BY <1>1, <1>3, EmptySeq, LenProperties
<1> HIDE DEF v, y
<1>6. /\ d \in Clients(N) /\ d.asked = c.asked /\ d.left = c.left
      /\ d.busy = c.busy /\ d.writing = v /\ d.wire = y
  BY <1>3 DEF Clients
<1> HIDE DEF d
<1> QED BY <1>4, <1>5, <1>6 DEF v, y, WritesWhenBusy

(* A client that has taken a part, or more.                                *)
ReadOn(N, c, d) == d \in Clients(N) /\ SameOutput(c, d) /\ d.busy = c.busy

LEMMA ClientIsTold ==
  ASSUME NEW N \in Nat, NEW c \in Clients(N), NEW head \in Heads(N),
         NEW whole \in BOOLEAN
  PROVE  ReadOn(N, c, Delivered(c, head, whole))
<1> DEFINE G == [of : 0 .. N, answer : Answers, whole : BOOLEAN]
           rec == [of |-> head.of, answer |-> head.answer, whole |-> whole]
           got == Append(c.got, rec)
           d == [c EXCEPT !.got = got, !.rx = NoRx]
<1>1. rec \in G
  BY DEF Heads
<1>2. c.got \in Seq(G)
  BY ClientFields
<1>3. Delivered(c, head, whole) = d
  BY DEF Delivered
<1> HIDE DEF rec
<1>4. got \in Seq(G)
  BY <1>1, <1>2, AppendProperties
<1> HIDE DEF got
<1>5. /\ d \in Clients(N) /\ d.asked = c.asked /\ d.left = c.left
      /\ d.writing = c.writing /\ d.wire = c.wire /\ d.busy = c.busy
  BY <1>4, NoRxAwaited DEF Clients
<1> HIDE DEF d
<1> QED BY <1>3, <1>5 DEF ReadOn, SameOutput

LEMMA AwaitedUpdates ==
  ASSUME NEW N \in Nat, NEW rx \in Awaited(N)
  PROVE  /\ [rx EXCEPT !.data = @ + 1] \in Awaited(N)
         /\ \A head \in Heads(N) : [rx EXCEPT !.answer = head] \in Awaited(N)
<1> DEFINE A == Heads(N) \cup {NoAnswer}
           T == [head : {Nothing}, complete : {FALSE}, answer : A, data : Nat]
<1>1. Awaited(N) = T
  BY DEF Awaited
<1>2. \A head \in Heads(N) : head \in A
  OBVIOUS
<1> HIDE DEF A
<1>3. ASSUME NEW r \in T
      PROVE  [r EXCEPT !.data = @ + 1] \in T /\ \A x \in A : [r EXCEPT !.answer = x] \in T
  <2>1. [r EXCEPT !.data = @ + 1] \in T
    <3>1. r.data + 1 \in Nat
      OBVIOUS
    <3> QED BY <3>1
  <2>2. \A x \in A : [r EXCEPT !.answer = x] \in T
    OBVIOUS
  <2> QED BY <2>1, <2>2
<1> HIDE DEF T
<1> QED BY <1>1, <1>2, <1>3

LEMMA ClientTakesOne ==
  ASSUME NEW N \in Nat, NEW c \in Clients(N), NEW part \in Replies(N), NEW more
  PROVE  ReadOn(N, c, ClientTakes(c, part, more))
<1> DEFINE h == c.rx.answer
           stopped == [c EXCEPT !.stopped = TRUE]
           begun == [c EXCEPT !.rx.answer = part]
           further == [c EXCEPT !.rx.data = @ + 1]
           invalid == [ClearRx(c) EXCEPT !.stopped = TRUE]
           body == Delivered(c, h, part = Part("body", h.of))
           last == Delivered(c, h, part.of = h.of /\ c.rx.data = StreamLength)
           t == ClientTakes(c, part, more)
<1>1. /\ c.rx \in Awaited(N) /\ h \in Heads(N) \cup {NoAnswer} /\ c.rx.data \in Nat
      /\ h \in Heads(N) \/ h.follow = "head"
  <2>1. c.rx \in Awaited(N)
    BY ClientFields
  <2>2. h \in Heads(N) \cup {NoAnswer} /\ c.rx.data \in Nat
    BY <2>1 DEF Awaited
  <2>3. NoAnswer.follow = "head"
    BY DEF NoAnswer
  <2> QED BY <2>1, <2>2, <2>3
<1>2. ReadOn(N, c, c)
  BY DEF ReadOn, SameOutput
<1>3. ReadOn(N, c, stopped)
  <2>1. /\ stopped \in Clients(N) /\ stopped.asked = c.asked /\ stopped.left = c.left
        /\ stopped.writing = c.writing /\ stopped.wire = c.wire /\ stopped.busy = c.busy
    BY DEF Clients
  <2> HIDE DEF stopped
  <2> QED BY <2>1 DEF ReadOn, SameOutput
<1>4. ReadOn(N, c, invalid)
  <2>1. /\ invalid \in Clients(N) /\ invalid.asked = c.asked /\ invalid.left = c.left
        /\ invalid.writing = c.writing /\ invalid.wire = c.wire /\ invalid.busy = c.busy
    BY NoRxAwaited DEF Clients, ClearRx
  <2> HIDE DEF invalid
  <2> QED BY <2>1 DEF ReadOn, SameOutput
<1>5. \A rx \in Awaited(N) : ReadOn(N, c, [c EXCEPT !.rx = rx])
  <2> TAKE rx \in Awaited(N)
  <2> DEFINE d == [c EXCEPT !.rx = rx]
  <2>1. /\ d \in Clients(N) /\ d.asked = c.asked /\ d.left = c.left
        /\ d.writing = c.writing /\ d.wire = c.wire /\ d.busy = c.busy
    BY DEF Clients
  <2> HIDE DEF d
  <2>2. ReadOn(N, c, d)
    BY <2>1 DEF ReadOn, SameOutput
  <2> QED BY <2>2 DEF d
<1>6. ReadOn(N, c, further)
  <2> DEFINE rx == [c.rx EXCEPT !.data = @ + 1]
  <2>1. rx \in Awaited(N)
    BY <1>1, AwaitedUpdates
  <2>2. further = [c EXCEPT !.rx = rx]
    BY DEF Clients
  <2> HIDE DEF rx, further
  <2> QED BY <1>5, <2>1, <2>2
<1>7. part \in Heads(N) => ReadOn(N, c, begun) /\ ReadOn(N, c, Delivered(c, part, TRUE))
  <2> SUFFICES ASSUME part \in Heads(N)
               PROVE  ReadOn(N, c, begun) /\ ReadOn(N, c, Delivered(c, part, TRUE))
    OBVIOUS
  <2> DEFINE rx == [c.rx EXCEPT !.answer = part]
  <2>1. rx \in Awaited(N)
    BY <1>1, AwaitedUpdates
  <2>2. begun = [c EXCEPT !.rx = rx]
    BY DEF Clients
  <2> HIDE DEF rx, begun
  <2> QED BY <1>5, <2>1, <2>2, ClientIsTold
<1>8. h \in Heads(N) => ReadOn(N, c, body) /\ ReadOn(N, c, last)
  BY ClientIsTold
<1>9. part.is = "head" => part \in Heads(N)
  BY DEF Replies, Heads
<1> HIDE DEF stopped, begun, further, invalid, body, last
<1>10. \/ t \in {c, stopped, further, invalid}
       \/ part.is = "head" /\ t \in {begun, Delivered(c, part, TRUE)}
       \/ h.follow # "head" /\ t \in {body, last}
  BY DEF ClientTakes, InvalidResponse, stopped, begun, further, invalid, body, last
<1> HIDE DEF t, h
<1>11. CASE t \in {c, stopped, further, invalid}
  BY <1>2, <1>3, <1>4, <1>6, <1>11 DEF t
<1>12. CASE part.is = "head" /\ t \in {begun, Delivered(c, part, TRUE)}
  BY <1>7, <1>9, <1>12 DEF t
<1>13. CASE h.follow # "head" /\ t \in {body, last}
  BY <1>1, <1>8, <1>13 DEF t
<1> QED BY <1>10, <1>11, <1>12, <1>13

LEMMA ClientReadingLeadsTo ==
  ASSUME NEW n \in Nat, NEW holds, client \in holds[0],
         \A j \in 1 .. n : \A c \in holds[j - 1] :
           ClientTakes(c, server.wire[j], j < n) \in holds[j]
  PROVE  ClientReading(n) \subseteq holds[n]
<1> DEFINE Step(j, S) == {ClientTakes(c, server.wire[j], j < n) : c \in S}
           Rec(f, m) == f = [j \in 0 .. m |-> IF j = 0 THEN {client} ELSE Step(j, f[j - 1])]
           after == CHOOSE f : Rec(f, n)
<1>1. ClientReading(n) = after[n]
  BY DEF ClientReading
<1>2. \A j \in 1 .. n : \A S : S \subseteq holds[j - 1] => Step(j, S) \subseteq holds[j]
  OBVIOUS
<1> HIDE DEF Step
<1>3. \E f : Rec(f, n)
  <2> DEFINE Good == {m \in 0 .. n : \E f : Rec(f, m)}
  <2>1. 0 \in Good
    <3> DEFINE f == [j \in 0 .. 0 |-> IF j = 0 THEN {client} ELSE {}]
    <3>1. \A j \in 0 .. 0 : f[j] = IF j = 0 THEN {client} ELSE Step(j, f[j - 1])
      OBVIOUS
    <3>2. f = [j \in 0 .. 0 |-> IF j = 0 THEN {client} ELSE Step(j, f[j - 1])]
      BY <3>1
    <3>3. \E x : Rec(x, 0)
      BY <3>2
    <3> HIDE DEF Rec
    <3> QED BY <3>3
  <2>2. ASSUME NEW m \in 0 .. n - 1, m \in Good
        PROVE  m + 1 \in Good
    <3>1. PICK f : Rec(f, m)
      BY <2>2
    <3> DEFINE g == [j \in 0 .. m + 1 |-> IF j <= m THEN f[j] ELSE Step(m + 1, f[m])]
               h == [j \in 0 .. m + 1 |-> IF j = 0 THEN {client} ELSE Step(j, g[j - 1])]
    <3>2. ASSUME NEW j \in 0 .. m + 1
          PROVE  g[j] = h[j]
      <4>1. CASE j = m + 1
        <5>1. g[j] = Step(m + 1, f[m]) /\ h[j] = Step(m + 1, g[m])
          BY <4>1
        <5>2. g[m] = f[m]
          OBVIOUS
        <5> QED BY <5>1, <5>2
      <4>2. CASE j \in 1 .. m
        <5>1. g[j] = f[j] /\ h[j] = Step(j, g[j - 1]) /\ g[j - 1] = f[j - 1]
          <6>1. j \in 0 .. m + 1 /\ j # 0 /\ j <= m /\ j - 1 \in 0 .. m + 1 /\ j - 1 <= m
            BY <4>2
          <6>2. h[j] = Step(j, g[j - 1])
            BY <6>1
          <6>3. \A l \in 0 .. m + 1 : l <= m => g[l] = f[l]
            OBVIOUS
          <6> HIDE DEF g, h
          <6> QED BY <6>1, <6>2, <6>3
        <5>2. f[j] = Step(j, f[j - 1])
          <6>1. \A l \in 0 .. m : f[l] = IF l = 0 THEN {client} ELSE Step(l, f[l - 1])
            BY <3>1
          <6> QED BY <4>2, <6>1
        <5> QED BY <5>1, <5>2
      <4>3. CASE j = 0
        BY <3>1, <4>3
      <4> QED BY <4>1, <4>2, <4>3
    <3>3. g = h
      BY <3>2
    <3>4. Rec(g, m + 1)
      BY <3>3
    <3>5. \E x : Rec(x, m + 1)
      BY <3>4
    <3> HIDE DEF Rec
    <3> QED BY <3>5
  <2> HIDE DEF Good
  <2>3. 0 .. n \subseteq Good
    BY <2>1, <2>2, CountUp
  <2>4. n \in Good
    BY <2>3
  <2> QED BY <2>4 DEF Good
<1>4. Rec(after, n)
  BY <1>3
<1> HIDE DEF after
<1> DEFINE Kept == {j \in 0 .. n : after[j] \subseteq holds[j]}
<1>5. 0 \in Kept
  BY <1>4
<1>6. ASSUME NEW j \in 0 .. n - 1, j \in Kept
      PROVE  j + 1 \in Kept
  <2>1. after[j + 1] = Step(j + 1, after[j])
    <3>1. \A l \in 0 .. n : after[l] = IF l = 0 THEN {client} ELSE Step(l, after[l - 1])
      BY <1>4
    <3>2. j + 1 \in 0 .. n /\ j + 1 # 0 /\ (j + 1) - 1 = j
      OBVIOUS
    <3> QED BY <3>1, <3>2
  <2>2. after[j] \subseteq holds[(j + 1) - 1] /\ j + 1 \in 1 .. n
    BY <1>6
  <2>3. Step(j + 1, after[j]) \subseteq holds[j + 1]
    BY <1>2, <2>2
  <2> QED BY <2>1, <2>2, <2>3
<1> HIDE DEF Kept
<1>7. 0 .. n \subseteq Kept
  BY <1>5, <1>6, CountUp
<1>8. n \in Kept
  BY <1>7
<1> QED BY <1>1, <1>8 DEF Kept
-----------------------------------------------------------------------------
(* The stream of the parts that the client has written, is writing and has *)
(* still to write, that the server has not read: part p of it.             *)
Outstanding(c) == Len(c.wire) + Len(c.writing) + Len(c.left)

Out(c, p) ==
  IF p <= Len(c.wire) THEN c.wire[p]
  ELSE IF p <= Len(c.wire) + Len(c.writing) THEN c.writing[p - Len(c.wire)].part
  ELSE c.left[p - Len(c.wire) - Len(c.writing)].part

(* Its labels: part p is part at[p] of request of[p], and the parts follow *)
(* each other up to the end of the last request.                           *)
Labels(of, at) ==
  LET N == Len(client.asked)
      m == Outstanding(client)
  IN  /\ of \in [1 .. m + 1 -> 1 .. N + 1] /\ at \in [1 .. m + 1 -> Nat]
      /\ of[m + 1] = N + 1 /\ at[m + 1] = 0
      /\ \A p \in 1 .. m :
           /\ of[p] <= N /\ at[p] < Size(Asked(of[p]))
           /\ Out(client, p) = PartOf(of[p], at[p])
           /\ of[p + 1] = NextOf(of[p], at[p]) /\ at[p + 1] = NextAt(of[p], at[p])

(* What the server has been told and holds fits what it has still to read. *)
InOrder ==
  \E of, at : Labels(of, at) /\ Holds(server, of[1], at[1]) /\ ToldBefore(server, of[1])

(* A step of the server that reads nothing.                                *)
Quiet(s, t) ==
  /\ t.told = s.told /\ t.stopped = s.stopped
  /\ s.undefined => t.undefined
  /\ t.rx \in {s.rx, NoRx}

LEMMA SendsIsQuiet ==
  ASSUME NEW N, NEW s, NEW t, Sends(N, s, t)
  PROVE  Quiet(s, t)
BY DEF Sends, Quiet, Unanswered

LEMMA LabelsStay ==
  ASSUME NEW CONSTANT of, NEW CONSTANT at, Labels(of, at),
         client'.asked = client.asked, Outstanding(client') = Outstanding(client),
         \A p \in 1 .. Outstanding(client) : Out(client', p) = Out(client, p)
  PROVE  Labels(of, at)'
<1>1. \A i : Asked(i)' = Asked(i)
  BY DEF Asked
<1>2. \A i, k : /\ NextOf(i, k)' = NextOf(i, k) /\ NextAt(i, k)' = NextAt(i, k)
                /\ PartOf(i, k)' = PartOf(i, k)
  BY <1>1 DEF NextOf, NextAt, PartOf
<1> QED BY <1>1, <1>2 DEF Labels

LEMMA OrderStays ==
  ASSUME InOrder, Quiet(server, server'), client'.asked = client.asked,
         Outstanding(client') = Outstanding(client),
         \A p \in 1 .. Outstanding(client) : Out(client', p) = Out(client, p)
  PROVE  InOrder'
<1>1. PICK of, at : Labels(of, at) /\ Holds(server, of[1], at[1]) /\ ToldBefore(server, of[1])
  BY DEF InOrder
<1>2. Labels(of, at)'
  BY <1>1, LabelsStay
<1>3. Holds(server, of[1], at[1])'
  BY <1>1 DEF Holds, Quiet, NoRx, Nothing
<1>4. ToldBefore(server, of[1])'
  <2>1. \A i : Asked(i)' = Asked(i)
    BY DEF Asked
  <2> QED BY <1>1, <2>1 DEF ToldBefore, Quiet
<1> QED BY <1>2, <1>3, <1>4 DEF InOrder

LEMMA TransmitKeepsOutput ==
  ASSUME NEW N \in Nat, NEW c \in Clients(N), NEW n \in 0 .. Len(c.writing),
         NEW d, d.left = c.left, d.writing = SubSeq(c.writing, n + 1, Len(c.writing)),
         d.wire = c.wire \o [i \in 1 .. n |-> c.writing[i].part]
  PROVE  /\ Outstanding(d) = Outstanding(c)
         /\ \A p \in 1 .. Outstanding(c) : Out(d, p) = Out(c, p)
<1> DEFINE w == c.writing
           x == c.wire
           l == Len(c.left)
<1>1. w \in Seq(AskPieces(N)) /\ x \in Seq(Asks(N)) /\ l \in Nat
  <2>1. /\ c.left \in Seq(AskPieces(N)) /\ c.writing \in Seq(AskPieces(N))
        /\ c.wire \in Seq(Asks(N))
    BY ClientFields
  <2>2. \A S, q : q \in Seq(S) => Len(q) \in Nat
    OBVIOUS
  <2> QED BY <2>1, <2>2
<1>2. \A p \in AskPieces(N) : p.part \in Asks(N)
  BY DEF AskPieces
<1>3. /\ Len(d.writing) = Len(w) - n
      /\ \A i \in 1 .. Len(w) - n : d.writing[i] = w[n + i]
      /\ Len(d.wire) = Len(x) + n
      /\ \A i \in 1 .. Len(x) : d.wire[i] = x[i]
      /\ \A i \in 1 .. n : d.wire[Len(x) + i] = w[i].part
  BY <1>1, <1>2, Leaving
<1>4. Len(w) \in Nat /\ Len(x) \in Nat /\ n \in Nat /\ n <= Len(w)
  BY <1>1
<1>5. Outstanding(d) = Outstanding(c) /\ Outstanding(c) = Len(x) + Len(w) + l
  <2> HIDE DEF w, x, l
  <2>1. (Len(x) + n) + (Len(w) - n) + l = Len(x) + Len(w) + l
    BY <1>1, <1>4
  <2> QED BY <1>3, <2>1 DEF Outstanding, w, x, l
<1>6. ASSUME NEW p \in 1 .. Outstanding(c)
      PROVE  Out(d, p) = Out(c, p)
  <2> DEFINE a == Len(x)
             b == Len(w)
  <2>1. a \in Nat /\ b \in Nat /\ l \in Nat /\ n \in Nat /\ n <= b /\ p \in 1 .. a + b + l
    BY <1>1, <1>4, <1>5
  <2>2. Out(d, p) = IF p <= a + n THEN d.wire[p]
                    ELSE IF p <= a + n + (b - n) THEN d.writing[p - (a + n)].part
                    ELSE c.left[p - (a + n) - (b - n)].part
    BY <1>3 DEF Out
  <2>3. Out(c, p) = IF p <= a THEN x[p] ELSE IF p <= a + b THEN w[p - a].part
                    ELSE c.left[p - a - b].part
    BY DEF Out
  <2>4. /\ \A i \in 1 .. b - n : d.writing[i] = w[n + i]
        /\ \A i \in 1 .. a : d.wire[i] = x[i]
        /\ \A i \in 1 .. n : d.wire[a + i] = w[i].part
    BY <1>3
  <2> HIDE DEF a, b, l, w, x
  <2>5. CASE p <= a
    <3>1. p \in 1 .. a /\ p <= a + n
      BY <2>1, <2>5
    <3>2. Out(d, p) = d.wire[p] /\ Out(c, p) = x[p]
      BY <2>2, <2>3, <2>5, <3>1
    <3> QED BY <2>4, <3>1, <3>2
  <2>6. CASE p > a /\ p <= a + n
    <3>1. p - a \in 1 .. n /\ a + (p - a) = p /\ p <= a + b /\ ~(p <= a)
      BY <2>1, <2>6
    <3>2. Out(d, p) = d.wire[p] /\ Out(c, p) = w[p - a].part
      BY <2>2, <2>3, <2>6, <3>1
    <3>3. d.wire[a + (p - a)] = w[p - a].part
      BY <2>4, <3>1
    <3> QED BY <3>1, <3>2, <3>3
  <2>7. CASE p > a + n /\ p <= a + b
    <3>1. /\ p - (a + n) \in 1 .. b - n /\ n + (p - (a + n)) = p - a
          /\ ~(p <= a) /\ ~(p <= a + n) /\ p <= a + n + (b - n)
      BY <2>1, <2>7
    <3>2. Out(d, p) = d.writing[p - (a + n)].part /\ Out(c, p) = w[p - a].part
      BY <2>2, <2>3, <2>7, <3>1
    <3>3. d.writing[p - (a + n)] = w[n + (p - (a + n))]
      BY <2>4, <3>1
    <3> QED BY <3>1, <3>2, <3>3
  <2>8. CASE p > a + b
    <3>1. /\ p - (a + n) - (b - n) = p - a - b
          /\ ~(p <= a) /\ ~(p <= a + n) /\ ~(p <= a + n + (b - n)) /\ ~(p <= a + b)
      BY <2>1, <2>8
    <3> QED BY <2>2, <2>3, <3>1
  <2> QED BY <2>1, <2>5, <2>6, <2>7, <2>8
<1> QED BY <1>5, <1>6

-----------------------------------------------------------------------------
(* The server reads.                                                       *)

LEMMA TypesGiveGiven ==
  ASSUME ExchangeTypes
  PROVE  /\ Given(Len(client.asked)) /\ Len(client.asked) \in Nat
         /\ client \in Clients(Len(client.asked)) /\ WritesWhenBusy(client)
         /\ server \in Servers(Len(client.asked)) /\ WritesWhenBusy(server)
         /\ Len(client.wire) \in Nat /\ Len(client.writing) \in Nat
         /\ Len(client.left) \in Nat /\ Outstanding(client) \in Nat
         /\ Len(client.wire) <= Outstanding(client)
<1> DEFINE N == Len(client.asked)
<1>1. client \in Clients(N) /\ server \in Servers(N)
  BY DEF ExchangeTypes
<1>2. client.asked \in Seq(Requests)
  BY <1>1 DEF Clients
<1>3. N \in Nat
  BY <1>2
<1>4. Given(N)
  BY <1>2 DEF Given, ExchangeTypes
<1>5. WritesWhenBusy(client) /\ WritesWhenBusy(server)
  BY DEF ExchangeTypes, WritesWhenBusy
<1>6. /\ client.wire \in Seq(Asks(N)) /\ client.writing \in Seq(AskPieces(N))
      /\ client.left \in Seq(AskPieces(N))
  BY <1>1, <1>3, ClientFields
<1>7. Len(client.wire) \in Nat /\ Len(client.writing) \in Nat /\ Len(client.left) \in Nat
  <2>1. \A S, q : q \in Seq(S) => Len(q) \in Nat
    OBVIOUS
  <2> HIDE DEF N
  <2> QED BY <1>6, <2>1
<1> HIDE DEF N
<1>8. Outstanding(client) \in Nat /\ Len(client.wire) <= Outstanding(client)
  <2>1. \A a, b, l \in Nat : a + b + l \in Nat /\ a <= a + b + l
    OBVIOUS
  <2> QED BY <1>7, <2>1 DEF Outstanding
<1> QED BY <1>1, <1>3, <1>4, <1>5, <1>7, <1>8 DEF N

LEMMA ServerFollows ==
  ASSUME ExchangeTypes, NEW n \in 1 .. Len(client.wire), server' \in ServerReading(n),
         NEW of, NEW at, Labels(of, at), Holds(server, of[1], at[1]),
         ToldBefore(server, of[1])
  PROVE  Follows(Len(client.asked), server', of[n + 1], at[n + 1])
<1> DEFINE N == Len(client.asked)
           holds == [j \in 0 .. n |-> {s \in Servers(N) : Follows(N, s, of[j + 1], at[j + 1])}]
<1>1. /\ Given(N) /\ N \in Nat /\ server \in Servers(N) /\ WritesWhenBusy(server)
      /\ n \in Nat /\ n <= Outstanding(client) /\ n <= Len(client.wire)
      /\ Outstanding(client) \in Nat
  <2>1. /\ Given(N) /\ N \in Nat /\ server \in Servers(N) /\ WritesWhenBusy(server)
        /\ Outstanding(client) \in Nat /\ Len(client.wire) \in Nat
        /\ Len(client.wire) <= Outstanding(client)
    BY TypesGiveGiven
  <2>2. \A a, b \in Nat : n \in 1 .. a /\ a <= b => n \in Nat /\ n <= b /\ n <= a
    OBVIOUS
  <2>3. n \in Nat /\ n <= Outstanding(client) /\ n <= Len(client.wire)
    BY <2>1, <2>2
  <2> QED BY <2>1, <2>3
<1>2. server \in holds[0]
  BY <1>1 DEF Follows
<1>3. ASSUME NEW j \in 1 .. n, NEW s \in holds[j - 1], NEW taken \in 0 .. 2
      PROVE  ServerTakes(s, client.wire[j], taken) \in holds[j]
  <2>1. /\ j \in 1 .. Outstanding(client) /\ j <= Len(client.wire)
        /\ (j - 1) + 1 = j /\ j \in 0 .. n /\ j - 1 \in 0 .. n /\ taken \in Nat
    BY <1>1
  <2>2. Follows(N, s, of[j], at[j])
    BY <2>1
  <2>3. client.wire[j] = PartOf(of[j], at[j])
    BY <2>1 DEF Labels, Out
  <2>4. /\ of[j] \in 1 .. N + 1 /\ of[j] <= N /\ at[j] \in Nat
        /\ at[j] < Size(Asked(of[j]))
        /\ of[j + 1] = NextOf(of[j], at[j]) /\ at[j + 1] = NextAt(of[j], at[j])
    <3> DEFINE m == Outstanding(client)
    <3>1. /\ of \in [1 .. m + 1 -> 1 .. N + 1] /\ at \in [1 .. m + 1 -> Nat]
          /\ \A p \in 1 .. m :
               /\ of[p] <= N /\ at[p] < Size(Asked(of[p]))
               /\ of[p + 1] = NextOf(of[p], at[p]) /\ at[p + 1] = NextAt(of[p], at[p])
      BY DEF Labels
    <3>2. m \in Nat /\ j \in 1 .. m /\ j \in 1 .. m + 1
      BY <1>1, <2>1
    <3> HIDE DEF m, N
    <3> QED BY <3>1, <3>2
  <2>5. of[j] \in 1 .. N /\ at[j] \in 0 .. Size(Asked(of[j])) - 1
    <3>1. of[j] \in 1 .. N
      BY <1>1, <2>4
    <3>2. Size(Asked(of[j])) \in Nat
      BY <1>1, <3>1, GivenRequests DEF Size, Chunked
    <3> QED BY <2>4, <3>1, <3>2
  <2> DEFINE t == ServerTakes(s, PartOf(of[j], at[j]), taken)
  <2>6. Follows(N, t, NextOf(of[j], at[j]), NextAt(of[j], at[j]))
    BY <1>1, <2>1, <2>2, <2>5, ServerTakesOne
  <2> HIDE DEF t, N
  <2>7. Follows(N, t, of[j + 1], at[j + 1]) /\ t \in Servers(N)
    BY <2>4, <2>6 DEF Follows
  <2>8. t \in holds[j]
    BY <2>1, <2>7
  <2> QED BY <2>3, <2>8 DEF t
<1>4. ServerReading(n) \subseteq holds[n]
  <2> HIDE DEF holds
  <2> QED BY <1>1, <1>2, <1>3, ServerReadingLeadsTo
<1>5. server' \in holds[n]
  BY <1>4
<1>6. n \in 0 .. n
  BY <1>1
<1> QED BY <1>5, <1>6

(* ... with the lengths given.                                             *)
OutWith(c, a, b, p) ==
  IF p <= a THEN c.wire[p]
  ELSE IF p <= a + b THEN c.writing[p - a].part
  ELSE c.left[p - a - b].part

LEMMA OutIs ==
  ASSUME NEW c, NEW p, NEW a, NEW b, Len(c.wire) = a, Len(c.writing) = b
  PROVE  Out(c, p) = OutWith(c, a, b, p)
BY DEF Out, OutWith

(* A read shifts the stream by the n parts that it takes.                  *)
LEMMA ReadShiftsOutput ==
  ASSUME ExchangeTypes, NEW CONSTANT n, n \in 1 .. Len(client.wire),
         client' = [client EXCEPT !.wire = SubSeq(@, n + 1, Len(@))],
         NEW CONSTANT m, m = Outstanding(client)
  PROVE  /\ m \in Nat /\ n \in Nat /\ n <= m /\ Outstanding(client') = m - n
         /\ \A p \in 1 .. m - n : Out(client', p) = Out(client, p + n)
         /\ client'.asked = client.asked /\ client'.got = client.got
         /\ client'.rx = client.rx /\ client'.undefined = client.undefined
         /\ client'.stopped = client.stopped /\ client'.writing = client.writing
         /\ Len(client'.wire) = Len(client.wire) - n
<1> DEFINE N == Len(client.asked)
           v == SubSeq(client.wire, n + 1, Len(client.wire))
<1>1. /\ N \in Nat /\ client \in Clients(N) /\ Len(client.wire) \in Nat
      /\ Len(client.writing) \in Nat /\ Len(client.left) \in Nat /\ m \in Nat
  BY TypesGiveGiven
<1>2. n \in Nat /\ n <= Len(client.wire) /\ n <= m
  <2>1. \A a, b \in Nat : n \in 1 .. a /\ a <= b => n \in Nat /\ n <= b /\ n <= a
    OBVIOUS
  <2>2. Len(client.wire) <= m
    BY TypesGiveGiven
  <2> QED BY <1>1, <2>1, <2>2
<1>3. client.wire \in Seq(Asks(N))
  BY <1>1, ClientFields
<1>4. Len(v) = Len(client.wire) - n /\ \A i \in 1 .. Len(v) : v[i] = client.wire[n + i]
  <2>1. n \in 0 .. Len(client.wire)
    BY <1>1, <1>2
  <2> QED BY <1>3, <2>1, Rest
<1> HIDE DEF v
<1>5. /\ client'.asked = client.asked /\ client'.wire = v
      /\ client'.writing = client.writing /\ client'.left = client.left
      /\ client'.got = client.got /\ client'.rx = client.rx
      /\ client'.undefined = client.undefined /\ client'.stopped = client.stopped
  BY <1>1 DEF Clients, v
<1>6. Outstanding(client') = m - n
  <2>1. (Len(client.wire) - n) + Len(client.writing) + Len(client.left) = m - n
    <3> DEFINE a == Len(client.wire)
               b == Len(client.writing)
               l == Len(client.left)
    <3>1. a \in Nat /\ b \in Nat /\ l \in Nat /\ n \in Nat
      BY <1>1, <1>2
    <3>2. m = a + b + l
      BY DEF Outstanding
    <3> HIDE DEF a, b, l
    <3>3. (a - n) + b + l = m - n
      BY <3>1, <3>2
    <3> QED BY <3>3 DEF a, b, l
  <2> QED BY <1>4, <1>5, <2>1 DEF Outstanding
<1>7. ASSUME NEW p \in 1 .. m - n
      PROVE  Out(client', p) = Out(client, p + n)
  <2> DEFINE a == Len(client.wire)
             b == Len(client.writing)
  <2>1. a \in Nat /\ b \in Nat /\ n \in Nat /\ n <= a /\ p \in Nat /\ p > 0
    BY <1>1, <1>2
  <2>2. Out(client', p) = IF p <= a - n THEN v[p]
                          ELSE IF p <= (a - n) + b THEN client.writing[p - (a - n)].part
                          ELSE client.left[p - (a - n) - b].part
    <3>1. Len(client'.wire) = a - n /\ Len(client'.writing) = b
      BY <1>4, <1>5
    <3> HIDE DEF a, b
    <3>2. Out(client', p) = OutWith(client', a - n, b, p)
      BY <3>1, OutIs
    <3> QED BY <1>5, <3>2 DEF OutWith
  <2> DEFINE q == p + n
  <2>3. Out(client, q) = IF q <= a THEN client.wire[q]
                         ELSE IF q <= a + b THEN client.writing[q - a].part
                         ELSE client.left[q - a - b].part
    <3>1. Len(client.wire) = a /\ Len(client.writing) = b
      OBVIOUS
    <3> HIDE DEF a, b, q
    <3>2. Out(client, q) = OutWith(client, a, b, q)
      BY <3>1, OutIs
    <3> QED BY <3>2 DEF OutWith
  <2>4. p <= a - n => v[p] = client.wire[q]
    <3> SUFFICES ASSUME p <= a - n PROVE v[p] = client.wire[q]
      OBVIOUS
    <3>1. p \in 1 .. Len(v) /\ n + p = q
      BY <1>4, <2>1
    <3> QED BY <1>4, <3>1
  <2> HIDE DEF a, b
  <2>5. /\ p <= a - n <=> q <= a
        /\ p <= (a - n) + b <=> q <= a + b
        /\ p - (a - n) = q - a /\ p - (a - n) - b = q - a - b
    BY <2>1
  <2> HIDE DEF q
  <2>6. Out(client', p) = Out(client, q)
    BY <2>2, <2>3, <2>4, <2>5
  <2> QED BY <2>6 DEF q
<1> QED BY <1>1, <1>2, <1>4, <1>5, <1>6, <1>7

LEMMA LabelsShift ==
  ASSUME ExchangeTypes, NEW CONSTANT n, n \in 1 .. Len(client.wire),
         client' = [client EXCEPT !.wire = SubSeq(@, n + 1, Len(@))],
         NEW CONSTANT of, NEW CONSTANT at, Labels(of, at),
         NEW CONSTANT m, m = Outstanding(client)
  PROVE  Labels([p \in 1 .. m - n + 1 |-> of[p + n]], [p \in 1 .. m - n + 1 |-> at[p + n]])'
<1> DEFINE N == Len(client.asked)
           of2 == [p \in 1 .. m - n + 1 |-> of[p + n]]
           at2 == [p \in 1 .. m - n + 1 |-> at[p + n]]
<1>1. N \in Nat /\ m \in Nat
  BY TypesGiveGiven
<1>2. n \in Nat /\ n <= m
  BY ReadShiftsOutput
<1>5. client'.asked = client.asked
  BY ReadShiftsOutput
<1>6. Outstanding(client') = m - n
  BY ReadShiftsOutput
<1>7. \A p \in 1 .. m - n : Out(client', p) = Out(client, p + n)
  BY ReadShiftsOutput
<1>8. \A i : Asked(i)' = Asked(i)
  BY <1>5 DEF Asked
<1>9. \A i, k : /\ NextOf(i, k)' = NextOf(i, k) /\ NextAt(i, k)' = NextAt(i, k)
                /\ PartOf(i, k)' = PartOf(i, k)
  BY <1>8 DEF NextOf, NextAt, PartOf
<1>10. /\ of \in [1 .. m + 1 -> 1 .. N + 1] /\ at \in [1 .. m + 1 -> Nat]
       /\ of[m + 1] = N + 1 /\ at[m + 1] = 0
       /\ \A p \in 1 .. m :
           /\ of[p] <= N /\ at[p] < Size(Asked(of[p]))
           /\ Out(client, p) = PartOf(of[p], at[p])
           /\ of[p + 1] = NextOf(of[p], at[p]) /\ at[p + 1] = NextAt(of[p], at[p])
  BY DEF Labels
<1>11. /\ of2 \in [1 .. (m - n) + 1 -> 1 .. N + 1] /\ at2 \in [1 .. (m - n) + 1 -> Nat]
       /\ of2[(m - n) + 1] = N + 1 /\ at2[(m - n) + 1] = 0
  <2>1. \A p \in 1 .. (m - n) + 1 : p + n \in 1 .. m + 1
    BY <1>1, <1>2
  <2>2. (m - n) + 1 \in 1 .. (m - n) + 1 /\ ((m - n) + 1) + n = m + 1
    BY <1>1, <1>2
  <2> QED BY <1>10, <2>1, <2>2
<1>12. ASSUME NEW p \in 1 .. m - n
       PROVE  /\ of2[p] <= N /\ at2[p] < Size(Asked(of2[p]))
              /\ Out(client, p + n) = PartOf(of2[p], at2[p])
              /\ of2[p + 1] = NextOf(of2[p], at2[p])
              /\ at2[p + 1] = NextAt(of2[p], at2[p])
  <2>1. /\ p + n \in 1 .. m /\ p \in 1 .. m - n + 1 /\ p + 1 \in 1 .. m - n + 1
        /\ (p + 1) + n = (p + n) + 1
    <3>1. m \in Nat /\ n \in Nat /\ n <= m
      BY <1>1, <1>2
    <3> QED BY <3>1
  <2>2. /\ of2[p] = of[p + n] /\ at2[p] = at[p + n]
        /\ of2[p + 1] = of[(p + n) + 1] /\ at2[p + 1] = at[(p + n) + 1]
    BY <2>1
  <2> HIDE DEF of2, at2, N
  <2> QED BY <1>10, <2>1, <2>2
<1> HIDE DEF of2, at2
<1>13. Labels(of2, at2)'
  BY <1>5, <1>6, <1>7, <1>8, <1>9, <1>11, <1>12 DEF Labels
<1> QED BY <1>13 DEF of2, at2

-----------------------------------------------------------------------------
(* The client asks.                                                        *)

LEMMA SameOutputSameParts ==
  ASSUME NEW c, NEW d, SameOutput(c, d)
  PROVE  Outstanding(d) = Outstanding(c) /\ \A p : Out(d, p) = Out(c, p)
BY DEF SameOutput, Outstanding, Out

LEMMA AskMoreKeepsOutput ==
  ASSUME ExchangeTypes, AskMore
  PROVE  /\ client' \in Clients(Len(client.asked)) /\ WritesWhenBusy(client')
         /\ client'.asked = client.asked
         /\ Outstanding(client') = Outstanding(client)
         /\ \A p \in 1 .. Outstanding(client) : Out(client', p) = Out(client, p)
<1> DEFINE N == Len(client.asked)
           d == ClientSends(client, <<Head(client.left)>>)
           l == IF client.busy THEN d.left ELSE Tail(d.left)
           e == [d EXCEPT !.left = l]
<1>1. /\ N \in Nat /\ client \in Clients(N) /\ WritesWhenBusy(client)
      /\ Len(client.wire) \in Nat /\ Len(client.left) \in Nat
  BY TypesGiveGiven
<1>2. client' = e /\ client.left # <<>>
  BY DEF AskMore
<1>3. client.left \in Seq(AskPieces(N)) /\ client.wire \in Seq(Asks(N))
  BY <1>1, ClientFields
<1>4. <<Head(client.left)>> \in Seq(AskPieces(N))
  <2>1. Head(client.left) \in AskPieces(N)
    BY <1>2, <1>3, HeadTailProperties
  <2> QED BY <2>1
<1> HIDE DEF N
<1>5. /\ d \in Clients(N) /\ WritesWhenBusy(d)
      /\ d.asked = client.asked /\ d.left = client.left /\ d.wire = client.wire
      /\ d.writing = (IF client.busy THEN client.writing ELSE <<Head(client.left)>>)
      /\ d.busy
  BY <1>1, <1>4, ClientSendsOn
<1> HIDE DEF d
<1>6. l \in Seq(AskPieces(N))
  BY <1>2, <1>3, <1>5, HeadTailProperties
<1>7. l = IF client.busy THEN client.left ELSE Tail(client.left)
  BY <1>5
<1> HIDE DEF l
<1>8. /\ e \in Clients(N) /\ e.asked = d.asked /\ e.left = l /\ e.wire = d.wire
      /\ e.writing = d.writing /\ e.busy = d.busy
  BY <1>5, <1>6 DEF Clients
<1> HIDE DEF e
<1>9. WritesWhenBusy(e)
  BY <1>5, <1>8 DEF WritesWhenBusy
<1>10. CASE client.busy
  <2>1. SameOutput(client, e)
    BY <1>5, <1>7, <1>8, <1>10 DEF SameOutput
  <2> QED BY <1>2, <1>5, <1>8, <1>9, <2>1, SameOutputSameParts DEF N
<1>11. CASE ~client.busy
  <2>1. client.writing = <<>>
    BY <1>1, <1>11 DEF WritesWhenBusy
  <2> DEFINE a == Len(client.wire)
             b == Len(client.left)
             h == <<Head(client.left)>>
  <2>2. /\ e.wire = client.wire /\ e.writing = h /\ e.left = Tail(client.left)
        /\ Len(e.wire) = a /\ Len(e.writing) = 1 /\ Len(client.writing) = 0
    BY <1>5, <1>7, <1>8, <1>11, <2>1
  <2>3. /\ b \in Nat /\ b > 0 /\ a \in Nat
        /\ h[1] = client.left[1] /\ Len(e.left) = b - 1
        /\ \A j \in 1 .. b - 1 : e.left[j] = client.left[j + 1]
    <3>1. Len(Tail(client.left)) = b - 1 /\ b > 0
          /\ \A j \in 1 .. b - 1 : Tail(client.left)[j] = client.left[j + 1]
      BY <1>2, <1>3, HeadTailProperties, EmptySeq
    <3>2. h[1] = client.left[1]
      BY <1>2, <1>3
    <3> QED BY <1>1, <2>2, <3>1, <3>2
  <2>4. Outstanding(e) = a + 1 + (b - 1) /\ Outstanding(client) = a + 0 + b
    BY <2>1, <2>2, <2>3 DEF Outstanding
  <2>5. Len(client.wire) = a
    OBVIOUS
  <2> HIDE DEF a, b, h
  <2>6. Outstanding(e) = a + b /\ Outstanding(client) = a + b
    BY <2>3, <2>4
  <2>7. ASSUME NEW p \in 1 .. a + b
        PROVE  Out(e, p) = Out(client, p)
    <3>1. Out(e, p) = OutWith(e, a, 1, p)
      BY <2>2, OutIs
    <3>2. Out(client, p) = OutWith(client, a, 0, p)
      BY <2>2, <2>5, OutIs
    <3>3. CASE p <= a
      BY <2>2, <3>1, <3>2, <3>3 DEF OutWith
    <3>4. CASE p = a + 1
      <4>1. /\ ~(p <= a) /\ p <= a + 1 /\ ~(p <= a + 0)
            /\ p - a = 1 /\ p - a - 0 = 1
        BY <2>3, <3>4
      <4> QED BY <2>2, <2>3, <3>1, <3>2, <4>1 DEF OutWith
    <3>5. CASE p > a + 1
      <4>1. /\ ~(p <= a) /\ ~(p <= a + 1) /\ ~(p <= a + 0)
            /\ p - a - 1 \in 1 .. b - 1 /\ (p - a - 1) + 1 = p - a - 0
        BY <2>3, <3>5
      <4>2. Out(e, p) = e.left[p - a - 1].part /\ Out(client, p) = client.left[p - a - 0].part
        BY <3>1, <3>2, <4>1 DEF OutWith
      <4>3. e.left[p - a - 1] = client.left[(p - a - 1) + 1]
        BY <2>3, <4>1
      <4> QED BY <4>1, <4>2, <4>3
    <3> QED BY <2>3, <3>3, <3>4, <3>5
  <2> QED BY <1>2, <1>5, <1>8, <1>9, <2>6, <2>7 DEF N
<1> QED BY <1>10, <1>11

(* The parts of a request r that is the i-th: what is sent at once, and    *)
(* what is left to send.                                                   *)
AtOnce(r, i) == <<InHeader(Part("head", i))>> \o IF r.body THEN <<Body(i)>> ELSE <<>>
Later(r, i) ==
  IF Chunked(r) THEN [k \in 1 .. r.chunks |-> Chunk(i)] \o <<LastChunk(i)>> ELSE <<>>

PartIn(r, i, k) ==
  Part(IF k = 0 THEN "head" ELSE IF r.body THEN "body"
       ELSE IF k <= r.chunks THEN "chunk" ELSE "last", i)

LEMMA PartsOfRequest ==
  ASSUME NEW r \in Requests, NEW i \in Nat \ {0}
  PROVE  LET b == Len(AtOnce(r, i))
             l == Len(Later(r, i))
         IN  /\ AtOnce(r, i) \in Seq(AskPieces(i)) /\ Later(r, i) \in Seq(AskPieces(i))
             /\ b \in Nat /\ b > 0 /\ l \in Nat /\ b + l = Size(r)
             /\ \A k \in 0 .. b - 1 : AtOnce(r, i)[k + 1].part = PartIn(r, i, k)
             /\ \A k \in b .. b + l - 1 : Later(r, i)[k - b + 1].part = PartIn(r, i, k)
<1> DEFINE head == InHeader(Part("head", i))
<1>1. r.body \in BOOLEAN /\ r.chunks \in Nat /\ (r.body => r.chunks = 0)
  BY RequestsAssumption
<1>2. /\ head \in AskPieces(i) /\ Body(i) \in AskPieces(i)
      /\ Chunk(i) \in AskPieces(i) /\ LastChunk(i) \in AskPieces(i)
      /\ head.part = Part("head", i) /\ Body(i).part = Part("body", i)
      /\ Chunk(i).part = Part("chunk", i) /\ LastChunk(i).part = Part("last", i)
  <2>1. i \in Nat /\ i \in 1 .. i
    OBVIOUS
  <2> QED BY <2>1, AskPieceTypes
<1> HIDE DEF head
<1>3. CASE r.body
  <2>1. Later(r, i) = <<>> /\ Size(r) = 2
    BY <1>1, <1>3 DEF Later, Size, Chunked
  <2>2. AtOnce(r, i) = <<head>> \o <<Body(i)>>
    BY <1>3 DEF AtOnce, head
  <2>3. /\ AtOnce(r, i) \in Seq(AskPieces(i)) /\ Len(AtOnce(r, i)) = 2
        /\ AtOnce(r, i)[1] = head /\ AtOnce(r, i)[2] = Body(i)
    <3> DEFINE x == <<head>>
               y == <<Body(i)>>
               z == x \o y
    <3>1. /\ x \in Seq(AskPieces(i)) /\ y \in Seq(AskPieces(i))
          /\ Len(x) = 1 /\ Len(y) = 1 /\ x[1] = head /\ y[1] = Body(i)
      BY <1>2
    <3> HIDE DEF x, y
    <3>2. /\ z \in Seq(AskPieces(i)) /\ Len(z) = Len(x) + Len(y)
          /\ \A j \in 1 .. Len(x) + Len(y) :
               z[j] = IF j <= Len(x) THEN x[j] ELSE y[j - Len(x)]
      BY <3>1, ConcatProperties
    <3> HIDE DEF z
    <3>3. /\ 1 \in 1 .. 1 + 1 /\ 1 <= 1 /\ 2 \in 1 .. 1 + 1 /\ ~(2 <= 1)
          /\ 2 - 1 = 1 /\ 1 + 1 = 2
      OBVIOUS
    <3>4. z[1] = head /\ z[2] = Body(i) /\ Len(z) = 2
      BY <3>1, <3>2, <3>3
    <3> QED BY <2>2, <3>2, <3>4 DEF x, y, z
  <2>4. PartIn(r, i, 0) = Part("head", i) /\ PartIn(r, i, 1) = Part("body", i)
    BY <1>3 DEF PartIn
  <2>5. \A k \in 0 .. 2 - 1 : AtOnce(r, i)[k + 1].part = PartIn(r, i, k)
    <3> TAKE k \in 0 .. 2 - 1
    <3>1. k = 0 \/ k = 1
      OBVIOUS
    <3> QED BY <1>2, <2>3, <2>4, <3>1
  <2>6. Len(Later(r, i)) = 0 /\ Later(r, i) \in Seq(AskPieces(i))
    BY <2>1
  <2> QED BY <2>1, <2>3, <2>5, <2>6
<1>4. CASE ~r.body
  <2>1. AtOnce(r, i) = <<head>>
    BY <1>4 DEF AtOnce, head
  <2>2. /\ AtOnce(r, i) \in Seq(AskPieces(i)) /\ Len(AtOnce(r, i)) = 1
        /\ AtOnce(r, i)[1] = head
    BY <1>2, <2>1
  <2>3. PartIn(r, i, 0) = Part("head", i)
    BY DEF PartIn
  <2>4. \A k \in 0 .. 1 - 1 : AtOnce(r, i)[k + 1].part = PartIn(r, i, k)
    <3> TAKE k \in 0 .. 1 - 1
    <3>1. k = 0
      OBVIOUS
    <3> QED BY <1>2, <2>2, <2>3, <3>1
  <2>5. CASE ~Chunked(r)
    <3>1. Later(r, i) = <<>> /\ Size(r) = 1
      BY <1>4, <2>5 DEF Later, Size
    <3>2. Len(Later(r, i)) = 0 /\ Later(r, i) \in Seq(AskPieces(i))
      BY <3>1
    <3> QED BY <2>2, <2>4, <3>1, <3>2
  <2>6. CASE Chunked(r)
    <3> DEFINE c == r.chunks
               q == [k \in 1 .. c |-> Chunk(i)]
               s == q \o <<LastChunk(i)>>
    <3>1. Later(r, i) = s /\ Size(r) = c + 2 /\ c \in Nat
      BY <1>1, <2>6 DEF Later, Size
    <3>2. q \in Seq(AskPieces(i)) /\ Len(q) = c /\ \A k \in 1 .. c : q[k] = Chunk(i)
      <4>1. q \in [1 .. c -> AskPieces(i)]
        BY <1>2
      <4> QED BY <1>1, <4>1
    <3> HIDE DEF q, c
    <3>3. /\ s \in Seq(AskPieces(i)) /\ Len(s) = c + 1
          /\ \A k \in 1 .. c : s[k] = Chunk(i)
          /\ s[c + 1] = LastChunk(i)
      <4> DEFINE y == <<LastChunk(i)>>
      <4>1. y \in Seq(AskPieces(i)) /\ Len(y) = 1 /\ y[1] = LastChunk(i)
        BY <1>2
      <4>2. s = q \o y
        OBVIOUS
      <4> HIDE DEF y, s
      <4>3. /\ s \in Seq(AskPieces(i)) /\ Len(s) = Len(q) + Len(y)
            /\ \A j \in 1 .. Len(q) + Len(y) :
                 s[j] = IF j <= Len(q) THEN q[j] ELSE y[j - Len(q)]
        BY <3>2, <4>1, <4>2, ConcatProperties
      <4>4. /\ s \in Seq(AskPieces(i)) /\ Len(s) = c + 1
            /\ \A j \in 1 .. c + 1 : s[j] = IF j <= c THEN q[j] ELSE y[j - c]
        BY <3>2, <4>1, <4>3
      <4>5. /\ c + 1 \in 1 .. c + 1 /\ ~(c + 1 <= c) /\ (c + 1) - c = 1
            /\ \A k \in 1 .. c : k \in 1 .. c + 1 /\ k <= c
        BY <3>1
      <4> QED BY <3>2, <4>1, <4>4, <4>5
    <3> HIDE DEF s
    <3>4. \A k \in 1 .. 1 + (c + 1) - 1 : s[k - 1 + 1].part = PartIn(r, i, k)
      <4> TAKE k \in 1 .. 1 + (c + 1) - 1
      <4>1. k \in 1 .. c + 1 /\ k - 1 + 1 = k /\ k # 0
        BY <3>1
      <4>2. CASE k <= c
        <5>1. PartIn(r, i, k) = Part("chunk", i)
          BY <1>4, <4>1, <4>2 DEF PartIn, c
        <5>2. s[k] = Chunk(i)
          BY <3>1, <3>3, <4>1, <4>2
        <5> QED BY <1>2, <4>1, <5>1, <5>2
      <4>3. CASE ~(k <= c)
        <5>1. PartIn(r, i, k) = Part("last", i)
          BY <1>4, <4>1, <4>3 DEF PartIn, c
        <5>2. k = c + 1
          BY <3>1, <4>1, <4>3
        <5> QED BY <1>2, <3>3, <4>1, <5>1, <5>2
      <4> QED BY <4>2, <4>3
    <3>5. 1 + (c + 1) = c + 2 /\ c + 1 \in Nat
      BY <3>1
    <3> QED BY <2>2, <2>4, <3>1, <3>3, <3>4, <3>5
  <2> QED BY <2>5, <2>6
<1> QED BY <1>1, <1>3, <1>4

LEMMA AskWhenBusy ==
  ASSUME ExchangeTypes, NEW r \in Requests, Ask(r), client.busy
  PROVE  /\ client' \in Clients(Len(client.asked)) /\ WritesWhenBusy(client')
         /\ SameOutput(client, client')
<1> DEFINE N == Len(client.asked)
           message == AtOnce(r, N + 1)
           d == ClientSends(client, message)
           e == [d EXCEPT !.asked = @, !.left = @]
<1>1. client' = e
  BY DEF Ask, AtOnce
<1>2. N \in Nat /\ client \in Clients(N) /\ WritesWhenBusy(client)
  BY TypesGiveGiven
<1> HIDE DEF N, message
<1>3. /\ d \in Clients(N) /\ WritesWhenBusy(d)
      /\ d.asked = client.asked /\ d.left = client.left /\ d.wire = client.wire
      /\ d.writing = client.writing /\ d.busy
  BY <1>2, ClientSendsOn
<1> HIDE DEF d
<1>4. e = d
  BY <1>3 DEF Clients
<1> HIDE DEF e
<1> QED BY <1>1, <1>3, <1>4 DEF SameOutput, N

(* A request that is asked becomes the end of the stream.                  *)
LEMMA AskWhenReady ==
  ASSUME ExchangeTypes, NEW r \in Requests, Ask(r), ~client.busy
  PROVE  LET N == Len(client.asked)
         IN  /\ client' \in Clients(N + 1) /\ WritesWhenBusy(client')
             /\ client'.asked = Append(client.asked, r) /\ N + 1 <= MaxRequests
             /\ client.writing = <<>> /\ client.left = <<>>
             /\ client'.wire = client.wire
             /\ client'.writing = AtOnce(r, N + 1) /\ client'.left = Later(r, N + 1)
<1> DEFINE N == Len(client.asked)
           message == AtOnce(r, N + 1)
           later == Later(r, N + 1)
           d == ClientSends(client, message)
           asked == Append(d.asked, r)
           e == [d EXCEPT !.asked = asked, !.left = later]
<1>1. N \in Nat /\ client \in Clients(N) /\ WritesWhenBusy(client)
  BY TypesGiveGiven
<1>2. client.writing = <<>> /\ client.left = <<>> /\ N + 1 <= MaxRequests
  BY <1>1 DEF Ask, WritesWhenBusy
<1>3. client \in Clients(N + 1) /\ N + 1 \in Nat \ {0} /\ N + 1 \in Nat
  BY <1>1, TypesGrow
<1>4. message \in Seq(AskPieces(N + 1)) /\ later \in Seq(AskPieces(N + 1))
  BY <1>3, PartsOfRequest
<1> HIDE DEF N
<1>5. client' = [d EXCEPT !.asked = Append(@, r), !.left = IF Chunked(r) THEN later ELSE @]
  BY DEF Ask, AtOnce, Later, N
<1>6. ~Chunked(r) => later = <<>>
  BY DEF Later
<1> HIDE DEF message, later
<1>7. /\ d \in Clients(N + 1) /\ WritesWhenBusy(d)
      /\ d.asked = client.asked /\ d.left = client.left /\ d.wire = client.wire
      /\ d.writing = message /\ d.busy
  BY <1>1, <1>3, <1>4, ClientSendsOn
<1> HIDE DEF d
<1>8. client' = e
  BY <1>2, <1>5, <1>6, <1>7
<1>9. asked \in Seq(Requests) /\ asked = Append(client.asked, r)
  <2>1. d.asked \in Seq(Requests)
    BY <1>3, <1>7, ClientFields
  <2> QED BY <1>7, <2>1, AppendProperties
<1> HIDE DEF asked
<1>10. /\ e \in Clients(N + 1) /\ e.asked = asked /\ e.left = later
       /\ e.wire = d.wire /\ e.writing = d.writing /\ e.busy = d.busy
  BY <1>4, <1>7, <1>9 DEF Clients
<1> HIDE DEF e
<1>11. WritesWhenBusy(e)
  BY <1>7, <1>10 DEF WritesWhenBusy
<1> QED BY <1>2, <1>7, <1>8, <1>9, <1>10, <1>11 DEF N, message, later

LEMMA AskedOutput ==
  ASSUME ExchangeTypes, NEW r \in Requests, Ask(r), ~client.busy
  PROVE  LET N == Len(client.asked)
             m == Outstanding(client)
             z == Size(r)
         IN  /\ m \in Nat /\ z \in Nat /\ z > 0 /\ Outstanding(client') = m + z
             /\ \A p \in 1 .. m : Out(client', p) = Out(client, p)
             /\ \A k \in 0 .. z - 1 : Out(client', m + 1 + k) = PartIn(r, N + 1, k)
<1> DEFINE N == Len(client.asked)
           m == Outstanding(client)
           z == Size(r)
           now == AtOnce(r, N + 1)
           later == Later(r, N + 1)
           b == Len(now)
           l == Len(later)
<1>1. N \in Nat /\ Len(client.wire) \in Nat
  BY TypesGiveGiven
<1>2. /\ client.writing = <<>> /\ client.left = <<>> /\ client'.wire = client.wire
      /\ client'.writing = now /\ client'.left = later
  BY AskWhenReady
<1>3. N + 1 \in Nat \ {0}
  BY <1>1
<1> HIDE DEF N
<1>4. /\ b \in Nat /\ b > 0 /\ l \in Nat /\ b + l = z
      /\ \A k \in 0 .. b - 1 : now[k + 1].part = PartIn(r, N + 1, k)
      /\ \A k \in b .. b + l - 1 : later[k - b + 1].part = PartIn(r, N + 1, k)
  BY <1>3, PartsOfRequest
<1> HIDE DEF z, now, later
<1>5. /\ Len(client.wire) = m /\ m \in Nat
  <2>1. Len(client.writing) = 0 /\ Len(client.left) = 0
    BY <1>2
  <2> QED BY <1>1, <2>1 DEF Outstanding
<1>6. Outstanding(client') = Len(client.wire) + b + l
  BY <1>2 DEF Outstanding
<1> HIDE DEF m, b, l
<1>7. Outstanding(client') = m + z /\ z \in Nat /\ z > 0
  BY <1>4, <1>5, <1>6
<1>12. /\ m \in Nat /\ z \in Nat /\ b \in Nat /\ l \in Nat /\ b + l = z
  BY <1>4, <1>5, <1>7
<1>8. \A p : Out(client, p) = OutWith(client, m, 0, p)
  <2>1. Len(client.writing) = 0
    BY <1>2
  <2> QED BY <1>5, <2>1, OutIs
<1>9. \A p : Out(client', p) = OutWith(client', m, b, p)
  <2>1. Len(client'.wire) = m /\ Len(client'.writing) = b
    BY <1>2, <1>5 DEF b
  <2> QED BY <2>1, OutIs
<1>10. ASSUME NEW p \in 1 .. m
       PROVE  Out(client', p) = Out(client, p)
  <2>1. p <= m
    BY <1>5
  <2> QED BY <1>2, <1>8, <1>9, <2>1 DEF OutWith
<1>11. ASSUME NEW k \in 0 .. z - 1
       PROVE  Out(client', m + 1 + k) = PartIn(r, N + 1, k)
  <2> DEFINE p == m + 1 + k
  <2>1. ~(p <= m)
    BY <1>5, <1>7
  <2>2. Out(client', p) = OutWith(client', m, b, p)
    BY <1>9
  <2>3. CASE k < b
    <3>1. p <= m + b /\ p - m = k + 1 /\ k \in 0 .. b - 1
      BY <1>12, <2>3
    <3> HIDE DEF p
    <3>2. Out(client', p) = now[k + 1].part
      BY <1>2, <2>1, <2>2, <3>1 DEF OutWith
    <3> QED BY <1>4, <3>1, <3>2 DEF p
  <2>4. CASE ~(k < b)
    <3>1. ~(p <= m + b) /\ p - m - b = k - b + 1 /\ k \in b .. b + l - 1
      BY <1>12, <2>4
    <3> HIDE DEF p
    <3>2. Out(client', p) = later[k - b + 1].part
      BY <1>2, <2>1, <2>2, <3>1 DEF OutWith
    <3> QED BY <1>4, <3>1, <3>2 DEF p
  <2> QED BY <2>3, <2>4
<1> QED BY <1>5, <1>7, <1>10, <1>11 DEF m, z, N

(* Asking for r adds z parts to the m outstanding, after N requests.        *)
AskSizes(r, m, N, z) ==
  m = Outstanding(client) /\ N = Len(client.asked) /\ z = Size(r)

LEMMA LabelsGrow ==
  ASSUME ExchangeTypes, NEW CONSTANT r, r \in Requests, Ask(r), ~client.busy,
         NEW CONSTANT of, NEW CONSTANT at, Labels(of, at),
         NEW CONSTANT m, NEW CONSTANT N, NEW CONSTANT z, AskSizes(r, m, N, z)
  PROVE  Labels([p \in 1 .. m + z + 1 |->
                   IF p <= m THEN of[p] ELSE IF p <= m + z THEN N + 1 ELSE N + 2],
                [p \in 1 .. m + z + 1 |->
                   IF p <= m THEN at[p] ELSE IF p <= m + z THEN p - m - 1 ELSE 0])'
<1> DEFINE of2 == [p \in 1 .. m + z + 1 |->
                     IF p <= m THEN of[p] ELSE IF p <= m + z THEN N + 1 ELSE N + 2]
           at2 == [p \in 1 .. m + z + 1 |->
                     IF p <= m THEN at[p] ELSE IF p <= m + z THEN p - m - 1 ELSE 0]
<1>1. /\ m \in Nat /\ z \in Nat /\ z > 0 /\ Outstanding(client') = m + z
      /\ \A p \in 1 .. m : Out(client', p) = Out(client, p)
      /\ \A k \in 0 .. z - 1 : Out(client', m + 1 + k) = PartIn(r, N + 1, k)
  BY AskedOutput DEF AskSizes
<1>2. /\ N \in Nat /\ client.asked \in Seq(Requests)
      /\ client'.asked = Append(client.asked, r)
  BY TypesGiveGiven, AskWhenReady DEF Given, AskSizes
<1>3. /\ Len(client'.asked) = N + 1 /\ Asked(N + 1)' = r
      /\ \A i \in 1 .. N : Asked(i)' = Asked(i)
  BY <1>2 DEF Asked, AskSizes
<1>14. Size(r) = z
  BY DEF AskSizes
<1>13. m \in Nat /\ z \in Nat /\ z > 0 /\ N \in Nat
  BY <1>1, <1>2
<1>4. /\ of \in [1 .. m + 1 -> 1 .. N + 1] /\ at \in [1 .. m + 1 -> Nat]
      /\ of[m + 1] = N + 1 /\ at[m + 1] = 0
      /\ \A p \in 1 .. m :
           /\ of[p] <= N /\ at[p] < Size(Asked(of[p]))
           /\ Out(client, p) = PartOf(of[p], at[p])
           /\ of[p + 1] = NextOf(of[p], at[p]) /\ at[p + 1] = NextAt(of[p], at[p])
  BY DEF Labels, AskSizes
<1>5. \A i \in 1 .. N : \A k :
        /\ NextOf(i, k)' = NextOf(i, k) /\ NextAt(i, k)' = NextAt(i, k)
        /\ PartOf(i, k)' = PartOf(i, k)
  BY <1>3 DEF NextOf, NextAt, PartOf
<1>6. \A k : /\ NextOf(N + 1, k)' = (IF k + 1 < z THEN N + 1 ELSE (N + 1) + 1)
             /\ NextAt(N + 1, k)' = (IF k + 1 < z THEN k + 1 ELSE 0)
             /\ PartOf(N + 1, k)' = PartIn(r, N + 1, k)
  BY <1>3 DEF NextOf, NextAt, PartOf, PartIn, AskSizes
<1>7. /\ \A p \in 1 .. m : of2[p] = of[p] /\ at2[p] = at[p]
      /\ \A p \in m + 1 .. m + z : of2[p] = N + 1 /\ at2[p] = p - m - 1
      /\ of2[m + z + 1] = N + 2 /\ at2[m + z + 1] = 0
  <2>1. \A p \in 1 .. m : of2[p] = of[p] /\ at2[p] = at[p]
    <3> TAKE p \in 1 .. m
    <3>1. p \in 1 .. m + z + 1 /\ p <= m
      BY <1>13
    <3> QED BY <3>1
  <2>2. \A p \in m + 1 .. m + z : of2[p] = N + 1 /\ at2[p] = p - m - 1
    <3> TAKE p \in m + 1 .. m + z
    <3>1. p \in 1 .. m + z + 1 /\ ~(p <= m) /\ p <= m + z
      BY <1>13
    <3> QED BY <3>1
  <2>3. m + z + 1 \in 1 .. m + z + 1 /\ ~(m + z + 1 <= m) /\ ~(m + z + 1 <= m + z)
    BY <1>13
  <2> QED BY <2>1, <2>2, <2>3
<1>8. /\ of2 \in [1 .. (m + z) + 1 -> 1 .. (N + 1) + 1]
      /\ at2 \in [1 .. (m + z) + 1 -> Nat]
  <2>1. \A p \in 1 .. m + z + 1 : of2[p] \in 1 .. (N + 1) + 1 /\ at2[p] \in Nat
    <3> TAKE p \in 1 .. m + z + 1
    <3>1. CASE p \in 1 .. m
      <4>1. of[p] \in 1 .. N + 1 /\ at[p] \in Nat
        <5>1. p \in 1 .. m + 1
          BY <1>13, <3>1
        <5> QED BY <1>4, <5>1
      <4>2. \A x \in 1 .. N + 1 : x \in 1 .. (N + 1) + 1
        BY <1>2
      <4> QED BY <1>7, <3>1, <4>1, <4>2
    <3>2. CASE p \in m + 1 .. m + z
      <4>1. N + 1 \in 1 .. (N + 1) + 1 /\ p - m - 1 \in Nat
        <5>1. N + 1 \in 1 .. (N + 1) + 1
          BY <1>13
        <5>2. p - m - 1 \in Nat
          <6>1. m \in Nat /\ z \in Nat /\ p \in Int /\ m + 1 <= p
            BY <1>13, <3>2
          <6> QED BY <6>1
        <5> QED BY <5>1, <5>2
      <4> HIDE DEF of2, at2
      <4> QED BY <1>7, <3>2, <4>1
    <3>3. CASE p = m + z + 1
      <4>1. N + 2 \in 1 .. (N + 1) + 1
        BY <1>2
      <4> HIDE DEF of2, at2
      <4> QED BY <1>7, <3>3, <4>1
    <3> QED BY <1>13, <3>1, <3>2, <3>3
  <2> QED BY <2>1
<1>9. of2[(m + z) + 1] = (N + 1) + 1 /\ at2[(m + z) + 1] = 0
  BY <1>2, <1>7
<1> HIDE DEF of2, at2
<1>10. \A p \in 1 .. m : of2[p + 1] = of[p + 1] /\ at2[p + 1] = at[p + 1]
  <2>1. of2[m + 1] = of[m + 1] /\ at2[m + 1] = at[m + 1]
    <3>1. m + 1 \in m + 1 .. m + z
      BY <1>13
    <3>2. (m + 1) - m - 1 = 0
      BY <1>13
    <3>3. \A p \in m + 1 .. m + z : of2[p] = N + 1 /\ at2[p] = p - m - 1
      BY <1>7
    <3>4. of2[m + 1] = N + 1 /\ at2[m + 1] = (m + 1) - m - 1
      BY <3>1, <3>3
    <3>5. at2[m + 1] = 0
      BY <3>2, <3>4
    <3>6. of[m + 1] = N + 1 /\ at[m + 1] = 0
      BY <1>4
    <3> QED BY <3>4, <3>5, <3>6
  <2>2. \A q \in 1 .. m + 1 : of2[q] = of[q] /\ at2[q] = at[q]
    <3>1. \A q \in 1 .. m + 1 : q \in 1 .. m \/ q = m + 1
      BY <1>13
    <3> QED BY <1>7, <2>1, <3>1
  <2>3. \A p \in 1 .. m : p + 1 \in 1 .. m + 1
    BY <1>13
  <2> QED BY <2>2, <2>3
<1>11. ASSUME NEW p \in 1 .. m + z
       PROVE  /\ of2[p] <= N + 1 /\ at2[p] < Size(Asked(of2[p])')
              /\ Out(client', p) = PartOf(of2[p], at2[p])'
              /\ of2[p + 1] = NextOf(of2[p], at2[p])'
              /\ at2[p + 1] = NextAt(of2[p], at2[p])'
  <2>1. CASE p \in 1 .. m
    <3>1. /\ of2[p] = of[p] /\ at2[p] = at[p] /\ of2[p + 1] = of[p + 1]
          /\ at2[p + 1] = at[p + 1]
      BY <1>7, <1>10, <2>1
    <3>2. of[p] \in 1 .. N /\ of[p] <= N + 1
      <4>1. of[p] \in 1 .. N + 1 /\ of[p] <= N
        <5>1. p \in 1 .. m + 1
          BY <1>13, <2>1
        <5> QED BY <1>4, <2>1, <5>1
      <4> QED BY <1>2, <4>1
    <3> QED BY <1>1, <1>3, <1>4, <1>5, <2>1, <3>1, <3>2
  <2>2. CASE p \in m + 1 .. m + z
    <3> DEFINE k == p - m - 1
    <3>2. of2[p] = N + 1 /\ at2[p] = k
      BY <1>7, <2>2
    <3>6. k = p - m - 1
      OBVIOUS
    <3> HIDE DEF k
    <3>1. /\ k \in 0 .. z - 1 /\ m + 1 + k = p /\ k < z
          /\ k + 1 < z => p + 1 \in m + 1 .. m + z /\ (p + 1) - m - 1 = k + 1
          /\ ~(k + 1 < z) => p + 1 = m + z + 1
      BY <1>13, <2>2, <3>6
    <3>5. N + 1 <= N + 1
      BY <1>13
    <3>3. Out(client', p) = PartIn(r, N + 1, k)
      BY <1>1, <3>1
    <3>4. /\ of2[p + 1] = IF k + 1 < z THEN N + 1 ELSE (N + 1) + 1
          /\ at2[p + 1] = IF k + 1 < z THEN k + 1 ELSE 0
      <4>1. CASE k + 1 < z
        <5>1. p + 1 \in m + 1 .. m + z /\ (p + 1) - m - 1 = k + 1
          BY <3>1, <4>1
        <5> QED BY <1>7, <4>1, <5>1
      <4>2. CASE ~(k + 1 < z)
        <5>1. p + 1 = m + z + 1
          BY <3>1, <4>2
        <5>2. N + 2 = (N + 1) + 1
          BY <1>2
        <5> QED BY <1>7, <4>2, <5>1, <5>2
      <4> QED BY <4>1, <4>2
    <3> QED BY <1>3, <1>6, <1>14, <3>1, <3>2, <3>3, <3>4, <3>5
  <2> QED BY <1>13, <2>1, <2>2
<1>12. Labels(of2, at2)'
  BY <1>1, <1>3, <1>8, <1>9, <1>11 DEF Labels
<1> QED BY <1>12 DEF of2, at2

-----------------------------------------------------------------------------
(* Every step keeps the types and the order.                               *)
ExchangeInv == ExchangeTypes /\ InOrder

LEMMA TypesAfter ==
  ASSUME ExchangeTypes, UNCHANGED <<mode, routes>>,
         NEW M, Len(client'.asked) = M, M <= MaxRequests,
         client' \in Clients(M), WritesWhenBusy(client'),
         server' \in Servers(M), WritesWhenBusy(server')
  PROVE  ExchangeTypes'
BY DEF ExchangeTypes, WritesWhenBusy

LEMMA AskStep ==
  ASSUME ExchangeInv, NEW CONSTANT r, r \in Requests, Ask(r)
  PROVE  ExchangeInv'
<1> DEFINE N == Len(client.asked)
<1>1. /\ ExchangeTypes /\ InOrder /\ N \in Nat /\ N <= MaxRequests
      /\ server \in Servers(N) /\ WritesWhenBusy(server)
  BY TypesGiveGiven DEF ExchangeInv, ExchangeTypes
<1>2. mode' = mode /\ routes' = routes /\ server' = server
  BY DEF Ask
<1>3. Quiet(server, server')
  BY <1>2 DEF Quiet
<1>4. CASE client.busy
  <2>1. /\ client' \in Clients(N) /\ WritesWhenBusy(client')
        /\ SameOutput(client, client')
    BY <1>1, <1>4, AskWhenBusy
  <2>2. client'.asked = client.asked
    BY <2>1 DEF SameOutput
  <2>3. Outstanding(client') = Outstanding(client) /\ \A p : Out(client', p) = Out(client, p)
    BY <2>1, SameOutputSameParts
  <2>4. InOrder'
    BY <1>1, <1>3, <2>2, <2>3, OrderStays
  <2>5. ExchangeTypes'
    BY <1>1, <1>2, <2>1, <2>2, TypesAfter
  <2> QED BY <2>4, <2>5 DEF ExchangeInv
<1>5. CASE ~client.busy
  <2>1. /\ client' \in Clients(N + 1) /\ WritesWhenBusy(client')
        /\ client'.asked = Append(client.asked, r) /\ N + 1 <= MaxRequests
    BY <1>1, <1>5, AskWhenReady
  <2>2. client.asked \in Seq(Requests)
    BY <1>1, TypesGiveGiven DEF Given
  <2>3. Len(client'.asked) = N + 1 /\ \A i \in 1 .. N : Asked(i)' = Asked(i)
    BY <2>1, <2>2 DEF Asked
  <2>4. server' \in Servers(N + 1) /\ WritesWhenBusy(server')
    BY <1>1, <1>2, TypesGrow
  <2>5. ExchangeTypes'
    BY <1>1, <1>2, <2>1, <2>3, <2>4, TypesAfter
  <2>6. InOrder'
    <3>1. PICK of, at : /\ Labels(of, at) /\ Holds(server, of[1], at[1])
                        /\ ToldBefore(server, of[1])
      BY <1>1 DEF InOrder
    <3>2. PICK m : m = Outstanding(client)
      OBVIOUS
    <3>3. PICK M : M = N
      OBVIOUS
    <3>4. PICK z : z = Size(r)
      OBVIOUS
    <3> DEFINE of2 == [p \in 1 .. m + z + 1 |->
                         IF p <= m THEN of[p] ELSE IF p <= m + z THEN M + 1 ELSE M + 2]
               at2 == [p \in 1 .. m + z + 1 |->
                         IF p <= m THEN at[p] ELSE IF p <= m + z THEN p - m - 1 ELSE 0]
    <3>5. Labels(of2, at2)'
      BY <1>1, <1>5, <3>1, <3>2, <3>3, <3>4, LabelsGrow DEF AskSizes
    <3>6. m \in Nat /\ z \in Nat /\ z > 0
      BY <1>1, <1>5, <3>2, <3>4, AskedOutput
    <3>7. of[m + 1] = M + 1 /\ at[m + 1] = 0
      BY <3>1, <3>2, <3>3 DEF Labels
    <3>8. of2[1] = of[1] /\ at2[1] = at[1]
      <4>1. 1 \in 1 .. m + z + 1
        BY <3>6
      <4>2. CASE m = 0
        <5>1. ~(1 <= m) /\ 1 <= m + z /\ m + 1 = 1 /\ 1 - m - 1 = 0
          BY <3>6, <4>2
        <5> QED BY <3>7, <4>1, <5>1
      <4>3. CASE m # 0
        <5>1. 1 <= m
          BY <3>6, <4>3
        <5> QED BY <4>1, <5>1
      <4> QED BY <4>2, <4>3
    <3> HIDE DEF of2, at2
    <3>9. Holds(server, of2[1], at2[1])'
      BY <1>2, <3>1, <3>8 DEF Holds
    <3>10. ToldBefore(server, of2[1])'
      <4>1. \A j \in DOMAIN server.told : Asked(server.told[j].of)' = Asked(server.told[j].of)
        BY <1>1, <1>2, <2>3, ToldOf
      <4> QED BY <1>2, <3>1, <3>8, <4>1 DEF ToldBefore
    <3> QED BY <3>5, <3>9, <3>10 DEF InOrder
  <2> QED BY <2>5, <2>6 DEF ExchangeInv
<1> QED BY <1>4, <1>5

(* Steps of the client that keep what it has to send in order.             *)
LEMMA ClientKeeps ==
  ASSUME ExchangeInv, UNCHANGED <<mode, routes>>,
         client' \in Clients(Len(client.asked)), WritesWhenBusy(client'),
         client'.asked = client.asked,
         server' \in Servers(Len(client.asked)), WritesWhenBusy(server'),
         Quiet(server, server'),
         Outstanding(client') = Outstanding(client),
         \A p \in 1 .. Outstanding(client) : Out(client', p) = Out(client, p)
  PROVE  ExchangeInv'
<1>1. ExchangeTypes /\ InOrder /\ Len(client.asked) <= MaxRequests
  BY DEF ExchangeInv, ExchangeTypes
<1>2. ExchangeTypes'
  BY <1>1, TypesAfter
<1>3. InOrder'
  BY <1>1, OrderStays
<1> QED BY <1>2, <1>3 DEF ExchangeInv

LEMMA InvGives ==
  ASSUME ExchangeInv
  PROVE  /\ ExchangeTypes /\ InOrder /\ Len(client.asked) \in Nat
         /\ Given(Len(client.asked))
         /\ client \in Clients(Len(client.asked)) /\ WritesWhenBusy(client)
         /\ server \in Servers(Len(client.asked)) /\ WritesWhenBusy(server)
         /\ Quiet(server, server)
BY TypesGiveGiven DEF ExchangeInv, Quiet

LEMMA AskMoreStep ==
  ASSUME ExchangeInv, AskMore
  PROVE  ExchangeInv'
<1>1. mode' = mode /\ routes' = routes /\ server' = server
  BY DEF AskMore
<1> QED BY <1>1, InvGives, AskMoreKeepsOutput, ClientKeeps

LEMMA ClientWritesStep ==
  ASSUME ExchangeInv, ClientWrites
  PROVE  ExchangeInv'
<1>1. mode' = mode /\ routes' = routes /\ server' = server
  BY DEF ClientWrites
<1>2. PICK n \in 1 .. Len(client.writing) : client' = Transmit(client, n)
  BY DEF ClientWrites
<1> DEFINE N == Len(client.asked)
<1>3. /\ N \in Nat /\ client \in Clients(N) /\ WritesWhenBusy(client)
      /\ server \in Servers(N) /\ WritesWhenBusy(server) /\ Quiet(server, server)
  BY InvGives
<1>4. n \in 0 .. Len(client.writing)
  BY <1>2
<1>5. /\ client' \in Clients(N) /\ WritesWhenBusy(client')
      /\ client'.asked = client.asked /\ client'.left = client.left
      /\ client'.writing = SubSeq(client.writing, n + 1, Len(client.writing))
      /\ client'.wire = client.wire \o [i \in 1 .. n |-> client.writing[i].part]
  BY <1>2, <1>3, <1>4, ClientTransmit
<1>6. /\ Outstanding(client') = Outstanding(client)
      /\ \A p \in 1 .. Outstanding(client) : Out(client', p) = Out(client, p)
  BY <1>3, <1>4, <1>5, TransmitKeepsOutput
<1> QED BY <1>1, <1>3, <1>5, <1>6, ClientKeeps

LEMMA ClientSentStep ==
  ASSUME ExchangeInv, ClientSent \/ ClientLost
  PROVE  ExchangeInv'
<1>1. mode' = mode /\ routes' = routes /\ server' = server
  BY DEF ClientSent, ClientLost
<1> DEFINE N == Len(client.asked)
           b == [client EXCEPT !.busy = FALSE]
           o == [client EXCEPT !.open = FALSE]
<1>2. /\ N \in Nat /\ client \in Clients(N) /\ WritesWhenBusy(client)
      /\ server \in Servers(N) /\ WritesWhenBusy(server) /\ Quiet(server, server)
  BY InvGives
<1>3. (client' = b /\ client.writing = <<>>) \/ client' = o
  BY DEF ClientSent, ClientLost, Written
<1>4. b \in Clients(N) /\ SameOutput(client, b)
  BY <1>2 DEF Clients, SameOutput
<1>5. o \in Clients(N) /\ SameOutput(client, o) /\ o.busy = client.busy
  BY <1>2 DEF Clients, SameOutput
<1> HIDE DEF b, o
<1>6. client' \in Clients(N) /\ SameOutput(client, client') /\ WritesWhenBusy(client')
  BY <1>2, <1>3, <1>4, <1>5 DEF WritesWhenBusy, SameOutput
<1>7. Outstanding(client') = Outstanding(client) /\ \A p : Out(client', p) = Out(client, p)
  BY <1>6, SameOutputSameParts
<1>8. client'.asked = client.asked
  BY <1>6 DEF SameOutput
<1> QED BY <1>1, <1>2, <1>6, <1>7, <1>8, ClientKeeps

LEMMA RestIsTyped ==
  ASSUME NEW S, NEW q \in Seq(S), NEW n \in 1 .. Len(q)
  PROVE  SubSeq(q, n + 1, Len(q)) \in Seq(S)
<1>1. n \in 0 .. Len(q)
  OBVIOUS
<1> QED BY <1>1, Rest

LEMMA ClientReadsStep ==
  ASSUME ExchangeInv, ClientReads
  PROVE  ExchangeInv'
<1> DEFINE N == Len(client.asked)
           Fine == {c \in Clients(N) : ReadOn(N, client, c)}
<1>1. mode' = mode /\ routes' = routes
  BY DEF ClientReads
<1>2. PICK n \in 1 .. Len(server.wire) :
        /\ client' \in ClientReading(n)
        /\ server' = [server EXCEPT !.wire = SubSeq(@, n + 1, Len(@))]
  BY DEF ClientReads
<1>3. /\ N \in Nat /\ client \in Clients(N) /\ WritesWhenBusy(client)
      /\ server \in Servers(N) /\ WritesWhenBusy(server)
  BY InvGives
<1> HIDE DEF N
<1>4. server.wire \in Seq(Replies(N))
  BY <1>3, ServerFields
<1>5. n \in Nat /\ \A j \in 1 .. n : server.wire[j] \in Replies(N)
  <2>1. Len(server.wire) \in Nat
    BY <1>4
  <2>2. n \in Nat /\ \A j \in 1 .. n : j \in 1 .. Len(server.wire)
    BY <1>2, <2>1
  <2> QED BY <1>4, <2>2, ElementOfSeq
<1>6. client \in Fine
  BY <1>3 DEF ReadOn, SameOutput
<1>7. ASSUME NEW j \in 1 .. n, NEW c \in Fine
      PROVE  ClientTakes(c, server.wire[j], j < n) \in Fine
  <2> DEFINE d == ClientTakes(c, server.wire[j], j < n)
  <2>1. ReadOn(N, c, d)
    BY <1>3, <1>5, ClientTakesOne
  <2> HIDE DEF d
  <2>2. ReadOn(N, client, c)
    OBVIOUS
  <2>3. ReadOn(N, client, d) /\ d \in Clients(N)
    BY <2>1, <2>2 DEF ReadOn, SameOutput
  <2> QED BY <2>3 DEF d
<1>8. ReadOn(N, client, client')
  <2> HIDE DEF Fine
  <2> DEFINE holds == [j \in 0 .. n |-> Fine]
  <2>1. \A j \in 0 .. n : holds[j] = Fine
    OBVIOUS
  <2>2. n \in 0 .. n /\ 0 \in 0 .. n /\ \A j \in 1 .. n : j \in 0 .. n /\ j - 1 \in 0 .. n
    BY <1>5
  <2> HIDE DEF holds
  <2>3. ClientReading(n) \subseteq holds[n]
    BY <1>5, <1>6, <1>7, <2>1, <2>2, ClientReadingLeadsTo
  <2>4. client' \in Fine
    BY <1>2, <2>1, <2>2, <2>3
  <2> QED BY <2>4 DEF Fine
<1>9. /\ client' \in Clients(N) /\ SameOutput(client, client')
      /\ WritesWhenBusy(client') /\ client'.asked = client.asked
  BY <1>3, <1>8 DEF ReadOn, SameOutput, WritesWhenBusy
<1>10. Outstanding(client') = Outstanding(client) /\ \A p : Out(client', p) = Out(client, p)
  BY <1>9, SameOutputSameParts
<1>11. server' \in Servers(N) /\ WritesWhenBusy(server') /\ Quiet(server, server')
  <2> DEFINE v == SubSeq(server.wire, n + 1, Len(server.wire))
             t == [server EXCEPT !.wire = v]
  <2>1. v \in Seq(Replies(N))
    BY <1>2, <1>4, RestIsTyped
  <2>2. server' = t
    BY <1>2
  <2> HIDE DEF v
  <2>3. /\ t \in Servers(N) /\ t.busy = server.busy /\ t.writing = server.writing
        /\ t.told = server.told /\ t.stopped = server.stopped
        /\ t.undefined = server.undefined /\ t.rx = server.rx
    BY <1>3, <2>1 DEF Servers
  <2> HIDE DEF t
  <2> QED BY <1>3, <2>2, <2>3 DEF Quiet, WritesWhenBusy
<1> QED BY <1>1, <1>9, <1>10, <1>11, ClientKeeps DEF N

LEMMA ServerReadsStep ==
  ASSUME ExchangeInv, ServerReads
  PROVE  ExchangeInv'
<1> DEFINE N == Len(client.asked)
<1>1. mode' = mode /\ routes' = routes
  BY DEF ServerReads
<1>2. PICK n \in 1 .. Len(client.wire) :
        /\ server' \in ServerReading(n)
        /\ client' = [client EXCEPT !.wire = SubSeq(@, n + 1, Len(@))]
  BY DEF ServerReads
<1>3. /\ ExchangeTypes /\ InOrder /\ N \in Nat /\ client \in Clients(N)
      /\ WritesWhenBusy(client)
  BY InvGives
<1>4. PICK of, at : /\ Labels(of, at) /\ Holds(server, of[1], at[1])
                    /\ ToldBefore(server, of[1])
  BY <1>3 DEF InOrder
<1>5. Follows(N, server', of[n + 1], at[n + 1])
  BY <1>2, <1>3, <1>4, ServerFollows
<1>6. PICK m : m = Outstanding(client)
  OBVIOUS
<1> DEFINE of2 == [p \in 1 .. m - n + 1 |-> of[p + n]]
           at2 == [p \in 1 .. m - n + 1 |-> at[p + n]]
<1>7. Labels(of2, at2)'
  BY <1>2, <1>3, <1>4, <1>6, LabelsShift
<1>8. of2[1] = of[n + 1] /\ at2[1] = at[n + 1]
  <2>1. m \in Nat /\ Len(client.wire) \in Nat /\ Len(client.wire) <= m
    BY <1>3, <1>6, TypesGiveGiven
  <2>2. 1 \in 1 .. m - n + 1 /\ 1 + n = n + 1
    <3>1. n \in Nat /\ n <= Len(client.wire)
      BY <1>2, <2>1
    <3> QED BY <2>1, <3>1
  <2> QED BY <2>2
<1> HIDE DEF of2, at2, N
<1>9. client' \in Clients(N) /\ WritesWhenBusy(client') /\ client'.asked = client.asked
  <2> DEFINE v == SubSeq(client.wire, n + 1, Len(client.wire))
             t == [client EXCEPT !.wire = v]
  <2>1. client.wire \in Seq(Asks(N))
    BY <1>3, ClientFields
  <2>2. v \in Seq(Asks(N))
    BY <1>2, <2>1, RestIsTyped
  <2>3. client' = t
    BY <1>2
  <2> HIDE DEF v
  <2>4. /\ t \in Clients(N) /\ t.busy = client.busy /\ t.writing = client.writing
        /\ t.asked = client.asked
    BY <1>3, <2>2 DEF Clients
  <2> HIDE DEF t
  <2> QED BY <1>3, <2>3, <2>4 DEF WritesWhenBusy
<1>10. server' \in Servers(N) /\ WritesWhenBusy(server')
  BY <1>5 DEF Follows
<1>11. ExchangeTypes'
  <2>1. Len(client'.asked) = N /\ N <= MaxRequests
    BY <1>3, <1>9 DEF ExchangeTypes, N
  <2> QED BY <1>1, <1>3, <1>9, <1>10, <2>1, TypesAfter
<1>12. Holds(server, of2[1], at2[1])'
  BY <1>5, <1>8 DEF Follows, Holds
<1>13. ToldBefore(server, of2[1])'
  <2>1. \A i : Asked(i)' = Asked(i)
    BY <1>9 DEF Asked
  <2> QED BY <1>5, <1>8, <2>1 DEF Follows, ToldBefore
<1>14. InOrder'
  BY <1>7, <1>12, <1>13 DEF InOrder
<1> QED BY <1>11, <1>14 DEF ExchangeInv

(* Steps of the server that read nothing.                                  *)
LEMMA ServerKeeps ==
  ASSUME ExchangeInv, UNCHANGED <<mode, routes, client>>,
         server' \in Servers(Len(client.asked)), WritesWhenBusy(server'),
         Quiet(server, server')
  PROVE  ExchangeInv'
<1>1. client \in Clients(Len(client.asked)) /\ WritesWhenBusy(client)
  BY InvGives
<1> QED BY <1>1, ClientKeeps

LEMMA ServerWritesStep ==
  ASSUME ExchangeInv, ServerWrites
  PROVE  ExchangeInv'
<1> DEFINE N == Len(client.asked)
<1>1. PICK n \in 1 .. Len(server.writing) : server' = Transmit(server, n)
  BY DEF ServerWrites
<1>2. N \in Nat /\ server \in Servers(N) /\ WritesWhenBusy(server)
  BY InvGives
<1>3. n \in 0 .. Len(server.writing)
  BY <1>1
<1>4. /\ server' \in Servers(N) /\ WritesWhenBusy(server')
      /\ server'.rx = server.rx /\ Unanswered(server, server')
      /\ server'.undefined = server.undefined
  BY <1>1, <1>2, <1>3, ServerTransmit
<1>5. Quiet(server, server')
  BY <1>4 DEF Quiet, Unanswered
<1>6. UNCHANGED <<mode, routes, client>>
  BY DEF ServerWrites
<1> QED BY <1>4, <1>5, <1>6, ServerKeeps

LEMMA ServerSentStep ==
  ASSUME ExchangeInv, ServerSent
  PROVE  ExchangeInv'
<1> DEFINE N == Len(client.asked)
           s == [server EXCEPT !.busy = FALSE]
           i == server.stream
           c == SendData(s, <<Chunk(i)>>)
           l == SendData(s, <<LastChunk(i)>>)
           u == [c EXCEPT !.left = @ - 1]
           w == [l EXCEPT !.stream = Nothing]
<1>1. N \in Nat /\ server \in Servers(N) /\ i \in 0 .. N
  BY InvGives, ServerFields
<1> HIDE DEF N
<1>2. server.writing = <<>>
  BY DEF ServerSent, Written
<1>3. /\ s \in Servers(N) /\ s.writing = <<>> /\ s.stream = i
      /\ s.told = server.told /\ s.stopped = server.stopped
      /\ s.undefined = server.undefined /\ s.rx = server.rx /\ s.left \in Nat
  BY <1>1, <1>2 DEF Servers
<1>4. WritesWhenBusy(s) /\ Quiet(server, s)
  BY <1>3 DEF WritesWhenBusy, Quiet
<1> HIDE DEF s, i
<1>5. server' \in {s, u, w} /\ (server' = u => s.left > 0 \/ server' \in {s, w})
  <2>1. server' = IF i = Nothing THEN s ELSE IF s.left > 0 THEN u ELSE w
    BY <1>3 DEF ServerSent, SendChunk, SendLastChunk, s, i
  <2> HIDE DEF u, w
  <2> QED BY <2>1
<1>6. Chunk(i) \in ReplyPieces(N) /\ LastChunk(i) \in ReplyPieces(N)
  BY <1>1, ReplyPieceTypes
<1>7. <<Chunk(i)>> \in Seq(ReplyPieces(N)) /\ <<LastChunk(i)>> \in Seq(ReplyPieces(N))
  BY <1>6
<1>8. /\ c \in Servers(N) /\ c.rx = s.rx /\ Unanswered(s, c) /\ WritesWhenBusy(c)
      /\ s.undefined => c.undefined
  BY <1>1, <1>3, <1>4, <1>7, ServerSendData
<1>9. /\ l \in Servers(N) /\ l.rx = s.rx /\ Unanswered(s, l) /\ WritesWhenBusy(l)
      /\ s.undefined => l.undefined
  BY <1>1, <1>3, <1>4, <1>7, ServerSendData
<1> HIDE DEF c, l
<1>10. s.left > 0 => u \in Servers(N) /\ WritesWhenBusy(u) /\ Quiet(s, u)
  <2> SUFFICES ASSUME s.left > 0
               PROVE  u \in Servers(N) /\ WritesWhenBusy(u) /\ Quiet(s, u)
    OBVIOUS
  <2> DEFINE x == c.left - 1
             y == [c EXCEPT !.left = x]
  <2>1. x \in Nat
    <3>1. c.left = s.left
      BY <1>8 DEF Unanswered
    <3> QED BY <1>3, <3>1
  <2>2. u = y
    OBVIOUS
  <2> HIDE DEF x, u
  <2>3. /\ y \in Servers(N) /\ y.busy = c.busy /\ y.writing = c.writing
        /\ y.told = c.told /\ y.stopped = c.stopped /\ y.undefined = c.undefined
        /\ y.rx = c.rx
    BY <1>8, <2>1 DEF Servers
  <2> HIDE DEF y
  <2> QED BY <1>8, <2>2, <2>3 DEF Quiet, WritesWhenBusy, Unanswered
<1>11. w \in Servers(N) /\ WritesWhenBusy(w) /\ Quiet(s, w)
  <2>1. /\ w \in Servers(N) /\ w.busy = l.busy /\ w.writing = l.writing
        /\ w.told = l.told /\ w.stopped = l.stopped /\ w.undefined = l.undefined
        /\ w.rx = l.rx
    <3>1. 0 \in 0 .. N
      BY <1>1
    <3> QED BY <1>9, <3>1 DEF Servers, Nothing
  <2> HIDE DEF w
  <2> QED BY <1>9, <2>1 DEF Quiet, WritesWhenBusy, Unanswered
<1> HIDE DEF u, w
<1>12. server' \in Servers(N) /\ WritesWhenBusy(server') /\ Quiet(s, server')
  <2>1. Quiet(s, s)
    BY DEF Quiet
  <2> QED BY <1>3, <1>4, <1>5, <1>10, <1>11, <2>1
<1>13. Quiet(server, server')
  BY <1>4, <1>12 DEF Quiet
<1>14. UNCHANGED <<mode, routes, client>>
  BY DEF ServerSent
<1> QED BY <1>12, <1>13, <1>14, ServerKeeps DEF N

LEMMA AnswerLateStep ==
  ASSUME ExchangeInv, AnswerLate
  PROVE  ExchangeInv'
<1> DEFINE N == Len(client.asked)
           i == Head(server.owed)
           answer == LateAnswer(i)
<1>1. PICK taken \in 0 .. 2 :
        server' = [SendResponse(server, i, answer, taken) EXCEPT !.owed = Tail(@)]
  BY DEF AnswerLate
<1>2. /\ N \in Nat /\ server \in Servers(N) /\ WritesWhenBusy(server) /\ Given(N)
      /\ taken \in Nat
  BY InvGives
<1> HIDE DEF N
<1>3. server.owed \in Seq(1 .. N) /\ server.owed # <<>>
  BY <1>2, ServerFields DEF AnswerLate
<1>4. i \in 1 .. N /\ Tail(server.owed) \in Seq(1 .. N)
  BY <1>3, HeadTailProperties
<1> HIDE DEF i
<1>5. answer \in Answers
  <2>1. Asked(i) \in Requests
    BY <1>2, <1>4, GivenRequests
  <2> QED BY <1>2, <2>1, LateAnswerIsAnAnswer DEF Given
<1>6. i \in 0 .. N
  BY <1>2, <1>4
<1> DEFINE t == SendResponse(server, i, answer, taken)
<1> HIDE DEF answer
<1>7. Sends(N, server, t)
  BY <1>2, <1>5, <1>6, ResponseIsSent
<1>8. server' = [t EXCEPT !.owed = Tail(@)]
  BY <1>1
<1> HIDE DEF t
<1> DEFINE o == Tail(t.owed)
           u == [t EXCEPT !.owed = o]
<1>9. t \in Servers(N) /\ o \in Seq(1 .. N)
  BY <1>4, <1>7 DEF Sends, Unanswered
<1>10. server' = u
  BY <1>8
<1> HIDE DEF o
<1>11. /\ u \in Servers(N) /\ u.busy = t.busy /\ u.writing = t.writing
       /\ u.told = t.told /\ u.stopped = t.stopped /\ u.undefined = t.undefined
       /\ u.rx = t.rx
  BY <1>9 DEF Servers
<1> HIDE DEF u
<1>12. WritesWhenBusy(server') /\ Quiet(server, server') /\ server' \in Servers(N)
  BY <1>7, <1>10, <1>11 DEF Sends, Unanswered, Quiet, WritesWhenBusy
<1>13. UNCHANGED <<mode, routes, client>>
  BY DEF AnswerLate
<1> QED BY <1>12, <1>13, ServerKeeps DEF N

LEMMA ExchangeInit ==
  ASSUME Init
  PROVE  ExchangeInv
<1>1. mode \in Modes /\ routes \in Registrations /\ client = NewClient /\ server = NewServer
  BY DEF Init
<1>2. /\ client.asked = <<>> /\ client.wire = <<>> /\ client.writing = <<>>
      /\ client.left = <<>> /\ server.writing = <<>>
      /\ server.told = <<>> /\ server.rx = NoRx
  BY <1>1 DEF NewClient, NewServer
<1>3. Len(client.asked) = 0
  BY <1>2
<1>4. client \in Clients(0)
  <2>1. NoRx \in Awaited(0)
    BY NoRxAwaited
  <2>2. \A S : <<>> \in Seq(S)
    OBVIOUS
  <2> QED BY <1>1, <2>1, <2>2 DEF NewClient, Clients
<1>5. server \in Servers(0)
  <2>1. NoRx \in Received(0)
    BY NoRxReceived
  <2>2. \A S : <<>> \in Seq(S)
    OBVIOUS
  <2>3. Nothing \in 0 .. 0
    BY DEF Nothing
  <2> QED BY <1>1, <2>1, <2>2, <2>3 DEF NewServer, Servers
<1>6. ExchangeTypes
  <2>1. 0 <= MaxRequests
    BY BoundsAssumption
  <2> QED BY <1>1, <1>2, <1>3, <1>4, <1>5, <2>1 DEF ExchangeTypes
<1>7. InOrder
  <2> DEFINE of == [p \in 1 .. 0 + 1 |-> 1]
             at == [p \in 1 .. 0 + 1 |-> 0]
  <2>1. Outstanding(client) = 0
    BY <1>2 DEF Outstanding
  <2>2. Labels(of, at)
    <3>1. /\ of \in [1 .. 0 + 1 -> 1 .. 0 + 1] /\ at \in [1 .. 0 + 1 -> Nat]
          /\ of[0 + 1] = 0 + 1 /\ at[0 + 1] = 0
      OBVIOUS
    <3>2. 1 .. 0 = {}
      OBVIOUS
    <3> HIDE DEF of, at
    <3> QED BY <1>3, <2>1, <3>1, <3>2 DEF Labels
  <2>3. Holds(server, of[1], at[1])
    BY <1>2, NoRxReceived DEF Holds
  <2>4. ToldBefore(server, of[1])
    <3>1. DOMAIN server.told = {}
      BY <1>2
    <3> QED BY <3>1 DEF ToldBefore
  <2> HIDE DEF of, at
  <2> QED BY <2>2, <2>3, <2>4 DEF InOrder
<1> QED BY <1>6, <1>7 DEF ExchangeInv

LEMMA ExchangeStep ==
  ASSUME ExchangeInv, [Next]_vars
  PROVE  ExchangeInv'
<1>1. ASSUME NEW r \in Requests, Ask(r)
      PROVE  ExchangeInv'
  BY <1>1, AskStep
<1>2. CASE AskMore
  BY <1>2, AskMoreStep
<1>3. CASE ClientWrites
  BY <1>3, ClientWritesStep
<1>4. CASE ClientSent \/ ClientLost
  BY <1>4, ClientSentStep
<1>5. CASE ClientReads
  BY <1>5, ClientReadsStep
<1>6. CASE ServerReads
  BY <1>6, ServerReadsStep
<1>7. CASE ServerWrites
  BY <1>7, ServerWritesStep
<1>8. CASE ServerSent
  BY <1>8, ServerSentStep
<1>9. CASE AnswerLate
  BY <1>9, AnswerLateStep
<1>10. CASE UNCHANGED vars
  <2>1. UNCHANGED <<mode, routes, client>> /\ server' = server
    BY <1>10 DEF vars
  <2> QED BY <2>1, InvGives, ServerKeeps
<1> QED BY <1>1, <1>2, <1>3, <1>4, <1>5, <1>6, <1>7, <1>8, <1>9, <1>10 DEF Next

LEMMA ExchangeInvariance == Spec => []ExchangeInv
<1>1. Init => ExchangeInv
  BY ExchangeInit
<1>2. ExchangeInv /\ [Next]_vars => ExchangeInv'
  BY ExchangeStep
<1> QED BY <1>1, <1>2, PTL DEF Spec

(* The exchange is type correct: each end writes only parts of messages    *)
(* that were asked or answered, and only while it is transmitting.         *)
THEOREM ExchangeTypeCorrect == Spec => []ExchangeTypeOK
<1>1. ExchangeInv => ExchangeTypeOK
  <2> SUFFICES ASSUME ExchangeInv PROVE ExchangeTypeOK
    OBVIOUS
  <2> DEFINE N == Len(client.asked)
  <2>1. /\ mode \in Modes /\ N <= MaxRequests /\ N \in Nat
        /\ client \in Clients(N) /\ WritesWhenBusy(client)
        /\ server \in Servers(N) /\ WritesWhenBusy(server)
    BY InvGives DEF ExchangeInv, ExchangeTypes
  <2>2. client.asked \in Seq(Requests)
    BY InvGives DEF Given
  <2> HIDE DEF N
  <2>3. /\ client.wire \in Seq(Asks(N)) /\ client.busy \in BOOLEAN
        /\ client.open \in BOOLEAN /\ client.stopped \in BOOLEAN
        /\ client.undefined \in BOOLEAN
    BY <2>1, ClientFields
  <2>4. /\ server.wire \in Seq(Replies(N)) /\ server.busy \in BOOLEAN
        /\ server.open \in BOOLEAN /\ server.stopped \in BOOLEAN
        /\ server.undefined \in BOOLEAN /\ server.rx.head \in 0 .. N
    BY <2>1, ServerFields
  <2>5. \A i \in DOMAIN client.wire : client.wire[i].of \in 0 .. N
    <3>1. \A x \in Asks(N) : x.of \in 0 .. N
      BY <2>1 DEF Asks
    <3> QED BY <2>3, <3>1, ElementOfSeq
  <2>6. \A i \in DOMAIN server.wire : server.wire[i].of \in 0 .. N
    <3>1. \A x \in Replies(N) : x.of \in 0 .. N
      BY DEF Replies, Heads
    <3> QED BY <2>4, <3>1, ElementOfSeq
  <2>7. \A i \in DOMAIN server.told : server.told[i].of \in 1 .. N
    BY <2>1, ToldOf
  <2>8. ASSUME NEW e \in {client, server}
        PROVE  /\ {e.busy, e.open, e.stopped, e.undefined} \subseteq BOOLEAN
               /\ e.writing # <<>> => e.busy
               /\ \A i \in DOMAIN e.wire : e.wire[i].of \in 0 .. N
    <3>1. CASE e = client
      BY <2>1, <2>3, <2>5, <3>1 DEF WritesWhenBusy
    <3>2. CASE e = server
      BY <2>1, <2>4, <2>6, <3>2 DEF WritesWhenBusy
    <3> QED BY <3>1, <3>2
  <2> QED BY <2>1, <2>2, <2>4, <2>7, <2>8 DEF ExchangeTypeOK, N
<1> QED BY <1>1, ExchangeInvariance, PTL

(* The request handler is told every request at most once, in the order in *)
(* which they were asked and with the whole of its body, however the       *)
(* requests are pipelined, cut into reads and answered.                    *)
THEOREM RequestsAreToldOnceWhole == Spec => []RequestsToldOnceWhole
<1>1. ExchangeInv => RequestsToldOnceWhole
  BY DEF ExchangeInv, InOrder, ToldBefore, Whole, RequestsToldOnceWhole
<1> QED BY <1>1, ExchangeInvariance, PTL

-----------------------------------------------------------------------------
(***************************************************************************)
(* A client that waits for its answers, as a program that uses the         *)
(* library does.  Then the server never fills a buffer that it is still    *)
(* writing from, and shutdown() cuts no answer to                          *)
(* a request that keeps the connection.                                    *)
(*                                                                         *)
(* Such a client has one request under way.  While the server has parts of *)
(* it to read (Asking) nothing but a 100 Continue is in the way back, and  *)
(* then nothing is in the other; once it has read them all (Answering) it  *)
(* owes an answer, sends one or has sent it, and when the client has been  *)
(* answered, nothing of it is left.                                        *)
(***************************************************************************)

(* What the server has sent that the client has not read, part by part,    *)
(* and how many parts there are with those of the stream still to come.    *)
Unread(s) == Len(s.wire) + Len(s.writing)
Coming(s) == Unread(s) + (IF s.stream = Nothing THEN 0 ELSE s.left + 1)

Reply(s, p) ==
  IF p <= Len(s.wire) THEN s.wire[p] ELSE s.writing[p - Len(s.wire)].part

(* Where an answer of n parts ends, when part p of them is x.              *)
EndsAt(x, p, n) ==
  /\ x.is = "head" /\ x.follow = "nothing" => p = n
  /\ x.is = "head" /\ x.follow = "body" => n <= p + 1
  /\ x.is = "last" => p = n

Formed(s) == \A p \in 1 .. Unread(s) : EndsAt(Reply(s, p), p, Coming(s))

(* The answer was cut when request i was not to keep the connection.       *)
Cut(N, s) ==
  /\ ~s.undefined
  /\ \A j \in DOMAIN s.writing :
       s.writing[j].part.of \in 1 .. N /\ ~Asked(s.writing[j].part.of).keep

-----------------------------------------------------------------------------
(* A server that has nothing more to write.                                *)
Idle(N, s) ==
  /\ s \in Servers(N) /\ WritesWhenBusy(s)
  /\ s.open /\ ~s.undefined /\ s.wire = <<>> /\ s.writing = <<>>

(* It sends message m about request i, and stays open or closes after it.  *)
Replied(N, s, m, t) ==
  /\ t \in Servers(N) /\ WritesWhenBusy(t) /\ Unanswered(s, t)
  /\ ~t.undefined
  /\ t.open => t.wire = <<>> /\ t.writing \in {m, <<>>}
  /\ ~t.open => Cut(N, t)

LEMMA IdleSendsData ==
  ASSUME NEW N \in Nat, NEW s, Idle(N, s), NEW m \in Seq(ReplyPieces(N))
  PROVE  LET t == SendData(s, m)
         IN  /\ Replied(N, s, m, t) /\ t.open /\ t.rx = s.rx
             /\ \A j \in DOMAIN t.writing : j \in DOMAIN m /\ t.writing[j] = m[j]
<1> DEFINE t == SendData(s, m)
<1>1. /\ t \in Servers(N) /\ t.rx = s.rx /\ Unanswered(s, t)
      /\ t.open = s.open /\ t.wire = s.wire /\ WritesWhenBusy(t)
      /\ s.busy => t.writing = s.writing
      /\ ~s.busy => t.writing = m /\ t.undefined = s.undefined
  BY ServerSendData DEF Idle
<1>2. s.busy => ~t.undefined
  <2> SUFFICES ASSUME s.busy PROVE ~t.undefined
    OBVIOUS
  <2>1. t = [s EXCEPT !.undefined = @ \/ Uses(s.writing) \cap Uses(m) # {}]
    BY DEF SendData
  <2>2. Uses(s.writing) = {}
    BY DEF Idle, Uses
  <2>3. s.undefined = FALSE
    BY ServerFields DEF Idle
  <2>4. t = [s EXCEPT !.undefined = FALSE]
    BY <2>1, <2>2, <2>3
  <2> QED BY <2>4 DEF Idle, Servers
<1> HIDE DEF t
<1>3. t.writing \in {m, <<>>} /\ \A j \in DOMAIN t.writing : j \in DOMAIN m /\ t.writing[j] = m[j]
  BY <1>1 DEF Idle
<1> QED BY <1>1, <1>2, <1>3 DEF Replied, Idle, t

LEMMA IdleSends ==
  ASSUME NEW N \in Nat, NEW s, Idle(N, s), NEW i \in 1 .. N, s.rx.head \in {Nothing, i},
         NEW m \in Seq(ReplyPieces(N)), \A j \in DOMAIN m : m[j].part.of = i,
         NEW continue \in BOOLEAN, NEW n \in Nat
  PROVE  LET t == Send(s, m, continue, n)
         IN  Replied(N, s, m, t) /\ t.rx = IF continue THEN s.rx ELSE NoRx
<1> DEFINE c == IF continue THEN s ELSE ClearRx(s)
           u == SendData(c, m)
           d == ShutdownNow(u, n)
           t == Send(s, m, continue, n)
<1>1. /\ Idle(N, c) /\ Unanswered(s, c)
  BY ServerClears DEF Idle, Unanswered
<1>2. t = IF KeepAlive(s) THEN u ELSE d
  BY DEF Send
<1>3. t.rx = IF continue THEN s.rx ELSE NoRx
  BY ServerSend DEF Idle
<1> HIDE DEF c
<1>4. /\ Replied(N, c, m, u) /\ u.open
      /\ \A j \in DOMAIN u.writing : j \in DOMAIN m /\ u.writing[j] = m[j]
  BY <1>1, IdleSendsData
<1> HIDE DEF u
<1>5. CASE KeepAlive(s)
  BY <1>1, <1>2, <1>3, <1>4, <1>5 DEF Replied, Unanswered
<1>6. CASE ~KeepAlive(s)
  <2>1. ~Asked(i).keep
    BY <1>6 DEF KeepAlive
  <2>2. /\ d \in Servers(N) /\ Unanswered(u, d) /\ WritesWhenBusy(d)
        /\ d.undefined = u.undefined /\ ~d.open
        /\ \A k \in DOMAIN d.writing : \E j \in DOMAIN u.writing : d.writing[k] = u.writing[j]
    BY <1>4, ServerShutsDown DEF Replied
  <2> HIDE DEF d
  <2>3. Cut(N, d)
    <3>1. ~d.undefined
      BY <1>4, <2>2 DEF Replied
    <3>2. \A k \in DOMAIN d.writing : d.writing[k].part.of = i
      BY <1>4, <2>2
    <3> QED BY <2>1, <3>1, <3>2 DEF Cut
  <2> QED BY <1>1, <1>2, <1>3, <1>4, <1>6, <2>2, <2>3 DEF Replied, Unanswered
<1> QED BY <1>5, <1>6

(* An answer that is sent at once: a head and perhaps a body.              *)
Short(m) ==
  /\ Len(m) <= 2
  /\ \A j \in DOMAIN m :
       /\ m[j].part.is # "last"
       /\ m[j].part.is = "head" => j = 1
       /\ m[j].part.is = "head" /\ m[j].part.follow = "nothing" => Len(m) = 1

LEMMA TwoParts ==
  ASSUME NEW P, NEW a \in P, NEW b \in P
  PROVE  LET m == <<a>> \o <<b>>
         IN  m \in Seq(P) /\ Len(m) = 2 /\ DOMAIN m = {1, 2} /\ m[1] = a /\ m[2] = b
<1> DEFINE m == <<a>> \o <<b>>
<1>1. <<a>> \in Seq(P) /\ <<b>> \in Seq(P) /\ Len(<<a>>) = 1 /\ Len(<<b>>) = 1
  OBVIOUS
<1>2. m \in Seq(P) /\ Len(m) = 2
  BY <1>1, ConcatProperties
<1>3. m[1] = a
  BY <1>1
<1>4. m[2] = b
  BY <1>1
<1>5. DOMAIN m = {1, 2}
  <2>1. DOMAIN m = 1 .. 2
    BY <1>2
  <2> QED BY <2>1
<1> QED BY <1>2, <1>3, <1>4, <1>5

LEMMA HeadOfFields ==
  ASSUME NEW s, NEW i, NEW answer, NEW follow
  PROVE  LET head == HeadOf(s, i, answer, follow)
         IN  /\ head.part.of = i /\ head.part.is = "head"
             /\ head.part.follow = follow /\ head.part.answer = answer
BY DEF HeadOf, InHeader, Buffered

LEMMA IdleResponds ==
  ASSUME NEW N \in Nat, NEW s, Idle(N, s), NEW i \in 1 .. N, s.rx.head \in {Nothing, i},
         NEW answer \in Answers, NEW n \in Nat
  PROVE  LET t == SendResponse(s, i, answer, n)
         IN  t.rx = NoRx /\ \E m \in Seq(ReplyPieces(N)) : Short(m) /\ Replied(N, s, m, t)
<1> DEFINE full == answer.status = "OK"
           head == HeadOf(s, i, answer, IF full THEN "body" ELSE "nothing")
           rest == IF full /\ ~IsHead(s) THEN <<Body(i)>> ELSE <<>>
           m == <<head>> \o rest
           t == Send(s, m, FALSE, n)
<1>1. /\ head \in ReplyPieces(N) /\ head.part.of = i /\ head.part.is = "head"
      /\ head.part.follow = (IF full THEN "body" ELSE "nothing")
  <2>1. i \in 0 .. N /\ (IF full THEN "body" ELSE "nothing") \in {"nothing", "body", "chunks"}
    OBVIOUS
  <2> HIDE DEF full
  <2> QED BY <2>1, HeadOfType, HeadOfFields
<1>2. Body(i) \in ReplyPieces(N) /\ Body(i).part.of = i /\ Body(i).part.is = "body"
  BY ReplyPieceTypes DEF Body, Buffered, Part
<1>3. SendResponse(s, i, answer, n) = t
  BY DEF SendResponse
<1>4. /\ m \in Seq(ReplyPieces(N))
      /\ \/ Len(m) = 1 /\ DOMAIN m = {1} /\ m[1] = head
         \/ full /\ Len(m) = 2 /\ DOMAIN m = {1, 2} /\ m[1] = head /\ m[2] = Body(i)
  <2>1. m = <<head>> \o rest /\ (rest = <<>> \/ (full /\ rest = <<Body(i)>>))
    OBVIOUS
  <2> HIDE DEF head, rest, full, m
  <2>2. <<head>> \o <<>> = <<head>> /\ <<head>> \in Seq(ReplyPieces(N))
    BY <1>1
  <2>3. CASE rest = <<>>
    <3>1. m = <<head>>
      BY <2>1, <2>2, <2>3
    <3>2. Len(m) = 1 /\ DOMAIN m = {1} /\ m[1] = head
      BY <3>1
    <3> QED BY <2>2, <3>1, <3>2
  <2>4. CASE full /\ rest = <<Body(i)>>
    <3>1. m = <<head>> \o <<Body(i)>>
      BY <2>1, <2>4
    <3> QED BY <1>1, <1>2, <2>4, <3>1, TwoParts
  <2> QED BY <2>1, <2>3, <2>4
<1> HIDE DEF head, rest, full, m
<1>5. /\ m \in Seq(ReplyPieces(N)) /\ Short(m)
      /\ \A j \in DOMAIN m : m[j].part.of = i
  <2>1. CASE Len(m) = 1 /\ DOMAIN m = {1} /\ m[1] = head
    BY <1>1, <1>4, <2>1 DEF Short
  <2>2. CASE full /\ Len(m) = 2 /\ DOMAIN m = {1, 2} /\ m[1] = head /\ m[2] = Body(i)
    BY <1>1, <1>2, <1>4, <2>2 DEF Short
  <2> QED BY <1>4, <2>1, <2>2
<1>6. Replied(N, s, m, t) /\ t.rx = NoRx
  <2>1. PICK continue \in BOOLEAN : continue = FALSE
    OBVIOUS
  <2> DEFINE u == Send(s, m, continue, n)
  <2>2. Replied(N, s, m, u) /\ u.rx = IF continue THEN s.rx ELSE NoRx
    BY <1>5, <2>1, IdleSends
  <2>3. u = t
    BY <2>1
  <2> HIDE DEF u, t
  <2> QED BY <2>1, <2>2, <2>3
<1> QED BY <1>3, <1>5, <1>6

LEMMA IdleSendsHead ==
  ASSUME NEW N \in Nat, NEW s, Idle(N, s), NEW i \in 1 .. N, s.rx.head \in {Nothing, i},
         NEW n \in Nat
  PROVE  LET t == SendHead(s, i, n)
         IN  /\ t.rx = NoRx
             /\ \E head \in ReplyPieces(N) :
                  /\ Replied(N, s, <<head>>, t)
                  /\ head.part.is = "head" /\ head.part.follow = "chunks"
<1> DEFINE head == HeadOf(s, i, Answer("OK", "stream", NoParameters), "chunks")
           m == <<head>>
           t == Send(s, m, FALSE, n)
<1>1. /\ head \in ReplyPieces(N) /\ head.part.of = i /\ head.part.is = "head"
      /\ head.part.follow = "chunks"
  <2>1. i \in 0 .. N /\ Answer("OK", "stream", NoParameters) \in Answers
    BY DEF Answers
  <2> QED BY <2>1, HeadOfType, HeadOfFields
<1>2. SendHead(s, i, n) = t
  BY DEF SendHead
<1> HIDE DEF head
<1>3. m \in Seq(ReplyPieces(N)) /\ \A j \in DOMAIN m : m[j].part.of = i
  BY <1>1
<1> HIDE DEF m
<1>4. Replied(N, s, m, t) /\ t.rx = NoRx
  <2>1. PICK continue \in BOOLEAN : continue = FALSE
    OBVIOUS
  <2> DEFINE u == Send(s, m, continue, n)
  <2>2. Replied(N, s, m, u) /\ u.rx = IF continue THEN s.rx ELSE NoRx
    BY <1>3, <2>1, IdleSends
  <2>3. u = t
    BY <2>1
  <2> HIDE DEF u, t
  <2> QED BY <2>1, <2>2, <2>3
<1> QED BY <1>1, <1>2, <1>4 DEF m

(* t is s with a head sent that says status.                               *)
SaysCode(N, s, status, t) ==
  /\ t.rx = IF status = "CONTINUE" THEN s.rx ELSE NoRx
  /\ \E head \in ReplyPieces(N) :
       /\ Replied(N, s, <<head>>, t)
       /\ head.part.is = "head" /\ head.part.follow = "nothing"
       /\ head.part.answer = Refusal(status)

LEMMA IdleSendsCode ==
  ASSUME NEW N \in Nat, NEW s, Idle(N, s), NEW i \in 1 .. N, s.rx.head \in {Nothing, i},
         NEW status \in {"CONTINUE", "METHOD_NOT_ALLOWED"}, NEW n \in Nat
  PROVE  SaysCode(N, s, status, SendCode(s, i, status, n))
<1> DEFINE head == HeadOf(s, i, Refusal(status), "nothing")
           continue == status = "CONTINUE"
           m == <<head>>
           t == Send(s, m, continue, n)
<1>1. /\ head \in ReplyPieces(N) /\ head.part.of = i /\ head.part.is = "head"
      /\ head.part.follow = "nothing" /\ head.part.answer = Refusal(status)
  <2>1. i \in 0 .. N /\ Refusal(status) \in Answers
    BY DEF Answers
  <2> QED BY <2>1, HeadOfType, HeadOfFields
<1>2. SendCode(s, i, status, n) = t /\ continue \in BOOLEAN
  BY DEF SendCode
<1> HIDE DEF head
<1>3. m \in Seq(ReplyPieces(N)) /\ \A j \in DOMAIN m : m[j].part.of = i
  BY <1>1
<1>4. continue <=> status = "CONTINUE"
  OBVIOUS
<1> HIDE DEF continue, m
<1>5. Replied(N, s, m, t) /\ t.rx = IF continue THEN s.rx ELSE NoRx
  BY <1>2, <1>3, IdleSends
<1> QED BY <1>1, <1>2, <1>4, <1>5 DEF m, SaysCode

-----------------------------------------------------------------------------
(* A server that has read all of request N.                                *)
Begins(s) == \A p \in 1 .. Unread(s) : Reply(s, p).is = "head" => p = 1

Owing(N, s) ==
  /\ s.owed \in {<<>>, <<N>>}
  /\ s.owed # <<>> => Coming(s) = 0
  /\ s.rx.head # Nothing => s.owed # <<>> /\ s.rx.head = N

Finished(N, s) ==
  /\ s \in Servers(N) /\ WritesWhenBusy(s) /\ ~s.stopped /\ ~s.undefined
  /\ ~s.open => Cut(N, s)
  /\ s.open => Formed(s) /\ Begins(s) /\ Owing(N, s)

(* A server whose handler has thrown.                                      *)
Abandoned(s) ==
  /\ s.stopped /\ s.open /\ ~s.undefined
  /\ s.owed = <<>> /\ s.stream = Nothing

Ended(N, s) == Finished(N, s) \/ (s \in Servers(N) /\ Abandoned(s))

LEMMA OnlyWriting ==
  ASSUME NEW N \in Nat, NEW s \in Servers(N), s.wire = <<>>
  PROVE  /\ Unread(s) = Len(s.writing) /\ DOMAIN s.writing = 1 .. Unread(s)
         /\ Unread(s) \in Nat
         /\ \A p \in 1 .. Unread(s) : Reply(s, p) = s.writing[p].part
<1>1. s.writing \in Seq(ReplyPieces(N)) /\ Len(s.wire) = 0
  BY ServerFields
<1>2. Len(s.writing) \in Nat /\ DOMAIN s.writing = 1 .. Len(s.writing)
  BY <1>1
<1>3. Unread(s) = Len(s.writing)
  BY <1>1, <1>2 DEF Unread
<1>4. ASSUME NEW p \in 1 .. Len(s.writing) PROVE Reply(s, p) = s.writing[p].part
  <2>1. ~(p <= Len(s.wire)) /\ p - Len(s.wire) = p
    BY <1>1, <1>2
  <2> QED BY <2>1 DEF Reply
<1> QED BY <1>2, <1>3, <1>4

LEMMA ShortReplyFinishes ==
  ASSUME NEW N \in Nat, NEW s, NEW t, NEW m \in Seq(ReplyPieces(N)), Short(m),
         Replied(N, s, m, t), t.rx = NoRx, ~t.stopped, t.owed = <<>>, t.stream = Nothing
  PROVE  Finished(N, t)
<1>1. t.rx.head = Nothing
  BY NoRxReceived
<1>2. ASSUME t.open PROVE Formed(t) /\ Begins(t)
  <2>1. /\ Unread(t) = Len(t.writing) /\ DOMAIN t.writing = 1 .. Unread(t)
        /\ Unread(t) \in Nat
        /\ \A p \in 1 .. Unread(t) : Reply(t, p) = t.writing[p].part
    BY <1>2, OnlyWriting DEF Replied
  <2>2. Coming(t) = Unread(t)
    BY <2>1 DEF Coming
  <2>3. CASE t.writing = <<>>
    BY <2>1, <2>3 DEF Formed, Begins
  <2>4. CASE t.writing = m
    <3>1. ASSUME NEW p \in 1 .. Unread(t)
          PROVE  EndsAt(Reply(t, p), p, Coming(t)) /\ (Reply(t, p).is = "head" => p = 1)
      <4>1. p \in DOMAIN m /\ Reply(t, p) = m[p].part /\ Coming(t) = Len(m) /\ Len(m) \in Nat
        BY <2>1, <2>2, <2>4
      <4>2. /\ Len(m) <= 2 /\ m[p].part.is # "last"
            /\ m[p].part.is = "head" => p = 1
            /\ m[p].part.is = "head" /\ m[p].part.follow = "nothing" => Len(m) = 1
        BY <4>1 DEF Short
      <4> QED BY <4>1, <4>2 DEF EndsAt
    <3> QED BY <3>1 DEF Formed, Begins
  <2> QED BY <1>2, <2>3, <2>4 DEF Replied
<1> QED BY <1>1, <1>2 DEF Finished, Replied, Owing

LEMMA ClearedFinishes ==
  ASSUME NEW N \in Nat, NEW s, Finished(N, s)
  PROVE  Finished(N, ClearRx(s))
<1> DEFINE t == ClearRx(s)
<1>1. /\ t \in Servers(N) /\ t.rx = NoRx /\ Unanswered(s, t)
      /\ t.open = s.open /\ t.undefined = s.undefined
      /\ t.writing = s.writing /\ t.wire = s.wire /\ WritesWhenBusy(t)
  BY ServerClears DEF Finished
<1> HIDE DEF t
<1>2. Unread(t) = Unread(s) /\ Coming(t) = Coming(s) /\ \A p : Reply(t, p) = Reply(s, p)
  BY <1>1 DEF Unread, Coming, Reply, Unanswered
<1>3. (Formed(s) => Formed(t)) /\ (Begins(s) => Begins(t)) /\ (Cut(N, s) => Cut(N, t))
  BY <1>1, <1>2 DEF Formed, Begins, Cut
<1>4. t.rx.head = Nothing
  BY <1>1, NoRxReceived
<1>5. Owing(N, s) => Owing(N, t)
  BY <1>1, <1>2, <1>4 DEF Owing, Unanswered
<1> QED BY <1>1, <1>3, <1>5 DEF Finished, Unanswered, t

LEMMA TracedFinishes ==
  ASSUME NEW N \in Nat, NEW s, Idle(N, s), N \in 1 .. N, s.rx.head \in {Nothing, N},
         ~s.stopped, s.owed = <<>>, s.stream = Nothing, NEW n \in Nat
  PROVE  Finished(N, Traced(s, N, n))
<1> DEFINE r == SendResponse(s, N, Answer("OK", "trace", NoParameters), n)
           c == SendCode(s, N, "METHOD_NOT_ALLOWED", n)
<1>1. Finished(N, r)
  <2>1. Answer("OK", "trace", NoParameters) \in Answers
    BY DEF Answers
  <2>2. /\ r.rx = NoRx
        /\ \E m \in Seq(ReplyPieces(N)) : Short(m) /\ Replied(N, s, m, r)
    BY <2>1, IdleResponds
  <2> HIDE DEF r
  <2>3. PICK m \in Seq(ReplyPieces(N)) : Short(m) /\ Replied(N, s, m, r)
    BY <2>2
  <2>4. ~r.stopped /\ r.owed = <<>> /\ r.stream = Nothing
    BY <2>3 DEF Replied, Unanswered
  <2> QED BY <2>2, <2>3, <2>4, ShortReplyFinishes
<1>2. Finished(N, c)
  <2>1. "METHOD_NOT_ALLOWED" \in {"CONTINUE", "METHOD_NOT_ALLOWED"}
    OBVIOUS
  <2>6. SaysCode(N, s, "METHOD_NOT_ALLOWED", c)
    BY <2>1, IdleSendsCode
  <2> HIDE DEF c
  <2>2. /\ c.rx = NoRx
        /\ \E head \in ReplyPieces(N) : Replied(N, s, <<head>>, c) /\ head.part.is = "head"
    BY <2>6 DEF SaysCode
  <2>3. PICK head \in ReplyPieces(N) :
          Replied(N, s, <<head>>, c) /\ head.part.is = "head"
    BY <2>2
  <2>4. ~c.stopped /\ c.owed = <<>> /\ c.stream = Nothing
    BY <2>3 DEF Replied, Unanswered
  <2>5. Short(<<head>>) /\ <<head>> \in Seq(ReplyPieces(N))
    <3>1. /\ <<head>> \in Seq(ReplyPieces(N)) /\ Len(<<head>>) = 1
          /\ DOMAIN <<head>> = {1} /\ <<head>>[1] = head
      OBVIOUS
    <3> QED BY <2>3, <3>1 DEF Short
  <2> QED BY <2>2, <2>3, <2>4, <2>5, ShortReplyFinishes
<1> HIDE DEF r, c
<1>3. Traced(s, N, n) \in {ClearRx(r), ClearRx(c)}
  BY DEF Traced, r, c
<1> QED BY <1>1, <1>2, <1>3, ClearedFinishes

LEMMA StreamFinishes ==
  ASSUME NEW N \in Nat, NEW s, Idle(N, s), N \in 1 .. N, s.rx.head \in {Nothing, N},
         ~s.stopped, s.owed = <<>>, NEW n \in Nat
  PROVE  Finished(N, [SendHead(s, N, n) EXCEPT !.stream = N, !.left = StreamLength])
<1> DEFINE h == SendHead(s, N, n)
           t == [h EXCEPT !.stream = N, !.left = StreamLength]
<1>1. /\ h.rx = NoRx
      /\ \E head \in ReplyPieces(N) :
           /\ Replied(N, s, <<head>>, h)
           /\ head.part.is = "head" /\ head.part.follow = "chunks"
  BY IdleSendsHead
<1> HIDE DEF h
<1>2. PICK head \in ReplyPieces(N) :
        /\ Replied(N, s, <<head>>, h)
        /\ head.part.is = "head" /\ head.part.follow = "chunks"
  BY <1>1
<1>3. /\ t \in Servers(N) /\ t.rx = h.rx /\ t.owed = h.owed /\ t.stopped = h.stopped
      /\ t.undefined = h.undefined /\ t.busy = h.busy /\ t.writing = h.writing
      /\ t.wire = h.wire /\ t.open = h.open
  <2>1. h \in Servers(N) /\ N \in 0 .. N
    BY <1>2 DEF Replied
  <2> QED BY <2>1, BoundsAssumption DEF Servers
<1> HIDE DEF t
<1>4. ASSUME t.open PROVE Formed(t) /\ Begins(t)
  <2>1. t.wire = <<>> /\ t.writing \in {<<head>>, <<>>}
    BY <1>2, <1>3, <1>4 DEF Replied
  <2>2. /\ Unread(t) = Len(t.writing)
        /\ \A p \in 1 .. Unread(t) : Reply(t, p) = t.writing[p].part
    BY <1>3, <2>1, OnlyWriting
  <2>3. \A p \in 1 .. Unread(t) : p = 1 /\ Reply(t, p) = head.part
    BY <2>1, <2>2
  <2>4. \A p \in 1 .. Unread(t) : EndsAt(Reply(t, p), p, Coming(t))
    BY <1>2, <2>3 DEF EndsAt
  <2> QED BY <2>3, <2>4 DEF Formed, Begins
<1>5. t.rx.head = Nothing /\ t.owed = <<>>
  BY <1>1, <1>2, <1>3, NoRxReceived DEF Replied, Unanswered
<1>6. ~t.undefined /\ ~t.stopped /\ WritesWhenBusy(t) /\ (~t.open => Cut(N, t))
  BY <1>2, <1>3 DEF Replied, Unanswered, WritesWhenBusy, Cut
<1>7. Finished(N, t)
  BY <1>3, <1>4, <1>5, <1>6 DEF Finished, Owing
<1> QED BY <1>7 DEF t, h

LEMMA OwedFinishes ==
  ASSUME NEW N \in Nat, NEW s, Idle(N, s), N \in 1 .. N, s.rx.head \in {Nothing, N},
         ~s.stopped, s.owed = <<>>, s.stream = Nothing
  PROVE  Finished(N, [s EXCEPT !.owed = Append(@, N)])
<1> DEFINE t == [s EXCEPT !.owed = <<N>>]
<1>1. [s EXCEPT !.owed = Append(@, N)] = t
  BY DEF Idle, Servers
<1>2. /\ t \in Servers(N) /\ t.rx = s.rx /\ t.owed = <<N>> /\ t.stopped = s.stopped
      /\ t.undefined = s.undefined /\ t.busy = s.busy /\ t.writing = s.writing
      /\ t.wire = s.wire /\ t.open = s.open /\ t.stream = s.stream
  <2>1. <<N>> \in Seq(1 .. N)
    OBVIOUS
  <2> QED BY <2>1 DEF Idle, Servers
<1> HIDE DEF t
<1>3. Unread(t) = 0 /\ Coming(t) = 0
  BY <1>2 DEF Idle, Unread, Coming
<1>4. Formed(t) /\ Begins(t)
  BY <1>3 DEF Formed, Begins
<1>5. <<N>> # <<>>
  OBVIOUS
<1> QED BY <1>1, <1>2, <1>3, <1>4, <1>5 DEF Finished, Owing, Idle, WritesWhenBusy

LEMMA ValidEnds ==
  ASSUME NEW N, Given(N), NEW s, Idle(N, s), N \in 1 .. N, s.rx.head = N,
         ~s.stopped, s.owed = <<>>, s.stream = Nothing, NEW n \in Nat
  PROVE  Ended(N, Valid(s, N, n))
<1> DEFINE told == Append(s.told, [of |-> N, data |-> s.rx.data])
           t == [s EXCEPT !.told = told]
<1>1. N \in Nat /\ Asked(N) \in Requests /\ s \in Servers(N)
  BY GivenRequests DEF Idle
<1>2. told \in Seq([of : 1 .. N, data : Nat])
  <2>1. s.told \in Seq([of : 1 .. N, data : Nat]) /\ s.rx.data \in Nat
    BY <1>1, ServerFields
  <2> QED BY <2>1, AppendProperties
<1> HIDE DEF told
<1>3. /\ t \in Servers(N) /\ t.rx = s.rx /\ t.stopped = s.stopped /\ t.open = s.open
      /\ t.undefined = s.undefined /\ t.busy = s.busy /\ t.writing = s.writing
      /\ t.wire = s.wire /\ t.owed = s.owed /\ t.stream = s.stream
  BY <1>1, <1>2 DEF Servers
<1> DEFINE r == SendResponse(t, N, RouterAnswer[routes][Asked(N)], n)
           x == [t EXCEPT !.stopped = TRUE]
           u == [SendHead(t, N, n) EXCEPT !.stream = N, !.left = StreamLength]
           w == [t EXCEPT !.owed = Append(@, N)]
<1>4. Handler(s, N, n) \in {r, x, u, w}
  <2>1. mode.server \in {"router", "late", "stream"}
    BY ModesAssumption DEF Given, Mode
  <2> QED BY <2>1 DEF Handler, RouteRequest, told
<1> HIDE DEF t
<1>5. /\ Idle(N, t) /\ t.rx.head \in {Nothing, N} /\ ~t.stopped /\ t.owed = <<>>
      /\ t.stream = Nothing
  BY <1>3 DEF Idle, WritesWhenBusy
<1>6. Finished(N, r)
  <2>1. RouterAnswer[routes][Asked(N)] \in Answers
    BY <1>1 DEF Given, Answers
  <2>2. /\ r.rx = NoRx
        /\ \E m \in Seq(ReplyPieces(N)) : Short(m) /\ Replied(N, t, m, r)
    BY <1>1, <1>5, <2>1, IdleResponds
  <2> HIDE DEF r
  <2>3. PICK m \in Seq(ReplyPieces(N)) : Short(m) /\ Replied(N, t, m, r)
    BY <2>2
  <2>4. ~r.stopped /\ r.owed = <<>> /\ r.stream = Nothing
    BY <1>5, <2>3 DEF Replied, Unanswered
  <2> QED BY <1>1, <2>2, <2>3, <2>4, ShortReplyFinishes
<1>7. Finished(N, u)
  BY <1>1, <1>5, StreamFinishes
<1>8. Finished(N, w)
  BY <1>1, <1>5, OwedFinishes
<1>9. Finished(N, Traced(s, N, n))
  BY <1>1, TracedFinishes
<1>10. x \in Servers(N) /\ Abandoned(x)
  <2>1. /\ x \in Servers(N) /\ x.stopped /\ x.open = t.open /\ x.undefined = t.undefined
        /\ x.owed = t.owed /\ x.stream = t.stream
    BY <1>1, <1>3, StoppedServer
  <2> HIDE DEF x
  <2> QED BY <1>5, <2>1 DEF Abandoned, Idle
<1> HIDE DEF r, u, w, x
<1>11. Ended(N, Handler(s, N, n))
  BY <1>4, <1>6, <1>7, <1>8, <1>10 DEF Ended
<1>12. Ended(N, HandlerReturned(Handler(s, N, n)))
  BY <1>1, <1>11, ClearedFinishes DEF HandlerReturned, Ended, Abandoned
<1> QED BY <1>9, <1>12 DEF Valid, Ended

-----------------------------------------------------------------------------
(* A server that has read k parts of request N, but not all.               *)
Asking(N, k, s) ==
  /\ Idle(N, s) /\ ~s.stopped /\ s.owed = <<>> /\ s.stream = Nothing
  /\ k = 0 => s.rx.head = Nothing
  /\ k > 0 => s.rx.head = N /\ ~s.rx.complete /\ s.rx.data = k - 1

(* One that has read the head only, and sends a 100 Continue.              *)
Expecting(i) == Chunked(Asked(i)) /\ Asked(i).expect

IsContinue(x) == x.is = "head" /\ x.follow = "nothing" /\ x.answer = Refusal("CONTINUE")

HeadOnly(i, rx) == rx.head = i /\ ~rx.complete /\ rx.data = 0

Continuing(N, s) ==
  /\ s \in Servers(N) /\ WritesWhenBusy(s) /\ ~s.stopped /\ ~s.undefined
  /\ s.owed = <<>> /\ s.stream = Nothing
  /\ HeadOnly(N, s.rx)
  /\ ~s.open => Cut(N, s)
  /\ s.open => Unread(s) \in {0, 1} /\ (Unread(s) = 1 => IsContinue(Reply(s, 1)))

LEMMA TakeLeavesTheRest ==
  ASSUME NEW N \in Nat, NEW s \in Servers(N), NEW i, NEW k
  PROVE  LET t == Take(s, PartOf(i, k))
         IN  /\ t.open = s.open /\ t.wire = s.wire /\ t.writing = s.writing
             /\ t.owed = s.owed /\ t.stream = s.stream
<1>1. PartOf(i, k).is \in {"head", "body", "chunk", "last"}
  BY DEF PartOf, Part
<1> QED BY <1>1 DEF Take, Servers

LEMMA ContinueIsSent ==
  ASSUME NEW N \in Nat, NEW s, Idle(N, s), N \in 1 .. N, ~s.stopped, s.owed = <<>>,
         s.stream = Nothing, HeadOnly(N, s.rx), NEW n \in Nat
  PROVE  Continuing(N, SendCode(s, N, "CONTINUE", n))
<1>7. PICK status : status = "CONTINUE"
  OBVIOUS
<1> DEFINE t == SendCode(s, N, status, n)
<1>1. status \in {"CONTINUE", "METHOD_NOT_ALLOWED"} /\ s.rx.head \in {Nothing, N}
  BY <1>7 DEF HeadOnly
<1>2. SaysCode(N, s, status, t)
  BY <1>1, IdleSendsCode
<1> HIDE DEF t
<1>3. PICK head \in ReplyPieces(N) : Replied(N, s, <<head>>, t) /\ IsContinue(head.part)
  BY <1>2, <1>7 DEF IsContinue, SaysCode
<1>4. ASSUME t.open
      PROVE  Unread(t) \in {0, 1} /\ (Unread(t) = 1 => IsContinue(Reply(t, 1)))
  <2>1. t.wire = <<>> /\ t.writing \in {<<head>>, <<>>} /\ t \in Servers(N)
    BY <1>3, <1>4 DEF Replied
  <2>2. /\ Unread(t) = Len(t.writing)
        /\ \A p \in 1 .. Unread(t) : Reply(t, p) = t.writing[p].part
    BY <2>1, OnlyWriting
  <2>3. CASE t.writing = <<>>
    <3>1. Unread(t) = 0
      BY <2>2, <2>3
    <3> QED BY <3>1
  <2>4. CASE t.writing = <<head>>
    <3>1. Unread(t) = 1 /\ t.writing[1] = head
      BY <2>2, <2>4
    <3>2. Reply(t, 1) = head.part
      BY <2>2, <3>1
    <3> QED BY <1>3, <3>1, <3>2
  <2> QED BY <2>1, <2>3, <2>4
<1>5. t.rx = s.rx
  BY <1>2, <1>7 DEF SaysCode
<1>6. Continuing(N, t)
  BY <1>3, <1>4, <1>5 DEF Continuing, Replied, Unanswered
<1> QED BY <1>6, <1>7 DEF t

LEMMA AskingTakesOne ==
  ASSUME NEW N, Given(N), N \in 1 .. N, NEW k \in 0 .. Size(Asked(N)) - 1, NEW s,
         Asking(N, k, s), NEW n \in Nat
  PROVE  LET t == ServerTakes(s, PartOf(N, k), n)
             more == k + 1 < Size(Asked(N))
         IN  /\ more /\ ~(k = 0 /\ Expecting(N)) => Asking(N, k + 1, t)
             /\ more /\ k = 0 /\ Expecting(N) => Continuing(N, t)
             /\ ~more => Ended(N, t)
<1> DEFINE part == PartOf(N, k)
           u == Take(s, part)
           t == ServerTakes(s, part, n)
<1>1. /\ N \in Nat /\ Size(Asked(N)) \in Nat /\ k \in Nat /\ k < Size(Asked(N))
      /\ s \in Servers(N) /\ WritesWhenBusy(s)
  <2>1. N \in Nat /\ Asked(N).chunks \in Nat /\ Asked(N).body \in BOOLEAN
    BY GivenRequests
  <2>2. Size(Asked(N)) \in Nat
    BY <2>1 DEF Size, Chunked
  <2>3. s \in Servers(N) /\ WritesWhenBusy(s)
    BY DEF Asking, Idle
  <2>5. k \in Nat /\ k < Size(Asked(N))
    BY <2>2
  <2> QED BY <2>1, <2>2, <2>3, <2>5
<1>2. /\ part.of = N /\ (part.is = "head" <=> k = 0)
  BY DEF PartOf, Part
<1>3. Holds(s, N, k) /\ Fits(s, part) /\ ~s.stopped /\ ~s.undefined
  <2>1. k = 0 \/ k > 0
    BY <1>1
  <2> HIDE DEF part
  <2> QED BY <1>2, <2>1 DEF Asking, Idle, Holds, Fits
<1>4. /\ u \in Servers(N) /\ WritesWhenBusy(u)
      /\ u.stopped = s.stopped /\ u.undefined = s.undefined
      /\ u.rx.head = N
      /\ u.rx.complete <=> k + 1 = Size(Asked(N))
      /\ u.rx.data = IF u.rx.complete THEN Whole(Asked(N)) ELSE k
  BY <1>1, <1>3, TakeAddsThePart
<1>5. /\ u.open = s.open /\ u.wire = s.wire /\ u.writing = s.writing
      /\ u.owed = s.owed /\ u.stream = s.stream
  BY <1>1, TakeLeavesTheRest
<1>6. t = Taken(u, part, n)
  BY <1>3 DEF ServerTakes
<1>7. Expects(u, part) <=> k = 0 /\ Expecting(N)
  <2> HIDE DEF part, u
  <2> QED BY <1>2 DEF Expects, Expecting
<1> HIDE DEF u, part, t
<1>8. /\ Idle(N, u) /\ ~u.stopped /\ u.owed = <<>> /\ u.stream = Nothing
  BY <1>4, <1>5 DEF Asking, Idle
<1>9. CASE k + 1 < Size(Asked(N)) /\ ~(k = 0 /\ Expecting(N))
  <2>1. ~u.rx.complete /\ ~Expects(u, part)
    BY <1>1, <1>4, <1>7, <1>9
  <2>2. t = u
    BY <1>6, <2>1 DEF Taken
  <2>3. k + 1 > 0 /\ k + 1 # 0 /\ (k + 1) - 1 = k
    BY <1>1
  <2>4. Asking(N, k + 1, u)
    BY <1>4, <1>8, <2>1, <2>3 DEF Asking
  <2> QED BY <1>9, <2>2, <2>4 DEF t, part
<1>10. CASE k + 1 < Size(Asked(N)) /\ k = 0 /\ Expecting(N)
  <2>1. ~u.rx.complete /\ Expects(u, part)
    BY <1>1, <1>4, <1>7, <1>10
  <2>2. t = SendCode(u, N, "CONTINUE", n)
    BY <1>2, <1>6, <2>1 DEF Taken
  <2>3. HeadOnly(N, u.rx)
    BY <1>4, <1>10, <2>1 DEF HeadOnly
  <2>4. Continuing(N, t)
    BY <1>1, <1>4, <1>8, <2>1, <2>2, <2>3, ContinueIsSent
  <2> QED BY <1>10, <2>4 DEF t, part
<1>11. CASE ~(k + 1 < Size(Asked(N)))
  <2>1. u.rx.complete
    BY <1>1, <1>4, <1>11
  <2>2. t = Valid(u, N, n)
    BY <1>2, <1>6, <2>1 DEF Taken
  <2>3. Ended(N, t)
    BY <1>1, <1>4, <1>8, <2>2, ValidEnds
  <2> QED BY <1>11, <2>3 DEF t, part
<1> QED BY <1>9, <1>10, <1>11

-----------------------------------------------------------------------------
(* The turns of the exchange, with N requests asked and m parts of them    *)
(* that the server has not read.                                           *)
At(N, m) == N = Len(client.asked) /\ m = Outstanding(client)

(* A client that can take a head, and one that can take what is coming,    *)
(* when it has already taken j parts of it.                                *)
Ready(c) == c.stopped \/ c.rx.answer.follow = "head"

Expected(c, s, j) ==
  \/ c.stopped
  \/ /\ c.rx.answer.follow = "body" => Coming(s) <= j + 1
     /\ \A p \in j + 1 .. Unread(s) :
          Reply(s, p).is = "head" => p = j + 1 /\ c.rx.answer.follow = "head"

(* The server has read k parts of the last request, and the client waits   *)
(* for the 100 Continue when it has to.                                    *)
Underway(N, m, k) ==
  /\ m > 0 /\ k + m = Size(Asked(N))
  /\ \A p \in 1 .. m : Out(client, p) = PartOf(N, k + p - 1)

Silent(N, k) ==
  /\ Asking(N, k, server)
  /\ k = 0 /\ Expecting(N) => ~Told(N) /\ Len(client.wire) + Len(client.writing) <= 1

Continued(N, k) ==
  /\ Continuing(N, server) /\ server.open /\ Unread(server) = 1
  /\ k = 1 /\ Expecting(N) /\ ~Told(N)
  /\ client.wire = <<>> /\ client.writing = <<>>

AskingTurn(N, m) ==
  /\ N > 0 /\ Ready(client) /\ ~Answered(N)
  /\ \E k \in Nat : Underway(N, m, k) /\ (Silent(N, k) \/ Continued(N, k))

(* The server has read everything.                                         *)
AnsweringTurn(N, m) ==
  /\ m = 0
  /\ server.open /\ ~server.stopped /\ ~server.undefined
  /\ Formed(server) /\ Owing(N, server) /\ Expected(client, server, 0)
  /\ server.owed # <<>> => Ready(client) /\ ~Answered(N)
  /\ N = 0 \/ Answered(N) => Coming(server) = 0

Turn(N, m) ==
  \/ ~server.open /\ Cut(N, server)
  \/ AskingTurn(N, m)
  \/ AnsweringTurn(N, m)

CarefulInv ==
  mode.careful =>
    /\ ~client.undefined
    /\ Abandoned(server) \/ \E N, m \in Nat : At(N, m) /\ Turn(N, m)

LEMMA AtGives ==
  ASSUME ExchangeTypes, NEW N, NEW m, At(N, m)
  PROVE  /\ Given(N) /\ N \in Nat /\ m \in Nat
         /\ client \in Clients(N) /\ WritesWhenBusy(client)
         /\ server \in Servers(N) /\ WritesWhenBusy(server)
         /\ Len(client.wire) \in Nat /\ Len(client.writing) \in Nat
         /\ Len(client.left) \in Nat
         /\ m = Len(client.wire) + Len(client.writing) + Len(client.left)
BY TypesGiveGiven DEF At, Outstanding

(* The lengths of what there is to send and to read.                       *)
LEMMA NothingOutstanding ==
  ASSUME ExchangeTypes, NEW N, At(N, 0)
  PROVE  client.wire = <<>> /\ client.writing = <<>> /\ client.left = <<>>
<1>1. /\ N \in Nat /\ client \in Clients(N)
      /\ Len(client.wire) \in Nat /\ Len(client.writing) \in Nat
      /\ Len(client.left) \in Nat
      /\ 0 = Len(client.wire) + Len(client.writing) + Len(client.left)
  BY TypesGiveGiven DEF At, Outstanding
<1>2. \A a, b, c \in Nat : 0 = a + b + c => a = 0 /\ b = 0 /\ c = 0
  OBVIOUS
<1>3. Len(client.wire) = 0 /\ Len(client.writing) = 0 /\ Len(client.left) = 0
  BY <1>1, <1>2
<1>4. /\ client.writing \in Seq(AskPieces(N)) /\ client.wire \in Seq(Asks(N))
      /\ client.left \in Seq(AskPieces(N))
  BY <1>1, ClientFields
<1> QED BY <1>3, <1>4, EmptySeq

LEMMA ReplyLengths ==
  ASSUME NEW N \in Nat, NEW s \in Servers(N)
  PROVE  /\ Len(s.wire) \in Nat /\ Len(s.writing) \in Nat
         /\ Unread(s) = Len(s.wire) + Len(s.writing) /\ Unread(s) \in Nat
         /\ Coming(s) \in Nat /\ Unread(s) <= Coming(s)
         /\ s.left \in Nat
<1>1. s.writing \in Seq(ReplyPieces(N)) /\ s.wire \in Seq(Replies(N)) /\ s.left \in Nat
  BY ServerFields
<1>2. Len(s.wire) \in Nat /\ Len(s.writing) \in Nat
  BY <1>1
<1>3. Unread(s) = Len(s.wire) + Len(s.writing)
  BY DEF Unread
<1>7. \A a, b \in Nat : a + b \in Nat
  OBVIOUS
<1>4. Unread(s) \in Nat
  BY <1>2, <1>3, <1>7
<1>5. Coming(s) = Unread(s) \/ Coming(s) = Unread(s) + (s.left + 1)
  BY <1>4 DEF Coming
<1>6. Coming(s) \in Nat /\ Unread(s) <= Coming(s)
  BY <1>1, <1>4, <1>5
<1> QED BY <1>1, <1>2, <1>3, <1>4, <1>6

(* Nothing is coming.                                                      *)
LEMMA NothingComing ==
  ASSUME NEW N \in Nat, NEW s \in Servers(N), Coming(s) = 0
  PROVE  s.wire = <<>> /\ s.writing = <<>> /\ s.stream = Nothing
<1>1. s.writing \in Seq(ReplyPieces(N)) /\ s.wire \in Seq(Replies(N)) /\ s.left \in Nat
  BY ServerFields
<1>2. /\ Len(s.wire) \in Nat /\ Len(s.writing) \in Nat
      /\ Unread(s) = Len(s.wire) + Len(s.writing) /\ Unread(s) \in Nat /\ Unread(s) <= 0
  BY ReplyLengths
<1>5. \A a, b \in Nat : a + b <= 0 => a = 0 /\ b = 0
  OBVIOUS
<1>3. Len(s.wire) = 0 /\ Len(s.writing) = 0
  BY <1>2, <1>5
<1>4. s.stream = Nothing
  <2>1. s.stream # Nothing => 0 = Unread(s) + (s.left + 1)
    BY DEF Coming
  <2>2. \A a, b \in Nat : 0 # a + (b + 1)
    OBVIOUS
  <2> QED BY <1>1, <1>2, <2>1, <2>2
<1> QED BY <1>1, <1>3, <1>4, EmptySeq

-----------------------------------------------------------------------------
(* Steps that leave the turn where it is.                                  *)
LEMMA ClosedStays ==
  ASSUME NEW CONSTANT N \in Nat, NEW CONSTANT M \in Nat, N <= M,
         ~server.open, Cut(N, server),
         server'.open = server.open, server'.writing = server.writing,
         server'.undefined = server.undefined, \A i \in 1 .. N : Asked(i)' = Asked(i)
  PROVE  ~server'.open /\ Cut(M, server)'
<1>1. ASSUME NEW j \in DOMAIN server.writing
      PROVE  /\ server.writing[j].part.of \in 1 .. M
             /\ ~Asked(server.writing[j].part.of)'.keep
  <2>1. server.writing[j].part.of \in 1 .. N /\ ~Asked(server.writing[j].part.of).keep
    BY DEF Cut
  <2>2. \A i \in 1 .. N : i \in 1 .. M
    OBVIOUS
  <2> QED BY <2>1, <2>2
<1>2. ~server.undefined
  BY DEF Cut
<1> QED BY <1>1, <1>2 DEF Cut

(* The client sends on, or notes that it has sent; it is told nothing.     *)
ClientSendsOnly(m) ==
  /\ client'.asked = client.asked /\ client'.got = client.got
  /\ Outstanding(client') = m
  /\ \A p \in 1 .. m : Out(client', p) = Out(client, p)

LEMMA SameRequests ==
  ASSUME client'.asked = client.asked, client'.got = client.got
  PROVE  /\ \A i : Asked(i)' = Asked(i)
         /\ \A i : Told(i)' = Told(i) /\ Answered(i)' = Answered(i)
         /\ \A i, k : PartOf(i, k)' = PartOf(i, k)
         /\ \A i : Expecting(i)' = Expecting(i)
<1>1. \A i : Asked(i)' = Asked(i)
  BY DEF Asked
<1> QED BY <1>1 DEF Told, Answered, PartOf, Expecting

LEMMA AtStays ==
  ASSUME NEW CONSTANT N, NEW CONSTANT m, At(N, m), ClientSendsOnly(m)
  PROVE  At(N, m)'
BY DEF At, ClientSendsOnly

LEMMA UnderwayStays ==
  ASSUME NEW CONSTANT N, NEW CONSTANT m, NEW CONSTANT k, Underway(N, m, k),
         ClientSendsOnly(m)
  PROVE  Underway(N, m, k)'
<1>1. \A i : Asked(i)' = Asked(i)
  BY SameRequests DEF ClientSendsOnly
<1>2. \A i, l : PartOf(i, l)' = PartOf(i, l)
  BY SameRequests DEF ClientSendsOnly
<1> QED BY <1>1, <1>2 DEF Underway, ClientSendsOnly

LEMMA SilentStays ==
  ASSUME NEW CONSTANT N, NEW CONSTANT m, NEW CONSTANT k, Silent(N, k),
         ClientSendsOnly(m), Asking(N, k, server'),
         k = 0 /\ Expecting(N) => Len(client'.wire) + Len(client'.writing)
                                    = Len(client.wire) + Len(client.writing)
  PROVE  Silent(N, k)'
<1>1. /\ \A i : Expecting(i)' = Expecting(i)
      /\ \A i : Told(i)' = Told(i)
  BY SameRequests DEF ClientSendsOnly
<1>2. Asking(N, k, server)'
  BY DEF Asking, Idle
<1> QED BY <1>1, <1>2 DEF Silent

LEMMA ContinuedStays ==
  ASSUME NEW CONSTANT N, NEW CONSTANT m, NEW CONSTANT k, Continued(N, k),
         ClientSendsOnly(m), Continuing(N, server'), server'.open, Unread(server') = 1,
         client'.wire = client.wire, client'.writing = client.writing
  PROVE  Continued(N, k)'
<1>1. /\ \A i : Expecting(i)' = Expecting(i)
      /\ \A i : Told(i)' = Told(i)
  BY SameRequests DEF ClientSendsOnly
<1>2. Continuing(N, server)'
  <2>1. \A i : Asked(i)' = Asked(i)
    BY SameRequests DEF ClientSendsOnly
  <2> QED BY <2>1 DEF Continuing, Cut
<1> QED BY <1>1, <1>2 DEF Continued

(* ... while the request is under way, and while it is answered.           *)
LEMMA AskingTurnStays ==
  ASSUME ExchangeTypes, NEW CONSTANT N, NEW CONSTANT m, At(N, m), AskingTurn(N, m),
         ClientSendsOnly(m), Ready(client'), server' = server,
         \A k \in Nat : Silent(N, k) /\ k = 0 /\ Expecting(N) =>
           Len(client'.wire) + Len(client'.writing) = Len(client.wire) + Len(client.writing),
         \A k \in Nat : Continued(N, k) =>
           client'.wire = client.wire /\ client'.writing = client.writing
  PROVE  AskingTurn(N, m)'
<1>1. PICK k \in Nat : Underway(N, m, k) /\ (Silent(N, k) \/ Continued(N, k))
  BY DEF AskingTurn
<1>2. Underway(N, m, k)'
  BY <1>1, UnderwayStays
<1>3. ASSUME Silent(N, k) PROVE Silent(N, k)'
  <2>1. Asking(N, k, server')
    BY <1>3 DEF Silent
  <2> QED BY <1>3, <2>1, SilentStays
<1>4. ASSUME Continued(N, k) PROVE Continued(N, k)'
  <2>1. Continuing(N, server') /\ server'.open /\ Unread(server') = 1
    BY <1>4 DEF Continued
  <2> QED BY <1>4, <2>1, ContinuedStays
<1>5. N > 0 /\ Ready(client)' /\ ~Answered(N)'
  <2>1. \A i : Answered(i)' = Answered(i)
    BY SameRequests DEF ClientSendsOnly
  <2> QED BY <2>1 DEF AskingTurn, Ready
<1> QED BY <1>1, <1>2, <1>3, <1>4, <1>5 DEF AskingTurn

LEMMA ClosedTurnStays ==
  ASSUME NEW CONSTANT N \in Nat, NEW CONSTANT m \in Nat, ~server.open, Cut(N, server),
         client'.asked = client.asked, server' = server
  PROVE  Turn(N, m)'
<1>1. \A i \in 1 .. N : Asked(i)' = Asked(i)
  BY DEF Asked
<1>2. N <= N
  OBVIOUS
<1> QED BY <1>1, <1>2, ClosedStays DEF Turn

LEMMA ClientSentTurn ==
  ASSUME ExchangeTypes, NEW CONSTANT N \in Nat, NEW CONSTANT m \in Nat, At(N, m),
         Turn(N, m), ClientSent \/ ClientLost \/ UNCHANGED vars
  PROVE  At(N, m)' /\ Turn(N, m)' /\ client'.undefined = client.undefined
<1>1. client \in Clients(N)
  BY AtGives
<1>2. /\ SameOutput(client, client') /\ client'.got = client.got /\ client'.rx = client.rx
      /\ client'.stopped = client.stopped /\ client'.undefined = client.undefined
  BY <1>1 DEF ClientSent, ClientLost, Clients, SameOutput, vars
<1>3. ClientSendsOnly(m)
  BY <1>2, SameOutputSameParts DEF ClientSendsOnly, SameOutput, At
<1>4. server' = server
  BY DEF ClientSent, ClientLost, vars
<1>5. At(N, m)'
  BY <1>3, AtStays
<1>6. CASE ~server.open /\ Cut(N, server)
  <2>1. client'.asked = client.asked
    BY <1>2 DEF SameOutput
  <2> QED BY <1>2, <1>4, <1>5, <1>6, <2>1, ClosedTurnStays
<1>7. CASE AskingTurn(N, m)
  <2>1. Ready(client')
    BY <1>2, <1>7 DEF AskingTurn, Ready
  <2>2. AskingTurn(N, m)'
    BY <1>2, <1>3, <1>4, <1>7, <2>1, AskingTurnStays DEF SameOutput
  <2> QED BY <1>2, <1>5, <2>2 DEF Turn
<1>8. CASE AnsweringTurn(N, m)
  <2>1. \A i : Answered(i)' = Answered(i)
    BY <1>3, SameRequests DEF ClientSendsOnly
  <2>2. AnsweringTurn(N, m)'
    BY <1>2, <1>4, <1>8, <2>1 DEF AnsweringTurn, Expected, Ready
  <2> QED BY <1>2, <1>5, <2>2 DEF Turn
<1> QED BY <1>6, <1>7, <1>8 DEF Turn

LEMMA ClientWritesTurn ==
  ASSUME ExchangeTypes, NEW CONSTANT N \in Nat, NEW CONSTANT m \in Nat, At(N, m),
         Turn(N, m), ClientWrites
  PROVE  At(N, m)' /\ Turn(N, m)' /\ client'.undefined = client.undefined
<1>1. /\ client \in Clients(N) /\ WritesWhenBusy(client)
      /\ Len(client.wire) \in Nat /\ Len(client.writing) \in Nat
  BY AtGives
<1>2. PICK n \in 1 .. Len(client.writing) : client' = Transmit(client, n)
  BY DEF ClientWrites
<1>3. n \in 0 .. Len(client.writing) /\ n \in Nat /\ 1 <= n /\ n <= Len(client.writing)
  BY <1>1, <1>2
<1>4. server' = server
  BY DEF ClientWrites
<1>5. /\ client'.asked = client.asked /\ client'.left = client.left
      /\ client'.writing = SubSeq(client.writing, n + 1, Len(client.writing))
      /\ client'.wire = client.wire \o [i \in 1 .. n |-> client.writing[i].part]
  BY <1>1, <1>2, <1>3, ClientTransmit
<1>6. /\ client'.got = client.got /\ client'.rx = client.rx
      /\ client'.stopped = client.stopped /\ client'.undefined = client.undefined
  BY <1>1, <1>2 DEF Transmit, Clients
<1>7. /\ Outstanding(client') = Outstanding(client)
      /\ \A p \in 1 .. Outstanding(client) : Out(client', p) = Out(client, p)
  BY <1>1, <1>3, <1>5, TransmitKeepsOutput
<1>8. ClientSendsOnly(m)
  BY <1>5, <1>6, <1>7 DEF ClientSendsOnly, At
<1>9. At(N, m)'
  BY <1>8, AtStays
<1>10. CASE ~server.open /\ Cut(N, server)
  BY <1>4, <1>5, <1>6, <1>9, <1>10, ClosedTurnStays
<1>11. CASE AskingTurn(N, m)
  <2>1. Ready(client')
    BY <1>6, <1>11 DEF AskingTurn, Ready
  <2>2. Len(client'.wire) + Len(client'.writing) = Len(client.wire) + Len(client.writing)
    <3>1. client.writing \in Seq(AskPieces(N)) /\ client.wire \in Seq(Asks(N))
      BY <1>1, ClientFields
    <3>2. \A p \in AskPieces(N) : p.part \in Asks(N)
      BY DEF AskPieces
    <3>3. /\ Len(client'.writing) = Len(client.writing) - n
          /\ Len(client'.wire) = Len(client.wire) + n
      BY <1>3, <1>5, <3>1, <3>2, Leaving
    <3>4. \A a, b \in Nat : (a + n) + (b - n) = a + b
      BY <1>3
    <3> QED BY <1>1, <3>3, <3>4
  <2>3. \A k \in Nat : ~Continued(N, k)
    <3>1. client.writing # <<>>
      <4>1. client.writing = <<>> => Len(client.writing) = 0
        OBVIOUS
      <4> QED BY <1>3, <4>1
    <3> QED BY <3>1 DEF Continued
  <2>4. AskingTurn(N, m)'
    BY <1>4, <1>8, <1>11, <2>1, <2>2, <2>3, AskingTurnStays
  <2> QED BY <1>6, <1>9, <2>4 DEF Turn
<1>12. CASE AnsweringTurn(N, m)
  <2>1. client.writing = <<>>
    BY <1>12, NothingOutstanding DEF AnsweringTurn
  <2>2. Len(client.writing) = 0
    BY <2>1
  <2> QED BY <1>3, <2>2
<1> QED BY <1>10, <1>11, <1>12 DEF Turn

(* The client sends on with the request under way, but not when it waits   *)
(* for the 100 Continue.                                                   *)
LEMMA AskMoreTurn ==
  ASSUME ExchangeTypes, NEW CONSTANT N \in Nat, NEW CONSTANT m \in Nat, At(N, m),
         Turn(N, m), AskMore, mode.careful
  PROVE  At(N, m)' /\ Turn(N, m)' /\ client'.undefined = client.undefined
<1>1. /\ client \in Clients(N) /\ ~client.busy /\ ~Awaits /\ client.left # <<>>
      /\ server' = server
  BY AtGives DEF AskMore, MaySend
<1>2. /\ client'.asked = client.asked /\ Outstanding(client') = Outstanding(client)
      /\ \A p \in 1 .. Outstanding(client) : Out(client', p) = Out(client, p)
  BY AskMoreKeepsOutput
<1>3. /\ client'.got = client.got /\ client'.rx = NoRx
      /\ client'.undefined = client.undefined
  <2> DEFINE d == ClientSends(client, <<Head(client.left)>>)
             e == [d EXCEPT !.left = Tail(@)]
  <2>1. client' = e
    BY <1>1 DEF AskMore
  <2>2. d = [[client EXCEPT !.rx = NoRx] EXCEPT !.busy = TRUE, !.writing = <<Head(client.left)>>]
    BY <1>1 DEF ClientSends, SendData, ClearRx, Clients
  <2>3. d.got = client.got /\ d.rx = NoRx /\ d.undefined = client.undefined
    BY <1>1, <2>2 DEF Clients
  <2> HIDE DEF d
  <2> QED BY <2>1, <2>3
<1>4. ClientSendsOnly(m)
  BY <1>2, <1>3 DEF ClientSendsOnly, At
<1>5. At(N, m)'
  BY <1>4, AtStays
<1>6. CASE ~server.open /\ Cut(N, server)
  BY <1>1, <1>2, <1>3, <1>5, <1>6, ClosedTurnStays
<1>7. CASE AskingTurn(N, m)
  <2>1. Ready(client')
    BY <1>3 DEF Ready, NoRx
  <2>2. Expecting(N) => Told(N)
    BY <1>1 DEF Awaits, At, Expecting
  <2>3. AskingTurn(N, m)'
    BY <1>1, <1>4, <1>7, <2>1, <2>2, AskingTurnStays DEF Silent, Continued
  <2> QED BY <1>3, <1>5, <2>3 DEF Turn
<1>8. CASE AnsweringTurn(N, m)
  BY <1>1, <1>8, NothingOutstanding DEF AnsweringTurn
<1> QED BY <1>6, <1>7, <1>8 DEF Turn

(* The client asks when it has been answered.                              *)
LEMMA OwesNothingYet ==
  ASSUME NEW N \in Nat, NEW s \in Servers(N), N = 0
  PROVE  s.owed = <<>>
<1>1. s.owed \in Seq(1 .. 0)
  BY ServerFields
<1>2. 1 .. 0 = {}
  OBVIOUS
<1>3. \A q \in Seq({}) : q = <<>>
  OBVIOUS
<1> QED BY <1>1, <1>2, <1>3

LEMMA GotSoFar ==
  ASSUME NEW N \in Nat, NEW c \in Clients(N)
  PROVE  \A j \in DOMAIN c.got : c.got[j].of # N + 1
<1>1. c.got \in Seq([of : 0 .. N, answer : Answers, whole : BOOLEAN])
  BY ClientFields
<1>2. \A j \in DOMAIN c.got : c.got[j] \in [of : 0 .. N, answer : Answers, whole : BOOLEAN]
  <2>1. \A S : \A q \in Seq(S) : \A j \in DOMAIN q : q[j] \in S
    OBVIOUS
  <2> QED BY <1>1, <2>1
<1>3. \A x \in 0 .. N : x # N + 1
  OBVIOUS
<1> QED BY <1>2, <1>3

LEMMA FirstRequestParts ==
  ASSUME NEW r \in Requests, NEW i \in Nat \ {0}, Chunked(r)
  PROVE  Len(AtOnce(r, i)) = 1
<1>1. r.body \in BOOLEAN /\ r.chunks \in Nat /\ (r.body => r.chunks = 0)
  BY RequestsAssumption
<1>2. ~r.body
  BY <1>1 DEF Chunked
<1>3. AtOnce(r, i) = <<InHeader(Part("head", i))>> \o <<>>
  BY <1>2 DEF AtOnce
<1> DEFINE head == InHeader(Part("head", i))
<1> HIDE DEF head
<1>4. <<head>> \o <<>> = <<head>> /\ Len(<<head>>) = 1
  OBVIOUS
<1> QED BY <1>3, <1>4 DEF head

LEMMA AskTurn ==
  ASSUME ExchangeTypes, NEW CONSTANT N \in Nat, NEW CONSTANT m \in Nat, At(N, m),
         Turn(N, m), NEW CONSTANT r, r \in Requests, Ask(r), mode.careful
  PROVE  \E M, n \in Nat : At(M, n)' /\ Turn(M, n)' /\ client'.undefined = client.undefined
<1> DEFINE M == N + 1
<1>1. /\ client \in Clients(N) /\ ~client.busy /\ ~Awaits /\ client.left = <<>>
      /\ server' = server /\ server \in Servers(N) /\ WritesWhenBusy(server)
      /\ client.asked \in Seq(Requests) /\ M \in Nat
  <2>1. /\ Given(N) /\ client \in Clients(N) /\ server \in Servers(N)
        /\ WritesWhenBusy(server)
    BY AtGives
  <2>2. client.asked \in Seq(Requests)
    BY <2>1 DEF Given
  <2>3. ~client.busy /\ ~Awaits /\ client.left = <<>> /\ server' = server
    BY DEF Ask, MaySend
  <2> QED BY <2>1, <2>2, <2>3
<1>2. /\ client'.asked = Append(client.asked, r)
      /\ client'.wire = client.wire /\ client'.writing = AtOnce(r, M)
      /\ N = Len(client.asked)
  BY <1>1, AskWhenReady DEF At
<1>3. PICK z : z = Size(r)
  OBVIOUS
<1>4. /\ z \in Nat /\ z > 0 /\ Outstanding(client') = m + z
      /\ \A k \in 0 .. z - 1 : Out(client', m + 1 + k) = PartIn(r, M, k)
  BY <1>1, <1>3, AskedOutput DEF At
<1>5. /\ Len(client'.asked) = M /\ Asked(M)' = r
      /\ \A i \in 1 .. N : Asked(i)' = Asked(i)
  BY <1>1, <1>2 DEF Asked
<1> HIDE DEF M
<1>6. At(M, m + z)' /\ m + z \in Nat
  BY <1>4, <1>5 DEF At
<1>7. /\ client'.got = client.got /\ client'.rx = NoRx
      /\ client'.undefined = client.undefined
  <2> DEFINE message == <<InHeader(Part("head", Len(client.asked) + 1))>>
                          \o IF r.body THEN <<Body(Len(client.asked) + 1)>> ELSE <<>>
             d == ClientSends(client, message)
             a == Append(d.asked, r)
             l == IF Chunked(r)
                    THEN [k \in 1 .. r.chunks |-> Chunk(Len(client.asked) + 1)]
                           \o <<LastChunk(Len(client.asked) + 1)>>
                    ELSE d.left
  <2>1. client' = [d EXCEPT !.asked = a, !.left = l]
    BY <1>1 DEF Ask
  <2> HIDE DEF message, a, l
  <2>2. d = [[client EXCEPT !.rx = NoRx] EXCEPT !.busy = TRUE, !.writing = message]
    BY <1>1 DEF ClientSends, SendData, ClearRx, Clients
  <2>3. d.got = client.got /\ d.rx = NoRx /\ d.undefined = client.undefined
    BY <1>1, <2>2 DEF Clients
  <2> HIDE DEF d
  <2> QED BY <2>1, <2>3
<1>8. CASE ~server.open /\ Cut(N, server)
  <2>1. N <= M
    BY DEF M
  <2>2. ~server'.open /\ Cut(M, server)'
    BY <1>1, <1>5, <1>8, <2>1, ClosedStays
  <2> QED BY <1>1, <1>6, <1>7, <2>2 DEF Turn
<1>9. CASE AskingTurn(N, m)
  BY <1>1, <1>9 DEF AskingTurn, Awaits, At
<1>10. CASE AnsweringTurn(N, m)
  <2>1. m = 0 /\ client.wire = <<>>
    BY <1>10, NothingOutstanding DEF AnsweringTurn
  <2>2. N = 0 \/ Answered(N)
    BY <1>1 DEF Awaits, At
  <2>3. Coming(server) = 0 /\ Owing(N, server)
    BY <1>10, <2>2 DEF AnsweringTurn
  <2>4. server.owed = <<>>
    BY <1>1, <1>10, <2>2, OwesNothingYet DEF AnsweringTurn
  <2>5. server.wire = <<>> /\ server.writing = <<>> /\ server.stream = Nothing
    BY <1>1, <2>3, NothingComing
  <2>6. Asking(M, 0, server')
    <3>1. server.rx.head = Nothing
      BY <2>3, <2>4 DEF Owing
    <3>2. server \in Servers(M)
      BY <1>1, TypesGrow DEF M
    <3> QED BY <1>1, <1>10, <2>4, <2>5, <3>1, <3>2 DEF Asking, Idle, AnsweringTurn
  <2>7. Asking(M, 0, server)'
    BY <2>6 DEF Asking, Idle
  <2>8. ~Told(M)' /\ ~Answered(M)'
    <3>1. \A j \in DOMAIN client.got : client.got[j].of # M
      BY <1>1, GotSoFar DEF M
    <3> QED BY <1>7, <3>1 DEF Told, Answered
  <2>9. Expecting(M)' => Len(client'.wire) + Len(client'.writing) <= 1
    <3> SUFFICES ASSUME Expecting(M)' PROVE Len(client'.wire) + Len(client'.writing) <= 1
      OBVIOUS
    <3>1. Chunked(r)
      BY <1>5 DEF Expecting
    <3>2. M \in Nat \ {0}
      BY DEF M
    <3>3. Len(client'.writing) = 1
      BY <1>2, <3>1, <3>2, FirstRequestParts
    <3>4. Len(client'.wire) = 0
      BY <1>2, <2>1
    <3> QED BY <3>3, <3>4
  <2>10. Silent(M, 0)'
    BY <2>7, <2>8, <2>9 DEF Silent
  <2>11. Underway(M, m + z, 0)'
    <3>1. m + z = z /\ 0 + z = z
      BY <1>4, <2>1
    <3>2. ASSUME NEW p \in 1 .. z
          PROVE  Out(client', p) = PartOf(M, 0 + p - 1)'
      <4>1. p - 1 \in 0 .. z - 1 /\ 0 + 1 + (p - 1) = p /\ 0 + p - 1 = p - 1
        BY <1>4
      <4>2. Out(client', p) = PartIn(r, M, p - 1)
        BY <1>4, <2>1, <4>1
      <4>3. PartOf(M, p - 1)' = PartIn(r, M, p - 1)
        BY <1>5 DEF PartOf, PartIn
      <4> QED BY <4>1, <4>2, <4>3
    <3> QED BY <1>3, <1>4, <1>5, <3>1, <3>2 DEF Underway
  <2>12. AskingTurn(M, m + z)'
    <3>1. Ready(client)'
      BY <1>7 DEF Ready, NoRx
    <3>2. M > 0 /\ 0 \in Nat
      BY DEF M
    <3> QED BY <2>8, <2>10, <2>11, <3>1, <3>2 DEF AskingTurn
  <2> QED BY <1>1, <1>6, <1>7, <2>12 DEF Turn
<1> QED BY <1>8, <1>9, <1>10 DEF Turn

-----------------------------------------------------------------------------
(* Steps of the server that leave what is coming as it is.                 *)
SameReplies(N, s, t) ==
  /\ t \in Servers(N) /\ WritesWhenBusy(t)
  /\ t.rx = s.rx /\ t.owed = s.owed /\ t.stream = s.stream
  /\ t.stopped = s.stopped /\ t.undefined = s.undefined /\ t.open = s.open
  /\ Unread(t) = Unread(s) /\ Coming(t) = Coming(s)
  /\ \A p \in 1 .. Unread(s) : Reply(t, p) = Reply(s, p)

LEMMA ServerTurnStays ==
  ASSUME ExchangeTypes, NEW CONSTANT N \in Nat, NEW CONSTANT m \in Nat, At(N, m),
         Turn(N, m), server.open, client' = client, SameReplies(N, server, server')
  PROVE  At(N, m)' /\ Turn(N, m)'
<1>1. At(N, m)' /\ ClientSendsOnly(m)
  BY DEF At, ClientSendsOnly
<1>2. \A i : Answered(i)' = Answered(i)
  BY DEF Answered
<1>3. /\ server \in Servers(N) /\ Unread(server) \in Nat /\ server' \in Servers(N)
  BY AtGives, ReplyLengths DEF SameReplies
<1>4. CASE AskingTurn(N, m)
  <2>1. PICK k \in Nat : Underway(N, m, k) /\ (Silent(N, k) \/ Continued(N, k))
    BY <1>4 DEF AskingTurn
  <2>2. Underway(N, m, k)'
    BY <1>1, <2>1, UnderwayStays
  <2>3. ASSUME Silent(N, k) PROVE Silent(N, k)'
    <3>1. Asking(N, k, server)
      BY <2>3 DEF Silent
    <3>2. Coming(server) = 0
      BY <3>1 DEF Asking, Idle, Coming, Unread
    <3>3. server'.wire = <<>> /\ server'.writing = <<>>
      BY <1>3, <3>2, NothingComing DEF SameReplies
    <3>4. Asking(N, k, server')
      BY <3>1, <3>3 DEF Asking, Idle, SameReplies
    <3> QED BY <1>1, <2>3, <3>4, SilentStays
  <2>4. ASSUME Continued(N, k) PROVE Continued(N, k)'
    <3>1. Continuing(N, server) /\ Unread(server) = 1 /\ server.open
      BY <2>4 DEF Continued
    <3>2. Reply(server', 1) = Reply(server, 1)
      BY <3>1 DEF SameReplies
    <3>3. Continuing(N, server')
      BY <3>1, <3>2 DEF Continuing, SameReplies
    <3>4. server'.open /\ Unread(server') = 1
      BY <3>1 DEF SameReplies
    <3> QED BY <1>1, <2>4, <3>3, <3>4, ContinuedStays
  <2>5. N > 0 /\ Ready(client)' /\ ~Answered(N)'
    BY <1>2, <1>4 DEF AskingTurn
  <2>6. AskingTurn(N, m)'
    BY <2>1, <2>2, <2>3, <2>4, <2>5 DEF AskingTurn
  <2> QED BY <1>1, <2>6 DEF Turn
<1>5. CASE AnsweringTurn(N, m)
  <2>1. Formed(server') /\ Owing(N, server')
    BY <1>5 DEF AnsweringTurn, Formed, Owing, SameReplies
  <2>2. Expected(client, server', 0)
    <3>1. \A p \in 0 + 1 .. Unread(server) : p \in 1 .. Unread(server)
      BY <1>3
    <3> QED BY <1>5, <3>1 DEF AnsweringTurn, Expected, SameReplies
  <2>3. Formed(server)' /\ Owing(N, server)' /\ Expected(client, server, 0)'
    BY <2>1, <2>2 DEF Formed, Owing, Expected
  <2>4. AnsweringTurn(N, m)'
    BY <1>2, <1>5, <2>3 DEF AnsweringTurn, SameReplies, Ready
  <2> QED BY <1>1, <2>4 DEF Turn
<1> QED BY <1>4, <1>5 DEF Turn

LEMMA ServerWritesTurn ==
  ASSUME ExchangeTypes, NEW CONSTANT N \in Nat, NEW CONSTANT m \in Nat, At(N, m),
         Turn(N, m), ServerWrites
  PROVE  At(N, m)' /\ Turn(N, m)'
<1>1. PICK n \in 1 .. Len(server.writing) : server' = Transmit(server, n)
  BY DEF ServerWrites
<1>2. server \in Servers(N) /\ WritesWhenBusy(server) /\ server.open /\ client' = client
  BY AtGives DEF ServerWrites
<1>3. /\ server.writing \in Seq(ReplyPieces(N)) /\ server.wire \in Seq(Replies(N))
      /\ Len(server.writing) \in Nat /\ Len(server.wire) \in Nat
      /\ Unread(server) = Len(server.wire) + Len(server.writing)
  BY <1>2, ServerFields, ReplyLengths
<1>4. n \in Nat /\ n <= Len(server.writing) /\ n \in 0 .. Len(server.writing)
  BY <1>1, <1>3
<1>5. /\ server' \in Servers(N) /\ WritesWhenBusy(server') /\ server'.rx = server.rx
      /\ Unanswered(server, server')
      /\ server'.open = server.open /\ server'.undefined = server.undefined
      /\ server'.writing = SubSeq(server.writing, n + 1, Len(server.writing))
      /\ server'.wire = server.wire \o [i \in 1 .. n |-> server.writing[i].part]
  BY <1>1, <1>2, <1>4, ServerTransmit
<1>6. /\ Len(server'.writing) = Len(server.writing) - n
      /\ \A i \in 1 .. Len(server.writing) - n : server'.writing[i] = server.writing[n + i]
      /\ Len(server'.wire) = Len(server.wire) + n
      /\ \A i \in 1 .. Len(server.wire) : server'.wire[i] = server.wire[i]
      /\ \A i \in 1 .. n : server'.wire[Len(server.wire) + i] = server.writing[i].part
  <2>1. \A p \in ReplyPieces(N) : p.part \in Replies(N)
    BY DEF ReplyPieces
  <2> QED BY <1>3, <1>4, <1>5, <2>1, Leaving
<1>7. PICK a, b \in Nat : a = Len(server.wire) /\ b = Len(server.writing)
  BY <1>3
<1>8. Unread(server') = Unread(server) /\ Unread(server) = a + b
  <2>1. (a + n) + (b - n) = a + b
    BY <1>4
  <2> QED BY <1>3, <1>6, <1>7, <2>1 DEF Unread
<1>9. ASSUME NEW p \in 1 .. a + b
      PROVE  Reply(server', p) = Reply(server, p)
  <2>1. p \in Nat /\ p > 0 /\ n \in Nat /\ n <= b
    BY <1>4, <1>7
  <2>2. Reply(server', p) = IF p <= a + n THEN server'.wire[p]
                            ELSE server'.writing[p - (a + n)].part
    BY <1>6, <1>7 DEF Reply
  <2>3. Reply(server, p) = IF p <= a THEN server.wire[p] ELSE server.writing[p - a].part
    BY <1>7 DEF Reply
  <2>4. CASE p <= a
    <3>1. p \in 1 .. a /\ p <= a + n
      BY <2>1, <2>4
    <3> QED BY <1>6, <1>7, <2>2, <2>3, <2>4, <3>1
  <2>5. CASE ~(p <= a) /\ p <= a + n
    <3>1. p - a \in 1 .. n /\ a + (p - a) = p
      BY <2>1, <2>5
    <3>2. server'.wire[a + (p - a)] = server.writing[p - a].part
      BY <1>6, <1>7, <3>1
    <3> QED BY <2>2, <2>3, <2>5, <3>1, <3>2
  <2>6. CASE ~(p <= a + n)
    <3>1. p - (a + n) \in 1 .. b - n /\ n + (p - (a + n)) = p - a /\ ~(p <= a)
      BY <2>1, <2>6
    <3>2. server'.writing[p - (a + n)] = server.writing[n + (p - (a + n))]
      BY <1>6, <1>7, <3>1
    <3> QED BY <2>2, <2>3, <2>6, <3>1, <3>2
  <2> QED BY <2>4, <2>5, <2>6
<1>10. Coming(server') = Coming(server)
  BY <1>5, <1>8 DEF Coming, Unanswered
<1>11. SameReplies(N, server, server')
  BY <1>5, <1>8, <1>9, <1>10 DEF SameReplies, Unanswered
<1> QED BY <1>2, <1>11, ServerTurnStays

(* A chunk of the stream, or its end, is sent when all before it has left. *)
Streams(N, s, t, x) ==
  /\ x \in ReplyPieces(N) /\ x.part.is \in {"chunk", "last"}
  /\ t \in Servers(N) /\ WritesWhenBusy(t)
  /\ s.writing = <<>> /\ t.writing = <<x>> /\ t.wire = s.wire
  /\ t.rx = s.rx /\ t.owed = s.owed
  /\ t.stopped = s.stopped /\ t.undefined = s.undefined /\ t.open = s.open
  /\ Coming(t) = Coming(s)
  /\ x.part.is = "last" => t.stream = Nothing

LEMMA StreamingTurn ==
  ASSUME ExchangeTypes, NEW CONSTANT N \in Nat, NEW CONSTANT m \in Nat, At(N, m),
         AnsweringTurn(N, m), client' = client,
         NEW x, Streams(N, server, server', x)
  PROVE  AnsweringTurn(N, m)'
<1>1. server \in Servers(N) /\ Len(server.wire) \in Nat /\ Unread(server) \in Nat
  BY AtGives, ReplyLengths
<1>2. PICK a \in Nat : a = Len(server.wire)
  BY <1>1
<1>3. Unread(server) = a /\ Unread(server') = a + 1
  <2>1. Len(server.writing) = 0 /\ Len(server'.writing) = 1 /\ server'.wire = server.wire
    BY DEF Streams
  <2> QED BY <1>2, <2>1 DEF Unread
<1>4. \A p \in 1 .. a : Reply(server', p) = Reply(server, p)
  BY <1>2 DEF Reply, Streams
<1>5. Reply(server', a + 1) = x.part
  <2>1. server'.writing[1] = x /\ server'.wire = server.wire
    BY DEF Streams
  <2>2. ~(a + 1 <= a) /\ (a + 1) - a = 1
    OBVIOUS
  <2> QED BY <1>2, <2>1, <2>2 DEF Reply
<1>6. \A p \in 1 .. a + 1 : p \in 1 .. a \/ p = a + 1
  OBVIOUS
<1>7. x.part.is # "head" /\ (x.part.is = "last" => Coming(server') = a + 1)
  <2>1. server'.stream = Nothing => Coming(server') = a + 1
    BY <1>3 DEF Coming
  <2> QED BY <2>1 DEF Streams
<1>8. Formed(server')
  <2>1. ASSUME NEW p \in 1 .. a
        PROVE  EndsAt(Reply(server', p), p, Coming(server'))
    BY <1>3, <1>4 DEF AnsweringTurn, Formed, Streams
  <2>2. EndsAt(x.part, a + 1, Coming(server'))
    BY <1>7 DEF EndsAt
  <2> QED BY <1>3, <1>5, <1>6, <2>1, <2>2 DEF Formed
<1>9. Owing(N, server')
  BY DEF AnsweringTurn, Owing, Streams
<1>10. Expected(client, server', 0)
  <2>1. /\ 0 + 1 .. Unread(server) = 1 .. a /\ 0 + 1 .. Unread(server') = 1 .. a + 1
    BY <1>3
  <2> QED BY <1>3, <1>4, <1>5, <1>6, <1>7, <2>1 DEF AnsweringTurn, Expected, Streams
<1>11. Formed(server)' /\ Owing(N, server)' /\ Expected(client, server, 0)'
  BY <1>8, <1>9, <1>10 DEF Formed, Owing, Expected
<1>12. \A i : Answered(i)' = Answered(i)
  BY DEF Answered
<1> QED BY <1>11, <1>12 DEF AnsweringTurn, Streams, Ready

LEMMA ServerSentTurn ==
  ASSUME ExchangeTypes, NEW CONSTANT N \in Nat, NEW CONSTANT m \in Nat, At(N, m),
         Turn(N, m), ServerSent
  PROVE  At(N, m)' /\ Turn(N, m)'
<1> DEFINE s == [server EXCEPT !.busy = FALSE]
           i == server.stream
<1>1. /\ server \in Servers(N) /\ i \in 0 .. N /\ server.open /\ client' = client
      /\ server.writing = <<>> /\ server.left \in Nat
  BY AtGives, ServerFields DEF ServerSent, Written
<1>2. /\ s \in Servers(N) /\ s.busy = FALSE /\ s.writing = <<>> /\ s.stream = i
      /\ s.wire = server.wire /\ s.rx = server.rx /\ s.owed = server.owed
      /\ s.stopped = server.stopped /\ s.undefined = server.undefined
      /\ s.open = server.open /\ s.left = server.left
  BY <1>1 DEF Servers
<1>3. server' = IF i = Nothing THEN s
                ELSE IF s.left > 0 THEN SendChunk(s, i) ELSE SendLastChunk(s, i)
  BY <1>2 DEF ServerSent
<1> HIDE DEF s
<1>4. CASE i = Nothing
  <2>1. Unread(s) = Unread(server)
    BY <1>1, <1>2 DEF Unread
  <2>2. Coming(s) = Coming(server)
    BY <1>2, <2>1 DEF Coming
  <2>3. \A p : Reply(s, p) = Reply(server, p)
    BY <1>1, <1>2 DEF Reply
  <2>4. SameReplies(N, server, server')
    BY <1>2, <1>3, <1>4, <2>1, <2>2, <2>3 DEF SameReplies, WritesWhenBusy
  <2> QED BY <1>1, <2>4, ServerTurnStays
<1>5. CASE i # Nothing
  <2>1. AnsweringTurn(N, m)
    BY <1>1, <1>5 DEF Turn, AskingTurn, Silent, Asking, Continued, Continuing
  <2>2. Unread(server) = Len(server.wire) /\ Len(server.wire) \in Nat
    <3>1. /\ Unread(server) = Len(server.wire) + Len(server.writing)
          /\ Len(server.wire) \in Nat /\ Len(server.writing) = 0
      BY <1>1, ReplyLengths
    <3> QED BY <3>1
  <2>3. Coming(server) = Len(server.wire) + (server.left + 1)
    BY <1>5, <2>2 DEF Coming
  <2>4. Chunk(i) \in ReplyPieces(N) /\ LastChunk(i) \in ReplyPieces(N)
    BY <1>1, ReplyPieceTypes
  <2>5. CASE s.left > 0
    <3> DEFINE x == Chunk(i)
               l == s.left - 1
               t == [s EXCEPT !.busy = TRUE, !.writing = <<x>>, !.left = l]
    <3>1. x \in ReplyPieces(N) /\ x.part.is = "chunk"
      BY <2>4 DEF Chunk, Buffered, Part
    <3>2. l \in Nat /\ l + 1 = server.left
      BY <1>1, <1>2, <2>5
    <3>3. server' = t
      BY <1>2, <1>3, <1>5, <2>5 DEF SendChunk, SendData, Servers
    <3> HIDE DEF x, l
    <3>8. <<x>> \in Seq(ReplyPieces(N))
      BY <3>1
    <3>4. /\ t \in Servers(N) /\ t.busy = TRUE /\ t.writing = <<x>> /\ t.left = l
          /\ t.stream = i /\ t.wire = server.wire /\ t.rx = server.rx
          /\ t.owed = server.owed /\ t.stopped = server.stopped
          /\ t.undefined = server.undefined /\ t.open = server.open
      BY <1>2, <3>2, <3>8 DEF Servers
    <3> HIDE DEF t
    <3>5. Coming(t) = Coming(server)
      <4>1. Unread(t) = Len(server.wire) + 1
        BY <3>4 DEF Unread
      <4>2. Coming(t) = (Len(server.wire) + 1) + (l + 1)
        BY <1>5, <3>4, <4>1 DEF Coming
      <4>3. \A a, b \in Nat : (a + 1) + b = a + (b + 1)
        OBVIOUS
      <4> QED BY <1>1, <2>2, <2>3, <3>2, <4>2, <4>3
    <3>6. Streams(N, server, server', x)
      BY <1>1, <3>1, <3>3, <3>4, <3>5 DEF Streams, WritesWhenBusy
    <3>7. AnsweringTurn(N, m)'
      BY <1>1, <2>1, <3>6, StreamingTurn
    <3> QED BY <1>1, <3>7 DEF Turn, At
  <2>6. CASE ~(s.left > 0)
    <3> DEFINE x == LastChunk(i)
               t == [s EXCEPT !.busy = TRUE, !.writing = <<x>>, !.stream = Nothing]
    <3>1. x \in ReplyPieces(N) /\ x.part.is = "last"
      BY <2>4 DEF LastChunk, InHeader, Buffered, Part
    <3>2. server.left = 0 /\ Nothing \in 0 .. N
      BY <1>1, <1>2, <2>6 DEF Nothing
    <3>3. server' = t
      BY <1>2, <1>3, <1>5, <2>6 DEF SendLastChunk, SendData, Servers
    <3> HIDE DEF x
    <3>8. <<x>> \in Seq(ReplyPieces(N))
      BY <3>1
    <3>4. /\ t \in Servers(N) /\ t.busy = TRUE /\ t.writing = <<x>>
          /\ t.stream = Nothing /\ t.wire = server.wire /\ t.rx = server.rx
          /\ t.owed = server.owed /\ t.stopped = server.stopped
          /\ t.undefined = server.undefined /\ t.open = server.open
      BY <1>2, <3>2, <3>8 DEF Servers
    <3> HIDE DEF t
    <3>5. Coming(t) = Coming(server)
      <4>1. Unread(t) = Len(server.wire) + 1
        BY <3>4 DEF Unread
      <4>2. Coming(t) = Len(server.wire) + 1
        BY <2>2, <3>4, <4>1 DEF Coming
      <4>3. server.left + 1 = 1
        BY <3>2
      <4> QED BY <2>3, <4>2, <4>3
    <3>6. Streams(N, server, server', x)
      BY <1>1, <3>1, <3>3, <3>4, <3>5 DEF Streams, WritesWhenBusy
    <3>7. AnsweringTurn(N, m)'
      BY <1>1, <2>1, <3>6, StreamingTurn
    <3> QED BY <1>1, <3>7 DEF Turn, At
  <2> QED BY <2>5, <2>6
<1> QED BY <1>4, <1>5

(* The server has read everything, and its answer is the one awaited.      *)
LEMMA FinishedTurn ==
  ASSUME NEW CONSTANT N \in Nat, N > 0, ~Answered(N), Ready(client'),
         client'.asked = client.asked, client'.got = client.got,
         Finished(N, server')
  PROVE  Turn(N, 0)'
<1>1. /\ \A i : Asked(i)' = Asked(i)
      /\ \A i : Answered(i)' = Answered(i)
  BY SameRequests
<1>2. CASE ~server'.open
  <2>1. Cut(N, server)'
    BY <1>1, <1>2 DEF Finished, Cut
  <2> QED BY <1>2, <2>1 DEF Turn
<1>3. CASE server'.open
  <2>1. Formed(server') /\ Begins(server') /\ Owing(N, server')
    BY <1>3 DEF Finished
  <2>2. Expected(client', server', 0)
    <3>1. server' \in Servers(N) /\ Unread(server') \in Nat
      BY ReplyLengths DEF Finished
    <3>2. 0 + 1 .. Unread(server') = 1 .. Unread(server')
      OBVIOUS
    <3>3. \A p \in 0 + 1 .. Unread(server') : Reply(server', p).is = "head" => p = 0 + 1
      BY <2>1, <3>2 DEF Begins
    <3> QED BY <3>3 DEF Expected, Ready
  <2>3. Formed(server)' /\ Owing(N, server)' /\ Expected(client, server, 0)'
    BY <2>1, <2>2 DEF Formed, Owing, Expected
  <2>4. AnsweringTurn(N, 0)'
    BY <1>1, <1>3, <2>3 DEF AnsweringTurn, Finished, Ready
  <2> QED BY <2>4 DEF Turn
<1> QED BY <1>2, <1>3

LEMMA AnswerLateTurn ==
  ASSUME ExchangeTypes, NEW CONSTANT N \in Nat, NEW CONSTANT m \in Nat, At(N, m),
         Turn(N, m), AnswerLate
  PROVE  At(N, m)' /\ Turn(N, m)'
<1>1. /\ server \in Servers(N) /\ WritesWhenBusy(server) /\ Given(N) /\ server.open
      /\ ~server.undefined /\ server.owed # <<>> /\ client' = client
  BY AtGives DEF AnswerLate
<1>2. AnsweringTurn(N, m)
  BY <1>1 DEF Turn, AskingTurn, Silent, Asking, Continued, Continuing
<1>3. /\ m = 0 /\ server.owed = <<N>> /\ Coming(server) = 0 /\ ~server.stopped
      /\ Ready(client) /\ ~Answered(N)
      /\ server.rx.head \in {Nothing, N}
  BY <1>1, <1>2 DEF AnsweringTurn, Owing
<1>4. N \in 1 .. N
  <2>1. server.owed \in Seq(1 .. N)
    BY <1>1, ServerFields
  <2>2. 1 \in DOMAIN <<N>> /\ <<N>>[1] = N
    OBVIOUS
  <2>3. \A S : \A q \in Seq(S) : \A j \in DOMAIN q : q[j] \in S
    OBVIOUS
  <2> QED BY <1>3, <2>1, <2>2, <2>3
<1>5. Head(server.owed) = N /\ Tail(server.owed) = <<>>
  BY <1>3
<1> DEFINE answer == LateAnswer(N)
<1>6. PICK taken \in 0 .. 2 :
        server' = [SendResponse(server, N, answer, taken) EXCEPT !.owed = Tail(@)]
  BY <1>5 DEF AnswerLate
<1>7. answer \in Answers /\ taken \in Nat
  <2>1. Asked(N) \in Requests
    BY <1>1, <1>4, GivenRequests
  <2> QED BY <1>1, <2>1, LateAnswerIsAnAnswer DEF Given
<1> DEFINE u == SendResponse(server, N, answer, taken)
           t == [u EXCEPT !.owed = Tail(@)]
<1> HIDE DEF answer
<1>8. Idle(N, server)
  <2>1. server.wire = <<>> /\ server.writing = <<>>
    BY <1>1, <1>3, NothingComing
  <2> QED BY <1>1, <2>1 DEF Idle
<1>9. /\ u.rx = NoRx
      /\ \E msg \in Seq(ReplyPieces(N)) : Short(msg) /\ Replied(N, server, msg, u)
  BY <1>3, <1>4, <1>7, <1>8, IdleResponds
<1>10. PICK msg \in Seq(ReplyPieces(N)) : Short(msg) /\ Replied(N, server, msg, u)
  BY <1>9
<1>11. server' = t
  BY <1>6
<1> HIDE DEF u
<1>12. /\ u \in Servers(N) /\ WritesWhenBusy(u) /\ u.owed = server.owed
       /\ u.stream = server.stream /\ u.stopped = server.stopped
  BY <1>10 DEF Replied, Unanswered
<1>13. t = [u EXCEPT !.owed = <<>>]
  BY <1>5, <1>12
<1>14. /\ t \in Servers(N) /\ t.rx = NoRx /\ t.owed = <<>> /\ t.busy = u.busy
       /\ t.stream = u.stream /\ t.stopped = u.stopped /\ t.undefined = u.undefined
       /\ t.open = u.open /\ t.wire = u.wire /\ t.writing = u.writing
       /\ t.told = u.told /\ t.left = u.left
  <2>1. <<>> \in Seq(1 .. N)
    OBVIOUS
  <2> QED BY <1>9, <1>12, <1>13, <2>1 DEF Servers
<1> HIDE DEF t
<1> DEFINE v == [server EXCEPT !.owed = <<>>]
<1>15. /\ v.owed = <<>> /\ v.stream = server.stream /\ v.stopped = server.stopped
       /\ v.told = server.told /\ v.left = server.left
  BY <1>1 DEF Servers
<1> HIDE DEF v
<1>16. Replied(N, v, msg, t)
  BY <1>10, <1>14, <1>15 DEF Replied, Unanswered, WritesWhenBusy, Cut
<1>17. server.stream = Nothing
  BY <1>1, <1>3, NothingComing
<1>18. Finished(N, t)
  BY <1>3, <1>10, <1>12, <1>14, <1>16, <1>17, ShortReplyFinishes
<1>19. Turn(N, 0)'
  BY <1>1, <1>3, <1>4, <1>11, <1>18, FinishedTurn
<1> QED BY <1>1, <1>3, <1>19 DEF At

-----------------------------------------------------------------------------
(* The server reads n parts.  It is as After says when it has taken j of   *)
(* them, when it had read k before and m were to come.                     *)
After(N, k, m, j, s) ==
  IF j = m THEN Ended(N, s)
  ELSE IF j = 1 /\ k = 0 /\ Expecting(N) THEN Continuing(N, s)
  ELSE Asking(N, k + j, s)

LEMMA AfterOneMore ==
  ASSUME NEW N, Given(N), N \in 1 .. N, NEW k \in Nat, NEW m \in Nat,
         k + m = Size(Asked(N)), NEW j \in Nat, j > 0, j <= m,
         k = 0 /\ Expecting(N) => j = 1,
         NEW s, After(N, k, m, j - 1, s), NEW part, part = PartOf(N, k + j - 1),
         NEW taken \in Nat
  PROVE  After(N, k, m, j, ServerTakes(s, part, taken))
<1>1. PICK l \in Nat : l = k + j - 1
  OBVIOUS
<1>2. /\ k + (j - 1) = l /\ l + 1 = k + j /\ j - 1 # m
      /\ j - 1 = 1 => ~(k = 0 /\ Expecting(N))
      /\ l = 0 <=> k = 0 /\ j = 1
  BY <1>1
<1>3. l \in 0 .. Size(Asked(N)) - 1 /\ (l + 1 < Size(Asked(N)) <=> j # m)
  <2>1. PICK z : z = Size(Asked(N))
    OBVIOUS
  <2>2. k + m = z
    BY <2>1
  <2>3. l \in 0 .. z - 1 /\ (l + 1 < z <=> j # m)
    BY <1>1, <2>2
  <2> QED BY <2>1, <2>3
<1>4. Asking(N, l, s)
  BY <1>2 DEF After
<1> DEFINE t == ServerTakes(s, PartOf(N, l), taken)
<1>5. /\ j # m /\ ~(l = 0 /\ Expecting(N)) => Asking(N, l + 1, t)
      /\ j # m /\ l = 0 /\ Expecting(N) => Continuing(N, t)
      /\ j = m => Ended(N, t)
  BY <1>3, <1>4, AskingTakesOne
<1> HIDE DEF t
<1>6. After(N, k, m, j, t)
  <2>1. CASE j = m
    BY <1>5, <2>1 DEF After
  <2>2. CASE j # m /\ j = 1 /\ k = 0 /\ Expecting(N)
    BY <1>2, <1>5, <2>2 DEF After
  <2>3. CASE j # m /\ ~(j = 1 /\ k = 0 /\ Expecting(N))
    <3>1. ~(l = 0 /\ Expecting(N))
      BY <1>2, <2>3
    <3>2. Asking(N, k + j, t)
      BY <1>2, <1>5, <2>3, <3>1
    <3> QED BY <2>3, <3>2 DEF After
  <2> QED BY <2>1, <2>2, <2>3
<1> QED BY <1>1, <1>6 DEF t

LEMMA ReadsTheRequest ==
  ASSUME ExchangeTypes, NEW CONSTANT N \in Nat, NEW CONSTANT m \in Nat, At(N, m), N > 0,
         NEW CONSTANT k \in Nat, Underway(N, m, k), Silent(N, k),
         NEW CONSTANT n, n \in 1 .. Len(client.wire), server' \in ServerReading(n)
  PROVE  After(N, k, m, n, server')
<1>1. /\ Given(N) /\ N \in 1 .. N /\ client \in Clients(N)
      /\ Len(client.wire) \in Nat /\ Len(client.writing) \in Nat
      /\ Len(client.wire) <= m
  <2>1. N \in 1 .. N
    OBVIOUS
  <2>2. /\ Given(N) /\ client \in Clients(N)
        /\ Len(client.wire) \in Nat /\ Len(client.writing) \in Nat
    BY AtGives
  <2>3. Len(client.wire) <= m
    BY TypesGiveGiven DEF At
  <2> QED BY <2>1, <2>2, <2>3
<1>2. n \in Nat /\ n <= Len(client.wire) /\ n <= m
  <2>1. \A a \in Nat : n \in 1 .. a /\ a <= m => n \in Nat /\ n <= a /\ n <= m
    OBVIOUS
  <2> QED BY <1>1, <2>1
<1>3. k = 0 /\ Expecting(N) => n = 1
  <2>1. \A a, b \in Nat : n \in 1 .. a /\ a + b <= 1 => n = 1
    OBVIOUS
  <2> QED BY <1>1, <2>1 DEF Silent
<1> DEFINE holds == [j \in 0 .. n |-> {s \in Servers(N) : After(N, k, m, j, s)}]
<1>4. \A j \in 0 .. n : holds[j] = {s \in Servers(N) : After(N, k, m, j, s)}
  OBVIOUS
<1> HIDE DEF holds
<1>5. server \in holds[0]
  <2>1. 0 # m /\ k + 0 = k /\ 0 \in 0 .. n /\ 0 # 1
    BY <1>2 DEF Underway
  <2>2. After(N, k, m, 0, server)
    BY <2>1 DEF After, Silent
  <2>3. server \in Servers(N)
    BY AtGives
  <2> QED BY <1>4, <2>1, <2>2, <2>3
<1>6. ASSUME NEW j \in 1 .. n, NEW s \in holds[j - 1], NEW taken \in 0 .. 2
      PROVE  ServerTakes(s, client.wire[j], taken) \in holds[j]
  <2>1. /\ j \in Nat /\ j > 0 /\ j <= m /\ j <= n /\ j \in 0 .. n /\ j - 1 \in 0 .. n
        /\ j <= Len(client.wire) /\ j \in 1 .. m
    <3>1. \A a \in Nat : n <= a => j <= a
      BY <1>2
    <3>2. j <= m /\ j <= Len(client.wire)
      BY <1>1, <1>2, <3>1
    <3> QED BY <1>2, <3>2
  <2>2. After(N, k, m, j - 1, s)
    BY <1>4, <2>1
  <2>3. client.wire[j] = PartOf(N, k + j - 1)
    <3>1. Out(client, j) = client.wire[j]
      BY <2>1 DEF Out
    <3> QED BY <2>1, <3>1 DEF Underway
  <2>4. k = 0 /\ Expecting(N) => j = 1
    BY <1>3, <2>1
  <2>5. k + m = Size(Asked(N)) /\ taken \in Nat
    BY DEF Underway
  <2> DEFINE t == ServerTakes(s, client.wire[j], taken)
  <2>6. After(N, k, m, j, t)
    BY <1>1, <2>1, <2>2, <2>3, <2>4, <2>5, AfterOneMore
  <2> HIDE DEF t
  <2>7. t \in Servers(N)
    BY <2>6 DEF After, Ended, Finished, Continuing, Asking, Idle
  <2> QED BY <1>4, <2>1, <2>6, <2>7 DEF t
<1>7. ServerReading(n) \subseteq holds[n]
  BY <1>2, <1>5, <1>6, ServerReadingLeadsTo
<1>8. n \in 0 .. n
  BY <1>2
<1> QED BY <1>4, <1>7, <1>8

LEMMA ServerReadsTurn ==
  ASSUME ExchangeTypes, NEW CONSTANT N \in Nat, NEW CONSTANT m \in Nat, At(N, m),
         Turn(N, m), ServerReads
  PROVE  /\ client'.undefined = client.undefined
         /\ Abandoned(server') \/ \E q \in Nat : At(N, q)' /\ Turn(N, q)'
<1>1. PICK n \in 1 .. Len(client.wire) :
        /\ server' \in ServerReading(n)
        /\ client' = [client EXCEPT !.wire = SubSeq(@, n + 1, Len(@))]
  BY DEF ServerReads
<1>2. server.open
  BY DEF ServerReads, ServerMayRead
<1>3. client.wire # <<>>
  BY DEF ServerReads, ServerMayRead
<1>4. AskingTurn(N, m)
  BY <1>2, <1>3, NothingOutstanding DEF Turn, AnsweringTurn
<1>5. PICK k \in Nat : Underway(N, m, k) /\ (Silent(N, k) \/ Continued(N, k))
  BY <1>4 DEF AskingTurn
<1>6. Silent(N, k) /\ N > 0 /\ Ready(client) /\ ~Answered(N)
  BY <1>3, <1>4, <1>5 DEF Continued, AskingTurn
<1>7. /\ n \in Nat /\ n > 0 /\ n <= m /\ Outstanding(client') = m - n
      /\ \A p \in 1 .. m - n : Out(client', p) = Out(client, p + n)
      /\ client'.asked = client.asked /\ client'.got = client.got
      /\ client'.rx = client.rx /\ client'.undefined = client.undefined
      /\ client'.stopped = client.stopped /\ client'.writing = client.writing
      /\ Len(client'.wire) = Len(client.wire) - n
  <2>1. m = Outstanding(client) /\ Len(client.wire) \in Nat
    BY AtGives DEF At
  <2>2. n > 0
    BY <1>1, <2>1
  <2> QED BY <1>1, <2>1, <2>2, ReadShiftsOutput
<1>8. After(N, k, m, n, server')
  BY <1>1, <1>5, <1>6, ReadsTheRequest
<1>9. At(N, m - n)' /\ m - n \in Nat
  BY <1>7 DEF At
<1>10. /\ \A i : Asked(i)' = Asked(i)
       /\ \A i : Told(i)' = Told(i) /\ Answered(i)' = Answered(i)
       /\ \A i, l : PartOf(i, l)' = PartOf(i, l)
       /\ \A i : Expecting(i)' = Expecting(i)
  BY <1>7, SameRequests
<1>11. Ready(client') /\ Ready(client)'
  BY <1>6, <1>7 DEF Ready
<1>12. CASE n = m
  <2>1. Ended(N, server') /\ m - n = 0
    BY <1>7, <1>8, <1>12 DEF After
  <2>2. CASE Finished(N, server')
    <3>1. Turn(N, 0)'
      BY <1>6, <1>7, <1>11, <2>2, FinishedTurn
    <3> QED BY <1>7, <1>9, <2>1, <3>1
  <2>3. CASE Abandoned(server')
    BY <1>7, <2>3
  <2> QED BY <2>1, <2>2, <2>3 DEF Ended
<1>13. CASE n # m
  <2>1. Underway(N, m - n, k + n)'
    <3>1. m - n > 0 /\ (k + n) + (m - n) = k + m
      BY <1>7, <1>13
    <3>2. (k + n) + (m - n) = Size(Asked(N))'
      BY <1>5, <1>10, <3>1 DEF Underway
    <3>3. ASSUME NEW p \in 1 .. m - n
          PROVE  Out(client', p) = PartOf(N, (k + n) + p - 1)'
      <4>1. p + n \in 1 .. m /\ k + (p + n) - 1 = (k + n) + p - 1
        BY <1>7
      <4>2. Out(client, p + n) = PartOf(N, k + (p + n) - 1)
        BY <1>5, <4>1 DEF Underway
      <4> QED BY <1>7, <1>10, <4>1, <4>2
    <3> QED BY <3>1, <3>2, <3>3 DEF Underway
  <2>2. CASE n = 1 /\ k = 0 /\ Expecting(N)
    <3>1. Continuing(N, server') /\ ~Told(N) /\ k + n = 1
      BY <1>6, <1>8, <1>13, <2>2 DEF After, Silent
    <3>2. CASE ~server'.open
      <4>1. Cut(N, server)'
        BY <1>10, <3>1, <3>2 DEF Continuing, Cut
      <4> QED BY <1>7, <1>9, <3>2, <4>1 DEF Turn
    <3>3. CASE server'.open /\ Unread(server') = 1
      <4>1. client'.wire = <<>> /\ client'.writing = <<>>
        <5>1. Len(client.wire) + Len(client.writing) <= 1
          BY <1>6, <2>2 DEF Silent
        <5>2. /\ Len(client.wire) \in Nat /\ Len(client.writing) \in Nat
              /\ client \in Clients(N)
          BY AtGives
        <5>3. \A a, b \in Nat : a + b <= 1 /\ n \in 1 .. a => a - n = 0 /\ b = 0
          BY <2>2
        <5>4. Len(client'.wire) = 0 /\ Len(client'.writing) = 0
          BY <1>1, <1>7, <5>1, <5>2, <5>3
        <5>5. client.writing \in Seq(AskPieces(N)) /\ client.wire \in Seq(Asks(N))
          BY <5>2, ClientFields
        <5>6. client'.wire \in Seq(Asks(N))
          <6>1. client'.wire = SubSeq(client.wire, n + 1, Len(client.wire))
            BY <1>1, <5>2 DEF Clients
          <6> QED BY <1>1, <5>5, <6>1, RestIsTyped
        <5> QED BY <1>7, <5>4, <5>5, <5>6, EmptySeq
      <4>2. Continuing(N, server)'
        BY <1>10, <3>1 DEF Continuing, Cut
      <4>3. Continued(N, k + n)'
        BY <1>10, <2>2, <3>1, <3>3, <4>1, <4>2 DEF Continued
      <4>4. AskingTurn(N, m - n)'
        BY <1>6, <1>7, <1>10, <1>11, <2>1, <4>3 DEF AskingTurn
      <4> QED BY <1>7, <1>9, <4>4 DEF Turn
    <3>4. CASE server'.open /\ Unread(server') = 0
      <4>1. Coming(server') = 0
        BY <3>1, <3>4 DEF Continuing, Coming
      <4>2. server'.wire = <<>> /\ server'.writing = <<>>
        BY <3>1, <4>1, NothingComing DEF Continuing
      <4>3. Asking(N, 1, server')
        BY <3>1, <3>4, <4>2 DEF Asking, Idle, Continuing, HeadOnly
      <4>4. Silent(N, k + n)'
        <5>1. Silent(N, 1)'
          BY <4>3 DEF Silent, Asking, Idle
        <5> QED BY <3>1, <5>1
      <4>5. AskingTurn(N, m - n)'
        BY <1>6, <1>7, <1>10, <1>11, <2>1, <4>4 DEF AskingTurn
      <4> QED BY <1>7, <1>9, <4>5 DEF Turn
    <3> QED BY <3>1, <3>2, <3>3, <3>4 DEF Continuing
  <2>3. CASE ~(n = 1 /\ k = 0 /\ Expecting(N))
    <3>1. Asking(N, k + n, server') /\ k + n # 0
      BY <1>7, <1>8, <1>13, <2>3 DEF After
    <3>2. Silent(N, k + n)'
      BY <3>1 DEF Silent, Asking, Idle
    <3>3. AskingTurn(N, m - n)'
      BY <1>6, <1>7, <1>10, <1>11, <2>1, <3>2 DEF AskingTurn
    <3> QED BY <1>7, <1>9, <3>3 DEF Turn
  <2> QED BY <2>2, <2>3
<1> QED BY <1>12, <1>13

-----------------------------------------------------------------------------
(* The client reads.  What it makes of a part: it stops, it takes it for a *)
(* head or for what follows one, or it has been told a response.           *)
Takes(c, part, d) ==
  LET follows == c.rx.answer.follow
  IN  \/ d.stopped /\ d.got = c.got
      \/ ~c.stopped /\ follows = "head" /\ part.is = "head" /\ part.follow = "nothing"
           /\ d.rx.answer.follow = "head"
           /\ \E whole \in BOOLEAN :
                d.got = Append(c.got, [of |-> part.of, answer |-> part.answer, whole |-> whole])
      \/ ~c.stopped /\ follows = "head" /\ part.is = "head" /\ d.rx.answer = part
           /\ part.follow # "nothing" /\ d.got = c.got
      \/ ~c.stopped /\ follows = "chunks" /\ part.is = "chunk" /\ d.rx.answer = c.rx.answer
           /\ d.got = c.got
      \/ ~c.stopped /\ (follows = "body" \/ (follows = "chunks" /\ part.is = "last"))
           /\ d.rx.answer.follow = "head"

LEMMA ClientTakesSo ==
  ASSUME NEW N \in Nat, NEW c \in Clients(N), NEW part \in Replies(N),
         NEW more \in BOOLEAN
  PROVE  LET d == ClientTakes(c, part, more)
         IN  ReadOn(N, c, d) /\ d.undefined = c.undefined /\ Takes(c, part, d)
<1> DEFINE h == c.rx.answer
           d == ClientTakes(c, part, more)
           stopped == [c EXCEPT !.stopped = TRUE]
           begun == [c EXCEPT !.rx.answer = part]
           further == [c EXCEPT !.rx.data = @ + 1]
           invalid == [ClearRx(c) EXCEPT !.stopped = TRUE]
           body == Delivered(c, h, part = Part("body", h.of))
           last == Delivered(c, h, part.of = h.of /\ c.rx.data = StreamLength)
           told == Delivered(c, part, TRUE)
<1>1. ReadOn(N, c, d)
  BY ClientTakesOne
<1>2. c.rx \in Awaited(N)
  BY ClientFields
<1>3. /\ stopped.stopped /\ stopped.got = c.got /\ stopped.undefined = c.undefined
      /\ invalid.stopped /\ invalid.got = c.got /\ invalid.undefined = c.undefined
  BY DEF Clients, ClearRx
<1>4. /\ begun.rx.answer = part /\ begun.got = c.got /\ begun.undefined = c.undefined
      /\ further.rx.answer = h /\ further.got = c.got /\ further.undefined = c.undefined
  BY <1>2 DEF Clients, Awaited
<1>5. NoRx.answer.follow = "head"
  BY DEF NoRx
<1>6. \A head, whole :
        LET t == Delivered(c, head, whole)
        IN  /\ t.rx = NoRx /\ t.undefined = c.undefined
            /\ t.got = Append(c.got, [of |-> head.of, answer |-> head.answer, whole |-> whole])
  BY DEF Delivered, Clients
<1>7. body.rx = NoRx /\ body.undefined = c.undefined
  BY <1>6
<1>8. last.rx = NoRx /\ last.undefined = c.undefined
  BY <1>6
<1>9. /\ told.rx = NoRx /\ told.undefined = c.undefined
      /\ told.got = Append(c.got, [of |-> part.of, answer |-> part.answer, whole |-> TRUE])
  BY <1>6
<1> HIDE DEF stopped, begun, further, invalid, body, last, told
<1>10. \/ c.stopped /\ d = c
       \/ d \in {stopped, invalid}
       \/ ~c.stopped /\ h.follow = "head" /\ part.is = "head" /\ part.follow = "nothing" /\ d = told
       \/ ~c.stopped /\ h.follow = "head" /\ part.is = "head" /\ part.follow # "nothing" /\ d = begun
       \/ ~c.stopped /\ h.follow = "chunks" /\ part.is = "chunk" /\ d = further
       \/ ~c.stopped /\ h.follow = "body" /\ d = body
       \/ ~c.stopped /\ h.follow = "chunks" /\ part.is = "last" /\ d = last
  BY DEF ClientTakes, InvalidResponse, stopped, begun, further, invalid, body, last, told
<1> HIDE DEF d
<1>11. d.undefined = c.undefined
  BY <1>3, <1>4, <1>7, <1>8, <1>9, <1>10
<1>12. ASSUME c.stopped /\ d = c
       PROVE  Takes(c, part, d)
  BY <1>12 DEF Takes
<1>13. ASSUME d \in {stopped, invalid}
       PROVE  Takes(c, part, d)
  BY <1>3, <1>13 DEF Takes
<1>14. ASSUME ~c.stopped /\ h.follow = "head" /\ part.is = "head" /\ part.follow = "nothing" /\ d = told
       PROVE  Takes(c, part, d)
  <2>1. TRUE \in BOOLEAN
    OBVIOUS
  <2> QED BY <1>5, <1>9, <1>14, <2>1 DEF Takes
<1>15. ASSUME ~c.stopped /\ h.follow = "head" /\ part.is = "head" /\ part.follow # "nothing" /\ d = begun
       PROVE  Takes(c, part, d)
  BY <1>4, <1>15 DEF Takes
<1>16. ASSUME ~c.stopped /\ h.follow = "chunks" /\ part.is = "chunk" /\ d = further
       PROVE  Takes(c, part, d)
  BY <1>4, <1>16 DEF Takes
<1>17. ASSUME ~c.stopped /\ h.follow = "body" /\ d = body
       PROVE  Takes(c, part, d)
  <2>1. d.rx.answer.follow = "head"
    BY <1>5, <1>7, <1>17
  <2> QED BY <1>17, <2>1 DEF Takes
<1>18. ASSUME ~c.stopped /\ h.follow = "chunks" /\ part.is = "last" /\ d = last
       PROVE  Takes(c, part, d)
  BY <1>5, <1>8, <1>18 DEF Takes
<1>19. Takes(c, part, d)
  BY <1>10, <1>12, <1>13, <1>14, <1>15, <1>16, <1>17, <1>18
<1> QED BY <1>1, <1>11, <1>19 DEF d

(* The client has taken j parts of what was on its way; it is told the     *)
(* response only by the last of them.                                      *)
ReadsOn(N, j, c) ==
  /\ ReadOn(N, client, c) /\ c.undefined = client.undefined
  /\ Expected(c, server, j)
  /\ c.got = client.got \/ j = Coming(server)

LEMMA ReadsOnOneMore ==
  ASSUME ExchangeTypes, NEW N \in Nat, server \in Servers(N), Formed(server),
         NEW j \in Nat, j > 0, j <= Len(server.wire), NEW c, ReadsOn(N, j - 1, c),
         NEW more \in BOOLEAN
  PROVE  ReadsOn(N, j, ClientTakes(c, server.wire[j], more))
<1> DEFINE part == server.wire[j]
           d == ClientTakes(c, part, more)
<1>1. /\ Len(server.wire) \in Nat /\ Unread(server) \in Nat /\ Coming(server) \in Nat
      /\ Unread(server) <= Coming(server) /\ server.wire \in Seq(Replies(N))
      /\ Len(server.writing) \in Nat
      /\ Unread(server) = Len(server.wire) + Len(server.writing)
  BY ReplyLengths, ServerFields
<1>2. PICK u, n \in Nat : u = Unread(server) /\ n = Coming(server)
  BY <1>1
<1>3. j \in 1 .. u /\ j <= n /\ u <= n
  <2>1. \A a, b \in Nat : j <= a => j <= a + b
    OBVIOUS
  <2>2. j <= u
    BY <1>1, <1>2, <2>1
  <2>3. u <= n
    BY <1>1, <1>2
  <2>4. u \in Nat /\ n \in Nat
    OBVIOUS
  <2> QED BY <2>2, <2>3, <2>4
<1>4. part \in Replies(N) /\ part = Reply(server, j)
  <2>1. j \in 1 .. Len(server.wire)
    BY <1>1
  <2>2. part \in Replies(N)
    BY <1>1, <2>1, ElementOfSeq
  <2> QED BY <2>2 DEF Reply
<1>5. EndsAt(part, j, n)
  BY <1>2, <1>3, <1>4 DEF Formed
<1>6. c \in Clients(N) /\ ReadOn(N, client, c) /\ c.undefined = client.undefined
  BY DEF ReadsOn, ReadOn
<1> HIDE DEF part
<1>7. ReadOn(N, c, d) /\ d.undefined = c.undefined /\ Takes(c, part, d)
  BY <1>4, <1>6, ClientTakesSo
<1> HIDE DEF d
<1>8. ReadOn(N, client, d)
  BY <1>6, <1>7 DEF ReadOn, SameOutput
<1>9. c.got = client.got
  BY <1>2, <1>3 DEF ReadsOn
<1>10. \/ c.stopped
       \/ /\ c.rx.answer.follow = "body" => n <= j
          /\ \A p \in j .. u :
               Reply(server, p).is = "head" => p = j /\ c.rx.answer.follow = "head"
  <2>1. (j - 1) + 1 = j
    OBVIOUS
  <2> QED BY <1>2, <2>1 DEF ReadsOn, Expected
<1>11. \A p \in j + 1 .. u : p \in j .. u /\ p # j
  OBVIOUS
<1>12. Expected(d, server, j) /\ (d.got = client.got \/ j = n)
  <2>1. CASE d.stopped /\ d.got = c.got
    BY <1>9, <2>1 DEF Expected
  <2>2. CASE j = n /\ d.rx.answer.follow = "head"
    <3>1. j + 1 .. u = {}
      BY <1>2, <1>3, <2>2
    <3> QED BY <1>2, <2>2, <3>1 DEF Expected
  <2>3. CASE /\ d.rx.answer = part /\ d.got = c.got /\ part.is = "head" /\ ~c.stopped
    <3>1. d.rx.answer.follow = "body" => n <= j + 1
      BY <1>5, <2>3 DEF EndsAt
    <3>2. \A p \in j + 1 .. u : Reply(server, p).is # "head"
      BY <1>10, <1>11, <2>3
    <3> QED BY <1>2, <1>9, <2>3, <3>1, <3>2 DEF Expected
  <2>4. CASE /\ ~c.stopped /\ c.rx.answer.follow = "chunks"
             /\ d.rx.answer = c.rx.answer /\ d.got = c.got
    <3>1. \A p \in j + 1 .. u : Reply(server, p).is # "head"
      BY <1>10, <1>11, <2>4
    <3> QED BY <1>2, <1>9, <2>4, <3>1 DEF Expected
  <2>5. \/ d.stopped /\ d.got = c.got
        \/ ~c.stopped /\ d.rx.answer.follow = "head"
             /\ \/ part.is = "head" /\ part.follow = "nothing"
                \/ c.rx.answer.follow = "body" \/ part.is = "last"
        \/ /\ d.rx.answer = part /\ d.got = c.got /\ part.is = "head" /\ ~c.stopped
        \/ /\ ~c.stopped /\ c.rx.answer.follow = "chunks"
           /\ d.rx.answer = c.rx.answer /\ d.got = c.got
    BY <1>7 DEF Takes
  <2>6. ASSUME ~c.stopped,
               \/ part.is = "head" /\ part.follow = "nothing"
               \/ c.rx.answer.follow = "body" \/ part.is = "last"
        PROVE  j = n
    <3>1. c.rx.answer.follow = "body" => n <= j
      BY <1>10, <2>6
    <3>2. part.is = "head" /\ part.follow = "nothing" => j = n
      BY <1>5 DEF EndsAt
    <3>3. part.is = "last" => j = n
      BY <1>5 DEF EndsAt
    <3>4. n <= j => j = n
      BY <1>3
    <3> QED BY <2>6, <3>1, <3>2, <3>3, <3>4
  <2> QED BY <2>1, <2>2, <2>3, <2>4, <2>5, <2>6
<1> QED BY <1>2, <1>6, <1>7, <1>8, <1>12 DEF ReadsOn, d, part

LEMMA ClientReadsOn ==
  ASSUME ExchangeTypes, NEW CONSTANT N \in Nat, NEW CONSTANT m \in Nat, At(N, m),
         NEW CONSTANT n, n \in 1 .. Len(server.wire), client' \in ClientReading(n)
  PROVE  /\ ReadOn(N, client, client') /\ client'.undefined = client.undefined
         /\ At(N, m)' /\ client'.asked = client.asked
         /\ \A p : Out(client', p) = Out(client, p)
<1> DEFINE Fine == {c \in Clients(N) : ReadOn(N, client, c) /\ c.undefined = client.undefined}
           holds == [j \in 0 .. n |-> Fine]
<1>1. /\ client \in Clients(N) /\ server \in Servers(N)
      /\ server.wire \in Seq(Replies(N)) /\ Len(server.wire) \in Nat
  <2>1. client \in Clients(N) /\ server \in Servers(N)
    BY AtGives
  <2> QED BY <2>1, ServerFields, ReplyLengths
<1>2. n \in Nat /\ \A j \in 1 .. n : server.wire[j] \in Replies(N)
  <2>1. n \in Nat /\ \A j \in 1 .. n : j \in 1 .. Len(server.wire)
    BY <1>1
  <2> QED BY <1>1, <2>1, ElementOfSeq
<1>3. client \in Fine
  BY <1>1 DEF ReadOn, SameOutput
<1>4. ASSUME NEW j \in 1 .. n, NEW c \in Fine
      PROVE  ClientTakes(c, server.wire[j], j < n) \in Fine
  <2> DEFINE more == j < n
             d == ClientTakes(c, server.wire[j], more)
  <2>1. more \in BOOLEAN
    OBVIOUS
  <2> HIDE DEF more
  <2>2. ReadOn(N, c, d) /\ d.undefined = c.undefined
    BY <1>2, <2>1, ClientTakesSo
  <2> HIDE DEF d
  <2>3. d \in Fine
    BY <2>2 DEF ReadOn, SameOutput
  <2> QED BY <2>3 DEF d, more
<1> HIDE DEF Fine
<1>5. \A j \in 0 .. n : holds[j] = Fine
  OBVIOUS
<1>6. n \in 0 .. n /\ 0 \in 0 .. n /\ \A j \in 1 .. n : j \in 0 .. n /\ j - 1 \in 0 .. n
  BY <1>2
<1> HIDE DEF holds
<1>7. ClientReading(n) \subseteq holds[n]
  BY <1>2, <1>3, <1>4, <1>5, <1>6, ClientReadingLeadsTo
<1>8. client' \in Fine
  BY <1>5, <1>6, <1>7
<1>9. ReadOn(N, client, client') /\ client'.undefined = client.undefined
  BY <1>8 DEF Fine
<1>10. /\ client'.asked = client.asked /\ Outstanding(client') = Outstanding(client)
       /\ \A p : Out(client', p) = Out(client, p)
  BY <1>9, SameOutputSameParts DEF ReadOn, SameOutput
<1>11. At(N, m)'
  BY <1>10 DEF At
<1> QED BY <1>9, <1>10, <1>11

LEMMA ReadsTheAnswer ==
  ASSUME ExchangeTypes, NEW CONSTANT N \in Nat, NEW CONSTANT m \in Nat, At(N, m),
         AnsweringTurn(N, m),
         NEW CONSTANT n, n \in 1 .. Len(server.wire), client' \in ClientReading(n)
  PROVE  ReadsOn(N, n, client')
<1> DEFINE holds == [j \in 0 .. n |-> {c \in Clients(N) : ReadsOn(N, j, c)}]
<1>1. /\ client \in Clients(N) /\ server \in Servers(N) /\ Len(server.wire) \in Nat
      /\ Formed(server)
  <2>1. client \in Clients(N) /\ server \in Servers(N)
    BY AtGives
  <2> QED BY <2>1, ReplyLengths DEF AnsweringTurn
<1>2. n \in Nat /\ n \in 0 .. n /\ 0 \in 0 .. n /\ n <= Len(server.wire)
  BY <1>1
<1>3. \A j \in 0 .. n : holds[j] = {c \in Clients(N) : ReadsOn(N, j, c)}
  OBVIOUS
<1> HIDE DEF holds
<1>4. client \in holds[0]
  <2>1. ReadsOn(N, 0, client)
    BY <1>1 DEF ReadsOn, ReadOn, SameOutput, AnsweringTurn
  <2> QED BY <1>1, <1>2, <1>3, <2>1
<1>5. ASSUME NEW j \in 1 .. n, NEW c \in holds[j - 1]
      PROVE  ClientTakes(c, server.wire[j], j < n) \in holds[j]
  <2> DEFINE more == j < n
             d == ClientTakes(c, server.wire[j], more)
  <2>1. more \in BOOLEAN
    OBVIOUS
  <2> HIDE DEF more
  <2>2. j \in Nat /\ j > 0 /\ j <= Len(server.wire) /\ j \in 0 .. n /\ j - 1 \in 0 .. n
    <3>1. \A a \in Nat : n <= a => j <= a
      BY <1>2
    <3>2. j <= Len(server.wire)
      BY <1>1, <1>2, <3>1
    <3> QED BY <1>2, <3>2
  <2>3. ReadsOn(N, j - 1, c)
    BY <1>3, <2>2
  <2>4. ReadsOn(N, j, d)
    BY <1>1, <2>1, <2>2, <2>3, ReadsOnOneMore
  <2> HIDE DEF d
  <2>5. d \in Clients(N)
    BY <2>4 DEF ReadsOn, ReadOn
  <2> QED BY <1>3, <2>2, <2>4, <2>5 DEF d, more
<1>6. ClientReading(n) \subseteq holds[n]
  BY <1>2, <1>4, <1>5, ClientReadingLeadsTo
<1> QED BY <1>2, <1>3, <1>6

(* What is coming, when the client has read n parts of it.                 *)
ReadFrom(N, s, n, t) ==
  /\ t.wire \in Seq(Replies(N)) /\ Len(t.wire) = Len(s.wire) - n
  /\ t \in Servers(N) /\ t.writing = s.writing /\ t.busy = s.busy
  /\ t.rx = s.rx /\ t.owed = s.owed /\ t.stream = s.stream /\ t.left = s.left
  /\ t.stopped = s.stopped /\ t.undefined = s.undefined /\ t.open = s.open
  /\ n \in Nat /\ n <= Unread(s) /\ n <= Coming(s)
  /\ Unread(t) = Unread(s) - n /\ Coming(t) = Coming(s) - n
  /\ \A p \in 1 .. Unread(s) - n : Reply(t, p) = Reply(s, p + n)

LEMMA ReadShiftsReplies ==
  ASSUME NEW N \in Nat, NEW s \in Servers(N), NEW n, n \in 1 .. Len(s.wire)
  PROVE  ReadFrom(N, s, n, [s EXCEPT !.wire = SubSeq(@, n + 1, Len(@))])
<1> DEFINE v == SubSeq(s.wire, n + 1, Len(s.wire))
           t == [s EXCEPT !.wire = v]
<1>1. /\ s.wire \in Seq(Replies(N)) /\ Len(s.wire) \in Nat /\ Len(s.writing) \in Nat
      /\ Unread(s) = Len(s.wire) + Len(s.writing) /\ Unread(s) \in Nat
      /\ Coming(s) \in Nat /\ Unread(s) <= Coming(s)
  BY ServerFields, ReplyLengths
<1>2. n \in Nat /\ n > 0 /\ n <= Len(s.wire) /\ n \in 0 .. Len(s.wire)
  BY <1>1
<1>3. /\ v \in Seq(Replies(N)) /\ Len(v) = Len(s.wire) - n
      /\ \A i \in 1 .. Len(v) : v[i] = s.wire[n + i]
  BY <1>1, <1>2, Rest
<1> HIDE DEF v
<1>4. /\ t \in Servers(N) /\ t.wire = v /\ t.writing = s.writing /\ t.busy = s.busy
      /\ t.rx = s.rx /\ t.owed = s.owed /\ t.stream = s.stream /\ t.left = s.left
      /\ t.stopped = s.stopped /\ t.undefined = s.undefined /\ t.open = s.open
  BY <1>3 DEF Servers
<1> HIDE DEF t
<1>5. PICK a, b, u, e \in Nat : /\ a = Len(s.wire) /\ b = Len(s.writing)
                                /\ u = Unread(s) /\ e = Coming(s)
  BY <1>1
<1>6. u = a + b /\ u <= e /\ n <= a /\ n <= u /\ n <= e
  <2>1. u = a + b
    BY <1>1, <1>5
  <2>2. u <= e
    BY <1>1, <1>5
  <2>3. n <= a
    BY <1>2, <1>5
  <2> QED BY <1>2, <2>1, <2>2, <2>3
<1>7. Unread(t) = u - n
  <2>1. Unread(t) = (a - n) + b
    BY <1>3, <1>4, <1>5 DEF Unread
  <2> QED BY <1>2, <1>6, <2>1
<1>8. Coming(t) = e - n
  <2>1. CASE s.stream = Nothing
    <3>1. Coming(t) = u - n /\ e = u
      BY <1>4, <1>5, <1>7, <2>1 DEF Coming
    <3> QED BY <3>1
  <2>2. CASE s.stream # Nothing
    <3>1. Coming(t) = (u - n) + (s.left + 1) /\ e = u + (s.left + 1)
      BY <1>4, <1>5, <1>7, <2>2 DEF Coming
    <3>2. s.left \in Nat
      BY ServerFields
    <3> QED BY <1>2, <3>1, <3>2
  <2> QED BY <2>1, <2>2
<1>9. ASSUME NEW p \in 1 .. u - n
      PROVE  Reply(t, p) = Reply(s, p + n)
  <2>1. p \in Nat /\ p > 0
    OBVIOUS
  <2>2. Reply(t, p) = IF p <= a - n THEN v[p] ELSE s.writing[p - (a - n)].part
    BY <1>3, <1>4, <1>5 DEF Reply
  <2>3. Reply(s, p + n) = IF p + n <= a THEN s.wire[p + n] ELSE s.writing[(p + n) - a].part
    BY <1>5 DEF Reply
  <2>4. (p + n <= a <=> p <= a - n) /\ (p + n) - a = p - (a - n) /\ n + p = p + n
    BY <1>2, <2>1
  <2>5. p <= a - n => v[p] = s.wire[p + n]
    <3> SUFFICES ASSUME p <= a - n PROVE v[p] = s.wire[p + n]
      OBVIOUS
    <3>1. p \in 1 .. a - n
      BY <2>1
    <3> QED BY <1>3, <1>5, <2>4, <3>1
  <2> QED BY <2>2, <2>3, <2>4, <2>5
<1>10. \A p \in 1 .. Unread(s) - n : Reply(t, p) = Reply(s, p + n)
  BY <1>5, <1>9
<1>11. ReadFrom(N, s, n, t)
  BY <1>2, <1>3, <1>4, <1>5, <1>6, <1>7, <1>8, <1>10 DEF ReadFrom
<1>12. t = [s EXCEPT !.wire = SubSeq(@, n + 1, Len(@))]
  BY DEF t, v
<1> QED BY <1>11, <1>12

(* A 100 Continue is no answer.                                            *)
OnlyContinued(c, i) ==
  \A j \in DOMAIN c.got : c.got[j].of = i => c.got[j].answer = Refusal("CONTINUE")

LEMMA ContinueAnswersNothing ==
  ASSUME NEW N \in Nat, NEW c \in Clients(N), NEW part \in Replies(N), IsContinue(part),
         Ready(c), NEW d, Takes(c, part, d), NEW i, OnlyContinued(c, i)
  PROVE  Ready(d) /\ OnlyContinued(d, i)
<1>1. part.is = "head" /\ part.follow = "nothing" /\ part.answer = Refusal("CONTINUE")
  BY DEF IsContinue
<1>2. CASE d.stopped /\ d.got = c.got
  BY <1>2 DEF Ready, OnlyContinued
<1>3. CASE /\ d.rx.answer.follow = "head"
           /\ \E whole \in BOOLEAN :
                d.got = Append(c.got, [of |-> part.of, answer |-> part.answer, whole |-> whole])
  <2>1. PICK x : d.got = Append(c.got, x) /\ x.answer = Refusal("CONTINUE")
    BY <1>1, <1>3
  <2>2. c.got \in Seq([of : 0 .. N, answer : Answers, whole : BOOLEAN])
    BY ClientFields
  <2>3. \A S : \A q \in Seq(S) : \A y : \A j \in DOMAIN Append(q, y) :
          Append(q, y)[j] = y \/ (j \in DOMAIN q /\ Append(q, y)[j] = q[j])
    OBVIOUS
  <2>4. \A j \in DOMAIN d.got :
          d.got[j] = x \/ (j \in DOMAIN c.got /\ d.got[j] = c.got[j])
    BY <2>1, <2>2, <2>3
  <2> QED BY <1>3, <2>1, <2>4 DEF Ready, OnlyContinued
<1>4. c.stopped \/ c.rx.answer.follow = "head"
  BY DEF Ready
<1> QED BY <1>1, <1>2, <1>3, <1>4 DEF Takes

LEMMA ReadsTheContinue ==
  ASSUME ExchangeTypes, NEW CONSTANT N \in Nat, NEW CONSTANT m \in Nat, At(N, m),
         AskingTurn(N, m), NEW CONSTANT n, n \in 1 .. Len(server.wire),
         client' \in ClientReading(n),
         server' = [server EXCEPT !.wire = SubSeq(@, n + 1, Len(@))]
  PROVE  AskingTurn(N, m)'
<1>1. PICK k \in Nat : Underway(N, m, k) /\ (Silent(N, k) \/ Continued(N, k))
  BY DEF AskingTurn
<1>2. /\ client \in Clients(N) /\ server \in Servers(N)
      /\ Len(server.wire) \in Nat /\ Len(server.writing) \in Nat
      /\ Unread(server) = Len(server.wire) + Len(server.writing)
  <2>1. client \in Clients(N) /\ server \in Servers(N)
    BY AtGives
  <2> QED BY <2>1, ReplyLengths
<1>3. Continued(N, k)
  <2>1. ASSUME Silent(N, k) PROVE FALSE
    <3>1. Len(server.wire) = 0
      BY <2>1 DEF Silent, Asking, Idle
    <3> QED BY <3>1
  <2> QED BY <1>1, <2>1
<1>4. /\ Continuing(N, server) /\ Unread(server) = 1 /\ server.open /\ k = 1
      /\ IsContinue(Reply(server, 1))
  BY <1>3 DEF Continued, Continuing
<1>5. n = 1 /\ Len(server.wire) = 1 /\ Len(server.writing) = 0
  <2>1. \A a, b \in Nat : 1 = a + b /\ n \in 1 .. a => n = 1 /\ a = 1 /\ b = 0
    OBVIOUS
  <2>2. 1 = Len(server.wire) + Len(server.writing)
    BY <1>2, <1>4
  <2> QED BY <1>2, <2>1, <2>2
<1> DEFINE part == server.wire[1]
<1>6. part \in Replies(N) /\ IsContinue(part)
  <2>1. server.wire \in Seq(Replies(N)) /\ 1 \in 1 .. Len(server.wire)
    BY <1>2, <1>5, ServerFields
  <2>2. Reply(server, 1) = part
    BY <1>5 DEF Reply
  <2> QED BY <1>4, <2>1, <2>2, ElementOfSeq
<1>7. Takes(client, part, client')
  <2> DEFINE holds == [j \in 0 .. 1 |-> IF j = 0 THEN {client} ELSE {c : c \in {ClientTakes(client, part, FALSE)}}]
  <2>1. /\ holds[0] = {client} /\ holds[1] = {ClientTakes(client, part, FALSE)}
        /\ 1 - 1 = 0 /\ 1 \in Nat
    OBVIOUS
  <2>2. \A j \in 1 .. 1 : j = 1
    OBVIOUS
  <2>3. (1 < 1) = FALSE
    OBVIOUS
  <2> HIDE DEF holds
  <2>4. \A j \in 1 .. 1 : \A c \in holds[j - 1] : ClientTakes(c, server.wire[j], j < 1) \in holds[j]
    <3> TAKE j \in 1 .. 1
    <3> TAKE c \in holds[j - 1]
    <3>1. j = 1 /\ c = client
      BY <2>1, <2>2
    <3>2. ClientTakes(client, server.wire[1], 1 < 1) = ClientTakes(client, part, FALSE)
      BY <2>3
    <3> QED BY <2>1, <3>1, <3>2
  <2>5. ClientReading(1) \subseteq holds[1]
    BY <2>1, <2>4, ClientReadingLeadsTo
  <2>6. client' = ClientTakes(client, part, FALSE)
    BY <1>5, <2>1, <2>5
  <2>7. FALSE \in BOOLEAN
    OBVIOUS
  <2>8. Takes(client, part, ClientTakes(client, part, FALSE))
    BY <1>2, <1>6, <2>7, ClientTakesSo
  <2> QED BY <2>6, <2>8
<1> HIDE DEF part
<1>8. Ready(client') /\ ~Answered(N)'
  <2>1. OnlyContinued(client, N)
    BY DEF AskingTurn, Answered, OnlyContinued
  <2>2. Ready(client)
    BY DEF AskingTurn
  <2>3. Ready(client') /\ OnlyContinued(client', N)
    BY <1>2, <1>6, <1>7, <2>1, <2>2, ContinueAnswersNothing
  <2> QED BY <2>3 DEF Answered, OnlyContinued
<1>9. /\ client'.asked = client.asked /\ \A p : Out(client', p) = Out(client, p)
  BY ClientReadsOn
<1>10. Underway(N, m, k)'
  <2>1. \A i : Asked(i)' = Asked(i)
    BY <1>9 DEF Asked
  <2>2. \A i, l : PartOf(i, l)' = PartOf(i, l)
    BY <2>1 DEF PartOf
  <2> QED BY <1>1, <1>9, <2>1, <2>2 DEF Underway
<1>11. Silent(N, k)'
  <2>1. /\ Len(server'.wire) = Len(server.wire) - n /\ server'.wire \in Seq(Replies(N))
        /\ server' \in Servers(N) /\ server'.writing = server.writing
        /\ server'.busy = server.busy /\ server'.rx = server.rx
        /\ server'.owed = server.owed /\ server'.stream = server.stream
        /\ server'.stopped = server.stopped /\ server'.undefined = server.undefined
        /\ server'.open = server.open
    <3>1. ReadFrom(N, server, n, [server EXCEPT !.wire = SubSeq(@, n + 1, Len(@))])
      BY <1>2, ReadShiftsReplies
    <3>2. ReadFrom(N, server, n, server')
      BY <3>1
    <3> QED BY <3>2 DEF ReadFrom
  <2>2. server'.wire = <<>> /\ server.writing = <<>>
    <3>1. Len(server'.wire) = 0
      BY <1>5, <2>1
    <3>2. server.writing \in Seq(ReplyPieces(N))
      BY <1>2, ServerFields
    <3> QED BY <1>5, <2>1, <3>1, <3>2, EmptySeq
  <2>3. Asking(N, 1, server')
    BY <1>4, <2>1, <2>2 DEF Asking, Idle, Continuing, HeadOnly, WritesWhenBusy
  <2>4. Silent(N, 1)'
    BY <2>3 DEF Silent, Asking, Idle
  <2> QED BY <1>4, <2>4
<1>12. N > 0 /\ Ready(client)' /\ ~Answered(N)'
  BY <1>8 DEF AskingTurn, Ready
<1> QED BY <1>1, <1>10, <1>11, <1>12 DEF AskingTurn

LEMMA ReadsInItsTurn ==
  ASSUME ExchangeTypes, NEW CONSTANT N \in Nat, NEW CONSTANT m \in Nat, At(N, m),
         AnsweringTurn(N, m), NEW CONSTANT n, n \in 1 .. Len(server.wire),
         client' \in ClientReading(n), ReadFrom(N, server, n, server')
  PROVE  AnsweringTurn(N, m)'
<1>1. /\ server \in Servers(N) /\ Unread(server) \in Nat /\ Coming(server) \in Nat
      /\ Unread(server) <= Coming(server)
  BY AtGives, ReplyLengths
<1>2. /\ n \in Nat /\ n <= Unread(server) /\ n <= Coming(server)
      /\ Unread(server') = Unread(server) - n /\ Coming(server') = Coming(server) - n
      /\ \A p \in 1 .. Unread(server) - n : Reply(server', p) = Reply(server, p + n)
      /\ server'.open /\ ~server'.stopped /\ ~server'.undefined
      /\ server'.owed = server.owed /\ server'.rx = server.rx
  BY DEF ReadFrom, AnsweringTurn
<1>3. n > 0
  BY <1>2
<1>4. Coming(server) # 0
  BY <1>1, <1>2, <1>3
<1>5. ReadsOn(N, n, client')
  BY ReadsTheAnswer
<1>6. server.owed = <<>> /\ server.rx.head = Nothing
  BY <1>4 DEF AnsweringTurn, Owing
<1>7. Owing(N, server')
  BY <1>2, <1>6 DEF Owing
<1>8. ASSUME NEW p \in 1 .. Unread(server')
      PROVE  /\ p \in Nat /\ p > 0 /\ p \in 1 .. Unread(server) - n
             /\ p + n \in 1 .. Unread(server) /\ p + n \in n + 1 .. Unread(server)
             /\ Reply(server', p) = Reply(server, p + n)
  <2>1. \A u \in Nat : p \in 1 .. u - n =>
          p \in Nat /\ p > 0 /\ p + n \in 1 .. u /\ p + n \in n + 1 .. u
    BY <1>2
  <2>2. p \in 1 .. Unread(server) - n
    BY <1>2
  <2> QED BY <1>1, <1>2, <2>1, <2>2
<1>9. Formed(server')
  <2>1. ASSUME NEW p \in 1 .. Unread(server')
        PROVE  EndsAt(Reply(server', p), p, Coming(server'))
    <3>1. EndsAt(Reply(server, p + n), p + n, Coming(server))
      BY <1>8 DEF AnsweringTurn, Formed
    <3>2. \A c \in Nat : /\ p + n = c => p = c - n
                         /\ c <= (p + n) + 1 => c - n <= p + 1
      BY <1>2, <1>8
    <3> QED BY <1>1, <1>2, <1>8, <3>1, <3>2 DEF EndsAt
  <2> QED BY <2>1 DEF Formed
<1>10. Expected(client', server', 0)
  <2>1. Expected(client', server, n)
    BY <1>5 DEF ReadsOn
  <2>2. CASE client'.stopped
    BY <2>2 DEF Expected
  <2>3. CASE ~client'.stopped
    <3>1. /\ client'.rx.answer.follow = "body" => Coming(server) <= n + 1
          /\ \A p \in n + 1 .. Unread(server) :
               Reply(server, p).is = "head" => p = n + 1 /\ client'.rx.answer.follow = "head"
      BY <2>1, <2>3 DEF Expected
    <3>2. client'.rx.answer.follow = "body" => Coming(server') <= 0 + 1
      <4>1. \A c \in Nat : c <= n + 1 => c - n <= 0 + 1
        BY <1>2
      <4> QED BY <1>1, <1>2, <3>1, <4>1
    <3>3. ASSUME NEW p \in 0 + 1 .. Unread(server'), Reply(server', p).is = "head"
          PROVE  p = 0 + 1 /\ client'.rx.answer.follow = "head"
      <4>1. p \in 1 .. Unread(server')
        OBVIOUS
      <4>2. p + n = n + 1 /\ client'.rx.answer.follow = "head" /\ p \in Nat
        BY <1>8, <3>1, <3>3, <4>1
      <4> QED BY <1>2, <4>2
    <3> QED BY <3>2, <3>3 DEF Expected
  <2> QED BY <2>2, <2>3
<1>11. ASSUME N = 0 \/ Answered(N)' PROVE Coming(server') = 0
  <2>1. CASE client'.got = client.got
    <3>1. Answered(N)' = Answered(N)
      BY <2>1 DEF Answered
    <3> QED BY <1>4, <1>11, <3>1 DEF AnsweringTurn
  <2>2. CASE n = Coming(server)
    <3>1. n - n = 0
      BY <1>2
    <3> QED BY <1>2, <2>2, <3>1
  <2> QED BY <1>5, <2>1, <2>2 DEF ReadsOn
<1>12. m = 0 /\ server'.owed = <<>>
  BY <1>2, <1>6 DEF AnsweringTurn
<1> QED BY <1>2, <1>7, <1>9, <1>10, <1>11, <1>12 DEF AnsweringTurn

LEMMA ClientReadsTurn ==
  ASSUME ExchangeTypes, NEW CONSTANT N \in Nat, NEW CONSTANT m \in Nat, At(N, m),
         Turn(N, m), ClientReads
  PROVE  At(N, m)' /\ Turn(N, m)' /\ client'.undefined = client.undefined
<1>1. PICK n \in 1 .. Len(server.wire) :
        /\ client' \in ClientReading(n)
        /\ server' = [server EXCEPT !.wire = SubSeq(@, n + 1, Len(@))]
  BY DEF ClientReads
<1>2. ReadFrom(N, server, n, server')
  <2>1. server \in Servers(N)
    BY AtGives
  <2>2. ReadFrom(N, server, n, [server EXCEPT !.wire = SubSeq(@, n + 1, Len(@))])
    BY <1>1, <2>1, ReadShiftsReplies
  <2> QED BY <1>1, <2>2
<1>3. At(N, m)' /\ client'.asked = client.asked /\ client'.undefined = client.undefined
  BY <1>1, ClientReadsOn
<1>4. CASE ~server.open /\ Cut(N, server)
  <2>1. \A i \in 1 .. N : Asked(i)' = Asked(i)
    BY <1>3 DEF Asked
  <2>2. /\ server'.open = server.open /\ server'.writing = server.writing
        /\ server'.undefined = server.undefined /\ N <= N
    BY <1>2 DEF ReadFrom
  <2>3. ~server'.open /\ Cut(N, server)'
    BY <1>4, <2>1, <2>2, ClosedStays
  <2> QED BY <1>3, <2>3 DEF Turn
<1>5. CASE AskingTurn(N, m)
  <2>1. AskingTurn(N, m)'
    BY <1>1, <1>5, ReadsTheContinue
  <2> QED BY <1>3, <2>1 DEF Turn
<1>6. CASE AnsweringTurn(N, m)
  <2>1. AnsweringTurn(N, m)'
    BY <1>1, <1>2, <1>6, ReadsInItsTurn
  <2> QED BY <1>3, <2>1 DEF Turn
<1> QED BY <1>4, <1>5, <1>6 DEF Turn

-----------------------------------------------------------------------------
LEMMA CarefulInit ==
  ASSUME Init
  PROVE  CarefulInv
<1>1. client = NewClient /\ server = NewServer
  BY DEF Init
<1>2. /\ client.asked = <<>> /\ client.wire = <<>> /\ client.writing = <<>>
      /\ client.left = <<>> /\ ~client.undefined /\ client.rx = NoRx /\ client.got = <<>>
      /\ server.wire = <<>> /\ server.writing = <<>> /\ server.owed = <<>>
      /\ server.stream = Nothing /\ server.rx = NoRx
      /\ server.open /\ ~server.stopped /\ ~server.undefined
  BY <1>1 DEF NewClient, NewServer
<1>3. At(0, 0)
  BY <1>2 DEF At, Outstanding
<1>4. Unread(server) = 0 /\ Coming(server) = 0 /\ 1 .. 0 = {}
  BY <1>2 DEF Unread, Coming
<1>5. Formed(server)
  BY <1>4 DEF Formed
<1>6. Owing(0, server)
  BY <1>2, NoRxReceived DEF Owing
<1>7. Expected(client, server, 0)
  <2>1. client.rx.answer.follow = "head"
    BY <1>2 DEF NoRx
  <2>2. 0 + 1 .. 0 = {}
    OBVIOUS
  <2> QED BY <1>4, <2>1, <2>2 DEF Expected
<1>8. AnsweringTurn(0, 0)
  BY <1>2, <1>4, <1>5, <1>6, <1>7 DEF AnsweringTurn
<1>9. 0 \in Nat
  OBVIOUS
<1> QED BY <1>2, <1>3, <1>8, <1>9 DEF CarefulInv, Turn

(* A server whose handler has thrown takes and sends nothing more, and a   *)
(* careful client sends only when it is not writing.                       *)
LEMMA AbandonedReadsNothing ==
  ASSUME Abandoned(server), NEW n \in Nat
  PROVE  ServerReading(n) \subseteq {server}
<1> DEFINE holds == [j \in 0 .. n |-> {server}]
<1>1. /\ \A j \in 0 .. n : holds[j] = {server}
      /\ 0 \in 0 .. n /\ n \in 0 .. n /\ \A j \in 1 .. n : j \in 0 .. n /\ j - 1 \in 0 .. n
  OBVIOUS
<1> HIDE DEF holds
<1>2. \A part, taken : ServerTakes(server, part, taken) = server
  BY DEF ServerTakes, Abandoned
<1>3. \A j \in 1 .. n : \A s \in holds[j - 1], taken \in 0 .. 2 :
        ServerTakes(s, client.wire[j], taken) \in holds[j]
  BY <1>1, <1>2
<1>4. ServerReading(n) \subseteq holds[n]
  BY <1>1, <1>3, ServerReadingLeadsTo
<1> QED BY <1>1, <1>4

LEMMA AbandonedStays ==
  ASSUME ExchangeTypes, Abandoned(server), [Next]_vars
  PROVE  Abandoned(server')
<1> DEFINE N == Len(client.asked)
<1>1. N \in Nat /\ server \in Servers(N) /\ Len(client.wire) \in Nat
  BY AtGives DEF At
<1> HIDE DEF N
<1>2. CASE server' = server
  BY <1>2
<1>3. CASE ClientReads
  <2>1. /\ server'.stopped = server.stopped /\ server'.open = server.open
        /\ server'.undefined = server.undefined /\ server'.owed = server.owed
        /\ server'.stream = server.stream
    BY <1>1, <1>3 DEF ClientReads, Servers
  <2> QED BY <2>1 DEF Abandoned
<1>4. CASE ServerReads
  <2>1. PICK n \in 1 .. Len(client.wire) : server' \in ServerReading(n)
    BY <1>4 DEF ServerReads
  <2>2. n \in Nat
    BY <1>1, <2>1
  <2> QED BY <2>1, <2>2, AbandonedReadsNothing
<1>5. CASE ServerWrites
  <2>1. PICK n \in 1 .. Len(server.writing) : server' = Transmit(server, n)
    BY <1>5 DEF ServerWrites
  <2>2. /\ server'.stopped = server.stopped /\ server'.open = server.open
        /\ server'.undefined = server.undefined /\ server'.owed = server.owed
        /\ server'.stream = server.stream
    BY <1>1, <2>1 DEF Transmit, Servers
  <2> QED BY <2>2 DEF Abandoned
<1>6. CASE ServerSent
  <2>1. server' = [server EXCEPT !.busy = FALSE]
    BY <1>1, <1>6 DEF ServerSent, Abandoned, Servers
  <2>2. /\ server'.stopped = server.stopped /\ server'.open = server.open
        /\ server'.undefined = server.undefined /\ server'.owed = server.owed
        /\ server'.stream = server.stream
    BY <1>1, <2>1 DEF Servers
  <2> QED BY <2>2 DEF Abandoned
<1>7. CASE AnswerLate
  BY <1>7 DEF AnswerLate, Abandoned
<1> QED BY <1>2, <1>3, <1>4, <1>5, <1>6, <1>7
        DEF Next, Ask, AskMore, ClientWrites, ClientSent, ClientLost, vars

LEMMA ClientStaysDefined ==
  ASSUME ExchangeTypes, mode.careful, [Next]_vars
  PROVE  client'.undefined = client.undefined
<1> DEFINE N == Len(client.asked)
           m == Outstanding(client)
<1>1. N \in Nat /\ m \in Nat /\ At(N, m) /\ client \in Clients(N)
  BY AtGives DEF At
<1> HIDE DEF N, m
<1>2. ASSUME ~client.busy, NEW message
      PROVE  LET d == ClientSends(client, message)
             IN  /\ d = [[client EXCEPT !.rx = NoRx] EXCEPT !.busy = TRUE, !.writing = message]
                 /\ d.undefined = client.undefined
  BY <1>1, <1>2 DEF ClientSends, SendData, ClearRx, Clients
<1>3. ASSUME NEW r \in Requests, Ask(r)
      PROVE  client'.undefined = client.undefined
  <2> DEFINE message == <<InHeader(Part("head", Len(client.asked) + 1))>>
                          \o IF r.body THEN <<Body(Len(client.asked) + 1)>> ELSE <<>>
             d == ClientSends(client, message)
             a == Append(d.asked, r)
             l == IF Chunked(r)
                    THEN [k \in 1 .. r.chunks |-> Chunk(Len(client.asked) + 1)]
                           \o <<LastChunk(Len(client.asked) + 1)>>
                    ELSE d.left
  <2>1. ~client.busy
    BY <1>3 DEF Ask, MaySend
  <2>2. client' = [d EXCEPT !.asked = a, !.left = l]
    BY <1>3, <2>1 DEF Ask
  <2> HIDE DEF message, a, l
  <2>3. /\ d = [[client EXCEPT !.rx = NoRx] EXCEPT !.busy = TRUE, !.writing = message]
        /\ d.undefined = client.undefined
    BY <1>2, <2>1
  <2> HIDE DEF d
  <2> QED BY <2>2, <2>3
<1>4. CASE AskMore
  <2> DEFINE d == ClientSends(client, <<Head(client.left)>>)
             l == Tail(d.left)
  <2>1. ~client.busy
    BY <1>4 DEF AskMore, MaySend
  <2>2. client' = [d EXCEPT !.left = l]
    BY <1>4, <2>1 DEF AskMore
  <2> HIDE DEF l
  <2>3. /\ d = [[client EXCEPT !.rx = NoRx]
                 EXCEPT !.busy = TRUE, !.writing = <<Head(client.left)>>]
        /\ d.undefined = client.undefined
    BY <1>2, <2>1
  <2> HIDE DEF d
  <2> QED BY <2>2, <2>3
<1>5. CASE ClientReads
  <2>1. PICK n \in 1 .. Len(server.wire) : client' \in ClientReading(n)
    BY <1>5 DEF ClientReads
  <2> QED BY <1>1, <2>1, ClientReadsOn
<1>6. CASE ClientWrites
  BY <1>1, <1>6 DEF ClientWrites, Transmit, Clients
<1>7. CASE ClientSent \/ ClientLost \/ ServerReads
  BY <1>1, <1>7 DEF ClientSent, ClientLost, ServerReads, Clients
<1> QED BY <1>3, <1>4, <1>5, <1>6, <1>7 DEF Next, ServerWrites, ServerSent, AnswerLate, vars

LEMMA CarefulStep ==
  ASSUME ExchangeInv, CarefulInv, [Next]_vars
  PROVE  CarefulInv'
<1>1. mode' = mode
  BY DEF Next, Ask, AskMore, ClientWrites, ClientSent, ClientReads, ClientLost,
         ServerReads, ServerWrites, ServerSent, AnswerLate, vars
<1> SUFFICES ASSUME mode.careful PROVE CarefulInv'
  BY <1>1 DEF CarefulInv
<1>3. ExchangeTypes /\ ~client.undefined
  BY DEF CarefulInv, ExchangeInv
<1>14. CASE Abandoned(server)
  BY <1>3, <1>14, AbandonedStays, ClientStaysDefined DEF CarefulInv
<1> SUFFICES ASSUME ~Abandoned(server) PROVE CarefulInv'
  BY <1>14
<1>2. PICK N, m \in Nat : At(N, m) /\ Turn(N, m)
  BY DEF CarefulInv
<1>4. ASSUME NEW CONSTANT M \in Nat, NEW CONSTANT q \in Nat, At(M, q)', Turn(M, q)',
             client'.undefined = client.undefined
      PROVE  CarefulInv'
  BY <1>3, <1>4 DEF CarefulInv
<1>5. ASSUME NEW CONSTANT r \in Requests, Ask(r) PROVE CarefulInv'
  BY <1>2, <1>3, <1>4, <1>5, AskTurn
<1>6. CASE AskMore
  BY <1>2, <1>3, <1>4, <1>6, AskMoreTurn
<1>7. CASE ClientWrites
  BY <1>2, <1>3, <1>4, <1>7, ClientWritesTurn
<1>8. CASE ClientSent \/ ClientLost \/ UNCHANGED vars
  BY <1>2, <1>3, <1>4, <1>8, ClientSentTurn
<1>9. CASE ClientReads
  BY <1>2, <1>3, <1>4, <1>9, ClientReadsTurn
<1>10. CASE ServerReads
  BY <1>2, <1>3, <1>10, ServerReadsTurn DEF CarefulInv
<1>11. CASE ServerWrites
  <2>1. client' = client
    BY <1>11 DEF ServerWrites
  <2> QED BY <1>2, <1>3, <1>4, <1>11, <2>1, ServerWritesTurn
<1>12. CASE ServerSent
  <2>1. client' = client
    BY <1>12 DEF ServerSent
  <2> QED BY <1>2, <1>3, <1>4, <1>12, <2>1, ServerSentTurn
<1>13. CASE AnswerLate
  <2>1. client' = client
    BY <1>13 DEF AnswerLate
  <2> QED BY <1>2, <1>3, <1>4, <1>13, <2>1, AnswerLateTurn
<1> QED BY <1>5, <1>6, <1>7, <1>8, <1>9, <1>10, <1>11, <1>12, <1>13 DEF Next

LEMMA CarefulInvariance == Spec => []CarefulInv
<1>1. Init => CarefulInv
  BY CarefulInit
<1>2. ExchangeInv /\ CarefulInv /\ [Next]_vars => CarefulInv'
  BY CarefulStep
<1> QED BY <1>1, <1>2, ExchangeInvariance, PTL DEF Spec

(* A client that waits for its answers, and the server that it asks, never *)
(* fill tx_header_ or tx_body_ while a write that uses it is under way,    *)
(* whatever is asked, however it is cut into reads and writes, and in      *)
(* whatever way it is answered.                                            *)
THEOREM BuffersAreLeftAlone == Spec => []BuffersOutliveTheirWrite
<1>1. CarefulInv => BuffersOutliveTheirWrite
  BY DEF CarefulInv, BuffersOutliveTheirWrite, Abandoned, Turn, AskingTurn, AnsweringTurn,
         Silent, Continued, Asking, Idle, Continuing, Cut
<1> QED BY <1>1, CarefulInvariance, PTL

(* When the server shuts the connection down with something still to       *)
(* write, it is of answers to requests that were not to keep it.           *)
THEOREM CutOnlyWhenClosing == Spec => []CutOnlyAfterClose
<1>1. CarefulInv => CutOnlyAfterClose
  BY DEF CarefulInv, CutOnlyAfterClose, Abandoned, Turn, AskingTurn, AnsweringTurn,
         Silent, Continued, Asking, Idle, Continuing, Cut
<1> QED BY <1>1, CarefulInvariance, PTL

=============================================================================
