--------------------------- MODULE MCHttpReceiver ---------------------------
(***************************************************************************)
(* The peers of HttpReceiver: messages that vary a plain one in one place,   *)
(* written out as tokens, and streams with one token lost, doubled or put in. *)
(* Expected says what a message amounts to, from its parts and the limits,    *)
(* without parsing anything.                                                *)
(***************************************************************************)
EXTENDS HttpReceiver, HttpMessage

Rep(n, t) == [i \in 1..n |-> t]
Field(name, value) == [name |-> name, blanks |-> 1, value |-> value]
Host  == Field("host", <<"x">>)
Size(ds) == Field("content-length", ds)
Coded(w) == Field("transfer-encoding", <<w>>)
Expect == Field("expect", <<"100-continue">>)

\* tx: written by the library, with HttpMessage; else by another implementation.
\* chunks: the sizes before the last chunk; ext: the length of an extension.
Plain == [kind |-> "request", method |-> <<"GET">>, blanks |-> 1, uri |-> 1,
          status |-> <<>>, reason |-> 0, version |-> "HTTP/1.1", eol |-> Crlf,
          headers |-> <<Host>>, data |-> 0, chunks |-> <<>>, ext |-> 0, trailers |-> <<>>,
          tx |-> FALSE]
Reply == [Plain EXCEPT !.kind = "response", !.method = <<>>, !.status = <<"2">>,
                       !.reason = 1, !.headers = <<Size(<<"0">>)>>]

With(m, hs) == [m EXCEPT !.headers = hs]
Sized(m, ds, n) == [m EXCEPT !.headers = @ \o <<Size(ds)>>, !.data = n]
Chunked(m, cs) == [m EXCEPT !.headers = <<Host, Coded("chunked")>>, !.chunks = cs]

Requests ==
  {Plain} \union
  {[Plain EXCEPT !.method = x] : x \in {<<"HEAD">>, <<"TRACE">>, <<"GET", "GET">>, <<"GET", "GET", "GET">>}} \union
  {[Plain EXCEPT !.uri = x] : x \in {MaxUri, MaxUri + 1}} \union
  {[Plain EXCEPT !.blanks = x] : x \in 2..(MaxWs + 1)} \union
  {[Plain EXCEPT !.eol = <<"LF">>]} \union
  {With(Plain, hs) : hs \in
     {<<>>, <<Host, Host>>, <<Field("x", <<>>), Host>>, <<Host, Field("x", <<"x">>), Expect>>,
      <<Host, Field("x", <<>>), Expect, Size(<<"0">>)>>,
      <<Field("host", <<"x", "x">>), Field("x", <<"x">>), Expect>>,
      <<Field("host", <<"x", "x">>), Field("x", <<"x", "x">>), Expect>>,
      <<Host, Field("x", Rep(MaxLine - 5, "x"))>>, <<Host, Field("x", Rep(MaxLine - 4, "x"))>>,
      <<Host, [Field("x", <<"x">>) EXCEPT !.blanks = MaxWs + 1]>>,
      <<Host, Coded("identity")>>, <<Host, Size(<<"x">>)>>}} \union
  {[With(Plain, hs) EXCEPT !.version = "HTTP/1.0"] : hs \in {<<>>, <<Host>>}} \union
  {Sized(Plain, ds[1], ds[2]) : ds \in {<<<<"0">>, 0>>, <<<<"1">>, 1>>, <<<<"2">>, 2>>, <<<<"1", "0">>, 10>>}} \union
  {[Sized(Plain, <<"1">>, 1) EXCEPT !.method = <<"TRACE">>],
   [Sized(Plain, <<"1">>, 1) EXCEPT !.method = <<"HEAD">>]} \union
  {Chunked(Plain, cs) : cs \in {<<>>, <<1>>, <<2>>, <<1, 1>>, <<1, 1, 1>>, <<1, 2>>}} \union
  {[Chunked(Plain, <<1>>) EXCEPT !.headers = Append(@, Expect)],
   [Chunked(Plain, <<1>>) EXCEPT !.ext = 1, !.trailers = <<Field("x", <<"x">>)>>],
   [Chunked(Plain, <<1>>) EXCEPT !.eol = <<"LF">>]} \union
  {[Plain EXCEPT !.tx = TRUE, !.method = x, !.data = n] :
     x \in {<<"GET">>, <<"HEAD">>}, n \in 0..2} \union
  {[Chunked(Plain, cs) EXCEPT !.tx = TRUE, !.ext = n] : cs \in {<<>>, <<1>>, <<1, 1>>}, n \in 0..1}

Replies ==
  {Reply} \union
  {[Reply EXCEPT !.status = x] : x \in {<<"2", "0">>, <<"2", "0", "0">>}} \union
  {[Reply EXCEPT !.reason = x] : x \in {0, MaxReason, MaxReason + 1}} \union
  {[Reply EXCEPT !.blanks = x] : x \in 2..(MaxWs + 1)} \union
  {[Reply EXCEPT !.eol = <<"LF">>], With(Reply, <<>>), With(Reply, <<Size(<<"x">>)>>)} \union
  {[With(Reply, <<>>) EXCEPT !.data = n] : n \in {1, MaxBody, MaxBody + 1}} \union
  {[With(Reply, <<Size(ds[1])>>) EXCEPT !.data = ds[2]] : ds \in {<<<<"1">>, 1>>, <<<<"2">>, 2>>}} \union
  {Chunked(Reply, cs) : cs \in {<<>>, <<1>>, <<1, 2>>}} \union
  {[With(Reply, <<>>) EXCEPT !.tx = TRUE, !.data = n] : n \in 0..2} \union
  {[With(Reply, <<>>) EXCEPT !.tx = TRUE, !.status = <<"1">>]} \union
  {[Chunked(Reply, cs) EXCEPT !.tx = TRUE, !.ext = n] : cs \in {<<>>, <<1>>, <<1, 1>>}, n \in 0..1}

\* What another implementation sends for a message: any blanks and line ends.
OtherField(f, eol) == <<f.name, ":">> \o Rep(f.blanks, " ") \o f.value \o eol
OtherFields(fs, eol) == FlattenSeq([i \in DOMAIN fs |-> OtherField(fs[i], eol)]) \o eol
OtherChunk(n, m) ==
  <<DigitToken(n)>> \o (IF m.ext > 0 THEN <<";">> \o Rep(m.ext, "x") ELSE <<>>) \o m.eol
    \o (IF n > 0 THEN Rep(n, "x") \o m.eol ELSE OtherFields(m.trailers, m.eol))
HasChunks(m) == \E i \in DOMAIN m.headers : m.headers[i] = Coded("chunked")
OtherStart(m) ==
  IF m.kind = "request"
    THEN m.method \o Rep(m.blanks, " ") \o Rep(m.uri, "x") \o <<" ", m.version>> \o m.eol
    ELSE <<m.version>> \o Rep(m.blanks, " ") \o m.status \o <<" ">> \o Rep(m.reason, "x") \o m.eol
OtherMessage(m) ==
  OtherStart(m) \o OtherFields(m.headers, m.eol) \o
  (IF HasChunks(m)
     THEN FlattenSeq([i \in 1..(Len(m.chunks) + 1) |-> OtherChunk((m.chunks \o <<0>>)[i], m)])
     ELSE Rep(m.data, "x"))

\* What the library sends for it.
TxHeaders(m) ==
  FlattenSeq([i \in DOMAIN m.headers |-> ToHeader(m.headers[i].name, m.headers[i].value)])
TxStart(m) ==
  IF m.kind = "request"
    THEN EncodeRequest(RequestLine(m.method, Rep(m.uri, "x"), m.version), TxHeaders(m), m.data)
    ELSE EncodeResponse(ResponseLine(m.version, m.status, Rep(m.reason, "x")),
                        Value(m.status, 10), TxHeaders(m), m.data)
TxChunks(m) ==
  FlattenSeq([i \in DOMAIN m.chunks |-> SendChunk(Rep(m.chunks[i], "x"), Rep(m.ext, "x"))])
    \o EncodeLastChunk(Rep(m.ext, "x"), <<>>)
Encode(m) ==
  IF m.tx THEN TxStart(m) \o (IF HasChunks(m) THEN TxChunks(m) ELSE Rep(m.data, "x"))
          ELSE OtherMessage(m)

\* One token lost, doubled, or put in.
Altered(s) ==
  {[j \in 1..(Len(s) - 1) |-> s[IF j < i THEN j ELSE j + 1]] : i \in 1..Len(s)} \union
  {[j \in 1..(Len(s) + 1) |-> s[IF j <= i THEN j ELSE j - 1]] : i \in 1..Len(s)} \union
  {[j \in 1..(Len(s) + 1) |-> IF j < i THEN s[j] ELSE IF j = i THEN t ELSE s[j - 1]] :
     i \in 1..(Len(s) + 1), t \in {" ", ":", "LF"}}

Meant(m) == [kind |-> m.kind, means |-> <<m>>, stream |-> Encode(m)]
Noise(m) == {[kind |-> m.kind, means |-> <<>>, stream |-> s] : s \in Altered(Encode(m))}
Twice(m) == [kind |-> m.kind, means |-> <<m, m>>, stream |-> Encode(m) \o Encode(m)]

MCMessages ==
  {Meant(m) : m \in Requests \union Replies} \union
  {Twice(m) : m \in {Sized(Plain, <<"1">>, 1), Reply, Chunked(Plain, <<1>>), Chunked(Reply, <<1>>)}} \union
  UNION {Noise(m) : m \in {Sized(Plain, <<"1">>, 1), Chunked(Plain, <<1>>), Reply}}

MCConfigs ==
  [kind : {"request"}, strict : BOOLEAN, concat : BOOLEAN, translate : {TRUE}] \union
  [kind : {"request"}, strict : {FALSE}, concat : {TRUE}, translate : {FALSE}] \union
  [kind : {"response"}, strict : BOOLEAN, concat : {FALSE}, translate : {FALSE}]

----------------------------------------------------------------------------
Sum(ns) == FoldLeft(LAMBDA a, b : a + b, 0, ns)
LineLength(f, m) == 2 + f.blanks + Len(f.value) + Len(m.eol)

\* Every limit, and STRICT_CRLF, that m keeps.  At most MaxWs - 1 blanks may
\* come before the uri: the one after it is counted with them.
SyntaxFits(m) ==
  /\ Len(m.method) <= MaxMethod /\ m.uri <= MaxUri
  /\ m.blanks <= (IF m.kind = "request" THEN MaxWs - 1 ELSE MaxWs)
  /\ m.kind = "response" => Value(m.status, 10) <= MaxStatus /\ m.reason <= MaxReason
  /\ conf.strict => m.eol = Crlf
  /\ \A i \in DOMAIN m.headers :
       LineLength(m.headers[i], m) <= MaxLine /\ m.headers[i].blanks <= MaxWs
  /\ Cardinality({m.headers[i].name : i \in DOMAIN m.headers}) <= MaxHeaders
  /\ Sum([i \in DOMAIN m.headers |-> 1 + Len(m.headers[i].value)]) <= MaxHeaderLength

HasField(m, name) == \E i \in DOMAIN m.headers : m.headers[i].name = name
BadSize(m) == \E i \in DOMAIN m.headers : m.headers[i] = Size(<<"x">>)
No(code) == <<Event("INVALID", IF conf.kind = "request" THEN code ELSE "NO_CONTENT", 0)>>
About(m) ==
  IF m.kind = "response" THEN Value(m.status, 10)
  ELSE IF m.method = <<"HEAD">> /\ conf.translate /\ ~HasChunks(m) THEN <<"GET">> ELSE m.method

TooBig(n) == n > MaxChunk
Chunks(m) ==
  LET big == SelectInSeq(m.chunks, TooBig)
      good == IF big = 0 THEN m.chunks ELSE SubSeq(m.chunks, 1, big - 1)
  IN  [i \in DOMAIN good |-> Event("CHUNK", "data", good[i])]
        \o (IF big = 0 THEN <<Event("CHUNK", "data", 0)>> ELSE No("BAD_REQUEST"))
Continue(m) == IF HasField(m, "expect") /\ m.kind = "request"
                 THEN <<Event("EXPECT_CONTINUE", "CONTINUE", 0)>> ELSE <<>>

\* A chunked message: each chunk for a response and for a server with a chunk
\* handler (then the request only if it did not expect a 100 Continue), else
\* one request with all the data.
ExpectedChunks(m) ==
  CASE m.kind = "request" /\ conf.concat ->
         Continue(m) \o
         (CASE SelectInSeq(m.chunks, TooBig) # 0 -> No("BAD_REQUEST")
            [] Sum(m.chunks) <= MaxContent -> <<Event("VALID", About(m), Sum(m.chunks))>>
            [] OTHER -> No("PAYLOAD_TOO_LARGE"))
    [] m.kind = "request" /\ ~conf.concat /\ Continue(m) # <<>> -> Continue(m) \o Chunks(m)
    [] OTHER -> <<Event("VALID", About(m), 0)>> \o Chunks(m)

Expected(m) ==
  CASE Len(m.method) > MaxMethod -> No("NOT_IMPLEMENTED")
    [] Len(m.method) <= MaxMethod /\ m.uri > MaxUri -> No("REQUEST_URI_TOO_LONG")
    [] Len(m.method) <= MaxMethod /\ m.uri <= MaxUri
         /\ (\/ ~SyntaxFits(m) \/ BadSize(m)
             \/ m.kind = "request" /\ m.version = "HTTP/1.1" /\ ~HasField(m, "host")
             \/ m.method = <<"TRACE">> /\ m.data > 0) -> No("BAD_REQUEST")
    [] OTHER ->
         IF HasChunks(m) THEN ExpectedChunks(m)
         ELSE IF m.data > MaxContent THEN No("PAYLOAD_TOO_LARGE")
         ELSE <<Event("VALID", About(m), m.data)>>

Endless(m) == m.kind = "response" /\ m.data > 0 /\ ~m.tx /\ ~HasField(m, "content-length")

\* A message that the peer means is handed to the application as what it is, or
\* refused with the code of the limit that it breaks: a length at its bound, a
\* missing host, a body that is declared too long.  Left out: a response that
\* has a body and no length, which no read completes.
MeaningIsKept ==
  Done /\ ~excused /\ peer.means # <<>> /\ ~Endless(peer.means[1]) =>
    out = (IF Len(peer.means) = 1 THEN Expected(peer.means[1])
           ELSE Expected(peer.means[1]) \o Expected(peer.means[2]))

=============================================================================
