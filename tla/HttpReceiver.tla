---------------------------- MODULE HttpReceiver ----------------------------
(***************************************************************************)
(* The incremental parsers: request_receiver (request.hpp) on the server,   *)
(* response_receiver (response.hpp) on the client, over message_headers     *)
(* (headers.hpp) and rx_chunk (chunk.hpp), and the receive loops that feed   *)
(* them one read at a time (http_server.hpp, http_client.hpp).              *)
(*                                                                         *)
(* The input is a sequence of tokens.  A token is one character of the       *)
(* class that its name shows, or a word that the parsers only ever take as   *)
(* a whole: a method, a header name, a header value, "HTTP/1.1".  Every      *)
(* length is counted in tokens.  The text itself (upper case, tabs, the      *)
(* order of the fields in the map) is left out.                             *)
(***************************************************************************)
EXTENDS Integers, Sequences, FiniteSets, SequencesExt

CONSTANTS
  MaxMethod, MaxUri, MaxWs, MaxLine,     \* MAX_..._LENGTH, MAX_WHITESPACE_CHARS
  MaxHeaders, MaxHeaderLength,           \* MAX_HEADER_NUMBER, MAX_HEADER_LENGTH
  MaxStatus, MaxReason,                  \* MAX_STATUS_NUMBER, MAX_REASON_LENGTH
  MaxDigits,                             \* MAX_SIZE_DIGITS of a chunk size
  MaxContent, MaxChunk, MaxBody,         \* max_content_length_, max_chunk_size_, max_body_size_
  Configs,                               \* the receivers that are built
  Messages,                              \* what the peer may send, see MCHttpReceiver
  ReadSizes                              \* how many tokens one read may bring

ASSUME LimitAssumption ==
  /\ \A n \in {MaxMethod, MaxUri, MaxWs, MaxLine, MaxStatus, MaxReason, MaxDigits,
               MaxContent, MaxChunk, MaxBody} : n \in Nat \ {0}
  /\ MaxHeaders \in Nat /\ MaxHeaderLength \in Nat

VARIABLES
  conf,      \* kind of receiver, strict_crlf, concatenate_chunks_, translate_head_
  peer,      \* the message the peer means and the tokens it sends
  pos,       \* how many of the tokens have been read
  rx,        \* the receiver
  out,       \* the verdicts that the receive loop has acted on
  excused    \* the stream was cut where the parsers are known to depend on it

vars == <<conf, peer, pos, rx, out, excused>>

Methods  == {"GET", "HEAD", "TRACE"}
Names    == {"host", "content-length", "transfer-encoding", "expect"}
Digits   == {"0", "1", "2"}
Alpha    == Methods \union Names \union {"x", "chunked", "identity"}
Versions == {"HTTP/1.0", "HTTP/1.1"}
Eol      == {"CR", "LF"}
Tokens   == Alpha \union Digits \union Versions \union Eol \union {" ", ":", ";", "100-continue"}

ASSUME ConfigsAssumption ==
  Configs \subseteq [kind : {"request", "response"}, strict : BOOLEAN, concat : BOOLEAN,
                     translate : BOOLEAN]

ASSUME MessagesAssumption == \A m \in Messages : m.stream \in Seq(Tokens)

\* asio calls the receive handler with at least one character.
ASSUME ReadsAssumption == ReadSizes \subseteq Nat \ {0}

----------------------------------------------------------------------------
(* Character by character: parse_char returns true (Ok) or false (Bad).      *)

Ok(s)  == [to |-> s, ok |-> TRUE]
Bad(s) == [to |-> s, ok |-> FALSE]
Within(s, holds, error) == IF holds THEN Ok(s) ELSE Bad([s EXCEPT !.st = error])
SpacedUnlimited(s) == Ok([s EXCEPT !.ws = @ + 1])   \* mutant: no limit
Spaced(s) == Within([s EXCEPT !.ws = @ + 1], s.ws < MaxWs, "ERROR_WS")
GoTo(s, st) == Ok([s EXCEPT !.st = st])

\* The end of a start line: CR then LF, or a LF alone unless STRICT_CRLF.
LineEnd(s, c) ==
  CASE c = "CR"                  -> GoTo(s, "LF")
    [] c = "LF" /\ ~conf.strict  -> GoTo(s, "VALID")
    [] OTHER                     -> Bad([s EXCEPT !.st = "ERROR_CRLF"])

\* The states of the automata; those of the letters of HTTP/1.1 are one.
RequestStates ==
  {"METHOD", "URI", "HTTP_H", "CR", "LF", "VALID",
   "ERROR_CRLF", "ERROR_WS", "ERROR_METHOD_LENGTH", "ERROR_URI_LENGTH"}
ResponseStates ==
  {"HTTP_H", "HTTP_WS", "STATUS", "REASON", "CR", "LF", "VALID",
   "ERROR_CRLF", "ERROR_WS", "ERROR_STATUS_VALUE", "ERROR_REASON_LENGTH"}
HeaderStates ==
  {"NAME", "VALUE_LS", "VALUE", "LF", "VALID", "ERROR_LENGTH", "ERROR_CRLF", "ERROR_WS"}
ChunkStates ==
  {"SIZE_LS", "SIZE", "EXTENSION_LS", "EXTENSION", "LF", "VALID",
   "ERROR_LENGTH", "ERROR_CRLF", "ERROR_WS", "ERROR_SIZE"}

\* The start line.
NewRequestLine  == [st |-> "METHOD", method |-> <<>>, uri |-> 0,
                    version |-> "none", ws |-> 0, fail |-> FALSE]
NewResponseLine == [st |-> "HTTP_H", status |-> 0, statusRead |-> FALSE, reason |-> 0,
                    version |-> "none", ws |-> 0, fail |-> FALSE]
NewLine == IF conf.kind = "request" THEN NewRequestLine ELSE NewResponseLine

\* request_line::parse_char
RequestChar(q, c) ==
  CASE q.st = "METHOD" /\ c \in Methods ->
         Within([q EXCEPT !.method = Append(@, c)], Len(q.method) < MaxMethod,
                "ERROR_METHOD_LENGTH")
    [] q.st = "METHOD" /\ c = " " /\ q.method # <<>> ->
         Ok([q EXCEPT !.ws = 1, !.st = "URI"])
    [] q.st = "URI" /\ c = " " /\ (q.uri = 0 \/ q.ws >= MaxWs) -> Spaced(q)
    [] q.st = "URI" /\ c = " " /\ q.uri # 0 /\ q.ws < MaxWs ->
         Ok([q EXCEPT !.ws = 1, !.st = "HTTP_H"])
    [] q.st = "URI" /\ c \notin Eol \union {" "} ->
         Within([q EXCEPT !.uri = @ + 1], q.uri < MaxUri, "ERROR_URI_LENGTH")
    [] q.st = "HTTP_H" /\ c = " " -> Spaced(q)
    [] q.st = "HTTP_H" /\ c \in Versions -> Ok([q EXCEPT !.version = c, !.st = "CR"])
    [] q.st = "CR" -> LineEnd(q, c)
    [] q.st = "LF" /\ c = "LF" -> GoTo(q, "VALID")
    [] OTHER -> Bad(q)

DigitOf(c) == CASE c = "0" -> 0 [] c = "1" -> 1 [] c = "2" -> 2
Value(ds, base) ==
  LET upTo[i \in 0 .. Len(ds)] == IF i = 0 THEN 0 ELSE upTo[i - 1] * base + DigitOf(ds[i])
  IN  upTo[Len(ds)]

ResponseLineEnd(q, c) ==
  CASE q.st # "LF" -> LineEnd(q, c)
    [] q.st = "LF" /\ c = "LF" -> GoTo(q, "VALID")
    [] OTHER -> Bad(q)

\* response_line::parse_char
ResponseChar(q, c) ==
  CASE q.st = "HTTP_H" /\ c = " " -> Spaced(q)
    [] q.st = "HTTP_H" /\ c \in Versions -> Ok([q EXCEPT !.version = c, !.st = "HTTP_WS"])
    [] q.st = "HTTP_WS" /\ c = " " -> Ok([q EXCEPT !.ws = 1, !.st = "STATUS"])
    [] q.st = "STATUS" /\ c \in Digits ->
         LET n == q.status * 10 + DigitOf(c)
         IN  Within([q EXCEPT !.status = n, !.statusRead = TRUE], n <= MaxStatus,
                    "ERROR_STATUS_VALUE")
    [] q.st = "STATUS" /\ c = " " /\ q.statusRead ->
         Ok([q EXCEPT !.ws = 1, !.st = "REASON"])
    [] q.st = "STATUS" /\ c = " " /\ ~q.statusRead -> Spaced(q)
    [] q.st = "REASON" /\ c = " " /\ q.reason = 0 -> Spaced(q)
    [] q.st = "REASON" /\ c \notin Eol /\ ~(c = " " /\ q.reason = 0) ->
         Within([q EXCEPT !.reason = @ + 1], q.reason < MaxReason, "ERROR_REASON_LENGTH")
    [] q.st \in {"CR", "LF"} \/ (q.st = "REASON" /\ c \in Eol) -> ResponseLineEnd(q, c)
    [] OTHER -> Bad(q)

NewField == [st |-> "NAME", name |-> <<>>, value |-> <<>>, length |-> 0, ws |-> 0]

\* The end of a header line or of a chunk extension.
ValueEnd(s, c) ==
  CASE c = "CR" -> GoTo(s, "LF")
    [] c = "LF" /\ conf.strict -> Bad([s EXCEPT !.st = "ERROR_CRLF"])
    [] OTHER -> GoTo(s, "VALID")

\* field_line::parse_char; a complete line goes on when the next character of
\* the same read is blank (parse, "a continuation header").
FieldChar(f, c) ==
  LET folded == IF f.st = "VALID"
                  THEN [f EXCEPT !.value = Append(@, " "), !.st = "VALUE_LS"] ELSE f
      g == [folded EXCEPT !.length = @ + 1]
      valuing == g.st \in {"VALUE_LS", "VALUE"}
  IN IF g.length > MaxLine THEN Bad([g EXCEPT !.st = "ERROR_LENGTH"]) ELSE
     CASE g.st = "NAME" /\ c \in Alpha -> Ok([g EXCEPT !.name = Append(@, c)])
       [] g.st = "NAME" /\ c = ":" -> GoTo(g, "VALUE_LS")
       [] g.st = "VALUE_LS" /\ c = " " -> Spaced(g)
       [] valuing /\ c \notin Eol /\ ~(g.st = "VALUE_LS" /\ c = " ") ->
            Ok([g EXCEPT !.st = "VALUE", !.value = Append(@, c)])
       [] valuing /\ c \in Eol -> ValueEnd(g, c)
       [] g.st = "LF" /\ c = "LF" -> GoTo(g, "VALID")
       [] OTHER -> Bad(g)

NewHeaders == [fields |-> <<>>, field |-> NewField, length |-> 0, valid |-> FALSE]
NewChunk == [st |-> "SIZE_LS", ws |-> 0, length |-> 0, hex |-> <<>>, size |-> 0,
             data |-> 0, trailers |-> NewHeaders, valid |-> FALSE]

\* mutant: the size of a chunk is not compared with the limit.
SizeEndUnlimited(h, c) ==
  LET g == [h EXCEPT !.st = "SIZE", !.size = Value(h.hex, 16)]
  IN CASE h.hex = <<>> -> Bad([g EXCEPT !.st = "ERROR_SIZE"])
       [] h.hex # <<>> /\ c = ";" -> Ok([g EXCEPT !.ws = 0, !.st = "EXTENSION_LS"])
       [] h.hex # <<>> /\ c = "CR" -> GoTo(g, "LF")
       [] OTHER -> IF conf.strict THEN Bad(g) ELSE GoTo(g, "VALID")
\* The end of the size of a chunk: from_hex_string of no digits is -1, which
\* as a size_t is above every limit.
SizeEnd(h, c) ==
  LET g == [h EXCEPT !.st = "SIZE", !.size = Value(h.hex, 16)]
  IN CASE h.hex = <<>> \/ g.size > MaxChunk -> Bad([g EXCEPT !.st = "ERROR_SIZE"])
       [] ~(h.hex = <<>> \/ g.size > MaxChunk) /\ c = ";" ->
            Ok([g EXCEPT !.ws = 0, !.st = "EXTENSION_LS"])
       [] ~(h.hex = <<>> \/ g.size > MaxChunk) /\ c = "CR" -> GoTo(g, "LF")
       [] OTHER -> IF conf.strict THEN Bad(g) ELSE GoTo(g, "VALID")

\* chunk_header::parse_char
ChunkChar(h, c) ==
  LET g == [h EXCEPT !.length = @ + 1]
      sizing == g.st \in {"SIZE_LS", "SIZE"}
      extending == g.st \in {"EXTENSION_LS", "EXTENSION"}
  IN IF g.length > MaxLine THEN Bad([g EXCEPT !.st = "ERROR_LENGTH"]) ELSE
     CASE g.st = "SIZE_LS" /\ c = " " -> Spaced(g)
       [] sizing /\ c \in Digits ->
            Within([g EXCEPT !.hex = Append(@, c), !.st = "SIZE"], Len(g.hex) < MaxDigits,
                   "ERROR_SIZE")
       [] sizing /\ c \in Eol \union {";"} -> SizeEnd(g, c)
       [] g.st = "EXTENSION_LS" /\ c = " " ->
            IF g.ws < MaxWs THEN Spaced(g) ELSE Bad([g EXCEPT !.ws = @ + 1])
       [] extending /\ c \notin Eol /\ ~(g.st = "EXTENSION_LS" /\ c = " ") ->
            GoTo(g, "EXTENSION")
       [] extending /\ c \in Eol -> ValueEnd(g, c)
       [] g.st = "LF" /\ c = "LF" -> GoTo(g, "VALID")
       [] OTHER -> Bad(g)

----------------------------------------------------------------------------
(* Buffer by buffer.  A parse returns what it leaves of the buffer and       *)
(* whether it is ok; bad tells an error from having run out of data, which    *)
(* the code does not always do.                                             *)

Parsed(s, rest, ok, bad) == [to |-> s, rest |-> rest, ok |-> ok, bad |-> bad]
From(buf, i) == SubSeq(buf, i, Len(buf))

\* parse_char of a line, and the condition of the loop around it: a complete
\* header line goes on when a blank follows.
ParseChar(line, s, c) ==
  CASE line = "request"  -> RequestChar(s, c)
    [] line = "response" -> ResponseChar(s, c)
    [] line = "field"    -> FieldChar(s, c)
    [] line = "chunk"    -> ChunkChar(s, c)
GoesOn(line, s, c) == s.st # "VALID" \/ (line = "field" /\ c = " ")

\* The loop of every parse: feed characters while there are some.  after[i] holds
\* the one state after i turns; a set, for TLC to evaluate a turn before the next.
Element(S) == CHOOSE x \in S : TRUE
Fed(n, used) == [to |-> n.to, ok |-> n.ok, used |-> used, open |-> TRUE]
Feed(line, p, c) ==
  IF p.open /\ p.ok /\ GoesOn(line, p.to, c) THEN Fed(ParseChar(line, p.to, c), p.used + 1)
                                             ELSE [p EXCEPT !.open = FALSE]
Scanned(p, buf) ==
  Parsed(p.to, From(buf, p.used + 1), p.ok /\ p.to.st = "VALID", ~p.ok)
Scan(line, s, buf) ==
  LET after[i \in 0 .. Len(buf)] ==
        IF i = 0 THEN {[to |-> s, ok |-> TRUE, used |-> 0, open |-> TRUE]}
                 ELSE {Feed(line, p, buf[i]) : p \in after[i - 1]}
  IN  Scanned(Element(after[Len(buf)]), buf)

Failing(p) == [p EXCEPT !.to.fail = p.bad]
RequestLineParse(q, buf)  == Failing(Scan("request", q, buf))
ResponseLineParse(q, buf) == Failing(Scan("response", q, buf))

\* message_headers::add: a repeated name appends to its value.
AddField(fields, name, value) ==
  IF name \in DOMAIN fields
    THEN [fields EXCEPT ![name] = @ \o <<",">> \o value]
    ELSE [n \in DOMAIN fields \union {name} |-> IF n = name THEN value ELSE fields[n]]

\* The blank line after the header lines.
BlankLine(h, buf) ==
  LET r == IF buf # <<>> /\ Head(buf) = "CR" THEN Tail(buf) ELSE buf
  IN  IF r # <<>> /\ Head(r) = "LF" THEN Parsed([h EXCEPT !.valid = TRUE], Tail(r), TRUE, FALSE)
                                    ELSE Parsed(h, r, FALSE, r # <<>>)

\* message_headers::parse.  A turn of its loop reads a header line, of one
\* character at least; it goes on while it is ok.
FieldParsed(p, h) ==
  LET f == p.to
      next == [h EXCEPT !.length = @ + Len(f.name) + Len(f.value),
                        !.fields = AddField(@, f.name, f.value), !.field = NewField]
      over == next.length > MaxHeaderLength \/ Cardinality(DOMAIN next.fields) > MaxHeaders
  IN  IF p.ok THEN Parsed(next, p.rest, ~over, over)
              ELSE Parsed([h EXCEPT !.field = f], p.rest, FALSE, p.bad)
FieldTurn(p) ==
  IF p.ok /\ p.rest # <<>> /\ Head(p.rest) \notin Eol
    THEN FieldParsed(Scan("field", p.to.field, p.rest), p.to) ELSE p
FieldsParsed(p) == IF p.ok THEN BlankLine(p.to, p.rest) ELSE p
HeadersParse(h, buf) ==
  LET after[i \in 0 .. Len(buf)] ==
        IF i = 0 THEN {Parsed(h, buf, TRUE, FALSE)} ELSE {FieldTurn(p) : p \in after[i - 1]}
  IN  FieldsParsed(Element(after[Len(buf)]))

FieldValue(h, name) == IF <<name>> \in DOMAIN h.fields THEN h.fields[<<name>>] ELSE <<>>
ContentLength(h) ==
  LET v == FieldValue(h, "content-length")
  IN  CASE v = <<>> -> 0 [] v # <<>> /\ Range(v) \subseteq Digits -> Value(v, 10) [] OTHER -> -1
IsChunked(h) ==
  LET v == FieldValue(h, "transfer-encoding") IN v # <<>> /\ "identity" \notin Range(v)

\* The data of a chunk and the end of line after it.
ChunkData(k, buf) ==
  LET need  == k.size - k.data
      full  == [k EXCEPT !.data = k.size]
      after == From(buf, need + 1)
      r     == IF Head(after) = "CR" THEN Tail(after) ELSE after
  IN CASE Len(buf) <= need -> Parsed([k EXCEPT !.data = @ + Len(buf)], <<>>, FALSE, FALSE)
       [] Len(buf) > need /\ Head(after) # "CR" /\ conf.strict ->
            Parsed(full, after, FALSE, TRUE)
       [] Len(buf) > need /\ (Head(after) = "CR" \/ ~conf.strict) ->
            IF r = <<>> \/ Head(r) # "LF" THEN Parsed(full, r, FALSE, r # <<>>)
            ELSE Parsed([full EXCEPT !.valid = TRUE], Tail(r), TRUE, FALSE)

\* rx_chunk::parse
TrailersParsed(t, k) == [t EXCEPT !.to = [k EXCEPT !.trailers = t.to, !.valid = t.ok]]
ChunkHeaderParsed(p) ==
  CASE ~p.ok -> p
    [] p.ok /\ p.to.size = 0 -> TrailersParsed(HeadersParse(p.to.trailers, p.rest), p.to)
    [] OTHER -> ChunkData(p.to, p.rest)
ChunkParse(k, buf) ==
  ChunkHeaderParsed(IF k.st = "VALID" THEN Parsed(k, buf, TRUE, FALSE)
                                      ELSE Scan("chunk", k, buf))

----------------------------------------------------------------------------
(* request_receiver and response_receiver.                                   *)

NewRx == [line |-> NewLine, headers |-> NewHeaders, valid |-> FALSE, chunk |-> NewChunk,
          body |-> 0, code |-> "NO_CONTENT", continued |-> FALSE, head |-> FALSE]
Clear(r) == [NewRx EXCEPT !.code = r.code]      \* the response code is kept

Verdict(r, rest, verdict, bad) == [to |-> r, rest |-> rest, verdict |-> verdict, bad |-> bad]
Refuse(r, rest, code) == Verdict(Clear([r EXCEPT !.code = code]), rest, "INVALID", TRUE)

\* rx_request::parse, rx_response::parse
HeadersParsed(h, r) == [h EXCEPT !.to = [r EXCEPT !.headers = h.to, !.valid = h.ok]]
LineParsed(l, r) ==
  LET q == [r EXCEPT !.line = l.to]
  IN  IF l.ok THEN HeadersParsed(HeadersParse(r.headers, l.rest), q) ELSE [l EXCEPT !.to = q]
LineParse(l, buf) ==
  CASE l.st = "VALID" -> Parsed(l, buf, TRUE, FALSE)
    [] l.st # "VALID" /\ conf.kind = "request"  -> RequestLineParse(l, buf)
    [] l.st # "VALID" /\ conf.kind = "response" -> ResponseLineParse(l, buf)
MessageParse(r, buf) == LineParsed(LineParse(r.line, buf), r)

SyntaxCode(r) ==
  CASE r.line.st = "ERROR_METHOD_LENGTH" -> "NOT_IMPLEMENTED"
    [] r.line.st = "ERROR_URI_LENGTH"    -> "REQUEST_URI_TOO_LONG"
    [] OTHER                             -> "BAD_REQUEST"

MissingHost(r) ==
  r.line.version = "HTTP/1.1" /\ FieldValue(r.headers, "host") = <<>>
IsHttp10(l) == l.version = "HTTP/1.0"
HasExpectation(h) == "100-continue" \in Range(FieldValue(h, "expect"))
ExpectContinue(r) == ~IsHttp10(r.line) /\ HasExpectation(r.headers)
IsMethod(r, m) == r.line.method = <<m>>

\* mutant: what earlier reads brought is forgotten.
TakeBodyAfresh(r, buf, n) ==
  LET take == IF Len(buf) > n - r.body THEN n - r.body ELSE Len(buf)
  IN  [to |-> [r EXCEPT !.body = take], rest |-> From(buf, take + 1)]
\* The body of length n: what the buffer holds of it, up to its end.
TakeBody(r, buf, n) ==
  LET take == IF Len(buf) > n - r.body THEN n - r.body ELSE Len(buf)
  IN  [to |-> [r EXCEPT !.body = @ + take], rest |-> From(buf, take + 1)]

\* mutant: content of exactly the maximum length is refused.
RequestBodyTooStrict(r, buf) ==
  LET n == ContentLength(r.headers)
      t == TakeBody(r, buf, n)
  IN CASE n < 0 -> Refuse(r, buf, "BAD_REQUEST")
       [] n >= MaxContent -> Refuse(r, buf, "PAYLOAD_TOO_LARGE")
       [] n = 0 /\ buf # <<>> /\ FieldValue(r.headers, "content-length") = <<>> ->
            Refuse(r, buf, "LENGTH_REQUIRED")
       [] OTHER -> Verdict(t.to, t.rest, IF t.to.body = n THEN "VALID" ELSE "INCOMPLETE", FALSE)

RequestBody(r, buf) ==
  LET n == ContentLength(r.headers)
      t == TakeBody(r, buf, n)
      q == IF IsMethod(r, "TRACE") THEN [t.to EXCEPT !.code = "METHOD_NOT_ALLOWED"] ELSE t.to
      done == [q EXCEPT !.head = IsMethod(r, "HEAD"),
                        !.line.method = IF IsMethod(r, "HEAD") /\ conf.translate
                                          THEN <<"GET">> ELSE @]
  IN CASE n < 0 \/ (IsMethod(r, "TRACE") /\ n # 0) -> Refuse(r, buf, "BAD_REQUEST")
       [] n > MaxContent /\ ~IsMethod(r, "TRACE")  -> Refuse(r, buf, "PAYLOAD_TOO_LARGE")
       [] n = 0 /\ buf # <<>> /\ FieldValue(r.headers, "content-length") = <<>> ->
            Refuse(r, buf, "LENGTH_REQUIRED")
       [] OTHER -> IF q.body = n THEN Verdict(done, t.rest, "VALID", FALSE)
                                 ELSE Verdict(q, t.rest, "INCOMPLETE", FALSE)

\* A chunk that has been read is cleared when the next data arrives.
Chunk(r) == IF r.chunk.valid THEN NewChunk ELSE r.chunk

RequestChunkParsed(p, r) ==
  LET q == [r EXCEPT !.chunk = p.to]
  IN CASE ~p.ok -> IF p.rest # <<>> THEN Refuse(q, p.rest, "BAD_REQUEST")
                                    ELSE Verdict(q, <<>>, "INCOMPLETE", p.bad)
       [] p.ok /\ ~conf.concat -> Verdict(q, p.rest, "CHUNK", FALSE)
       [] p.ok /\ conf.concat /\ p.to.size = 0 -> Verdict(q, p.rest, "VALID", FALSE)
       [] OTHER ->
            IF r.body + p.to.data > MaxContent
              THEN Refuse(q, p.rest, "PAYLOAD_TOO_LARGE")
              ELSE Verdict([q EXCEPT !.body = @ + p.to.data], p.rest, "INCOMPLETE", FALSE)
RequestChunk(r, buf, parsed) ==
  LET c == [r EXCEPT !.chunk = Chunk(r)]
  IN CASE parsed /\ ExpectContinue(r) /\ ~r.continued ->
            Verdict([c EXCEPT !.code = "CONTINUE"], buf, "EXPECT_CONTINUE", FALSE)
       [] parsed /\ ~(ExpectContinue(r) /\ ~r.continued) /\ ~conf.concat ->
            Verdict(c, buf, "VALID", FALSE)
       [] OTHER -> RequestChunkParsed(ChunkParse(Chunk(r), buf), r)

\* The start line and the headers, when they are not complete yet; ok says
\* that r has them all.
Start(r, buf) == IF r.valid THEN Parsed(r, buf, TRUE, FALSE) ELSE MessageParse(r, buf)

\* request_receiver::receive, from the end of Start on: p is what it leaves.
RequestStarted(p, r) ==
  CASE ~p.ok /\ (p.rest # <<>> \/ p.to.line.fail) -> Refuse(p.to, p.rest, SyntaxCode(p.to))
    [] ~p.ok /\ p.rest = <<>> /\ ~p.to.line.fail ->
         Verdict(p.to, <<>>, "INCOMPLETE", p.bad)
    [] p.ok /\ MissingHost(p.to) ->
         Verdict([p.to EXCEPT !.code = "BAD_REQUEST"], p.rest, "INVALID", TRUE)
    [] p.ok /\ ~MissingHost(p.to) /\ ~IsChunked(p.to.headers) -> RequestBody(p.to, p.rest)
    [] OTHER -> RequestChunk(p.to, p.rest, ~r.valid)
RequestReceive(r, buf) == RequestStarted(Start(r, buf), r)

\* mutant: without a length nothing is taken.
ResponseBodyClosed(r, buf) ==
  LET n == ContentLength(r.headers)
      t == TakeBody(r, buf, n)
  IN IF n < 0 THEN Refuse(r, buf, r.code)
     ELSE Verdict(t.to, t.rest,
                  IF t.to.body = n /\ buf = <<>> THEN "VALID" ELSE "INCOMPLETE", FALSE)

\* A response without a length takes up to max_body_size_ of what follows it,
\* and is complete only when nothing does.
ResponseBody(r, buf) ==
  LET n == ContentLength(r.headers)
      open == buf # <<>> /\ n = 0 /\ FieldValue(r.headers, "content-length") = <<>>
      t == TakeBody(r, buf, IF open THEN MaxBody ELSE n)
  IN IF n < 0 THEN Refuse(r, buf, r.code)
     ELSE Verdict(t.to, t.rest, IF t.to.body = n THEN "VALID" ELSE "INCOMPLETE", FALSE)

ResponseChunkParsed(p, r) ==
  LET q == [r EXCEPT !.chunk = p.to]
  IN CASE p.ok -> Verdict(q, p.rest, "CHUNK", FALSE)
       [] ~p.ok /\ p.rest # <<>> -> Refuse(q, p.rest, r.code)
       [] OTHER -> Verdict(q, <<>>, "INCOMPLETE", p.bad)
ResponseChunk(r, buf, parsed) ==
  IF parsed THEN Verdict([r EXCEPT !.chunk = Chunk(r)], buf, "VALID", FALSE)
            ELSE ResponseChunkParsed(ChunkParse(Chunk(r), buf), r)

\* response_receiver::receive
ResponseStarted(p, r) ==
  CASE ~p.ok /\ (p.rest # <<>> \/ p.to.line.fail) -> Refuse(p.to, p.rest, r.code)
    [] ~p.ok /\ p.rest = <<>> /\ ~p.to.line.fail ->
         Verdict(p.to, <<>>, "INCOMPLETE", p.bad)
    [] p.ok /\ ~IsChunked(p.to.headers) -> ResponseBody(p.to, p.rest)
    [] OTHER -> ResponseChunk(p.to, p.rest, ~r.valid)
ResponseReceive(r, buf) == ResponseStarted(Start(r, buf), r)

----------------------------------------------------------------------------
(* The receive loops: receive_handler of http_server and of http_client.      *)
(* The server's application answers a request at once, which clears the       *)
(* receiver; module HttpExchange has the answers that come later.             *)

Event(is, what, size) == [is |-> is, what |-> what, size |-> size]
Seen(v) ==
  LET q == v.to IN
  CASE v.verdict = "VALID" ->
         Event("VALID", IF conf.kind = "request" THEN q.line.method ELSE q.line.status, q.body)
    [] v.verdict = "INVALID" -> Event("INVALID", q.code, 0)
    [] v.verdict = "CHUNK" -> Event("CHUNK", "data", q.chunk.data)
    [] v.verdict = "EXPECT_CONTINUE" -> Event("EXPECT_CONTINUE", q.code, 0)

Receive(r, buf) ==
  IF conf.kind = "request" THEN RequestReceive(r, buf) ELSE ResponseReceive(r, buf)

\* The verdicts after which the loop, or the answer to them, clears the receiver.
Finished(v) ==
  \/ v.verdict = "VALID" /\ ~IsChunked(v.to.headers)
  \/ v.verdict = "VALID" /\ conf.kind = "request" /\ conf.concat
  \/ v.verdict = "CHUNK" /\ v.to.chunk.size = 0
  \/ v.verdict = "INVALID"

AfterVerdict(v) ==
  CASE Finished(v) -> Clear(v.to)
    [] v.verdict = "EXPECT_CONTINUE" -> [v.to EXCEPT !.continued = TRUE]
    [] OTHER -> v.to

Bare(r) == FieldValue(r.headers, "content-length") = <<>> /\ ~IsChunked(r.headers)

\* mutant: the loop ends with the first message, and what follows it is lost.
ReceivedOnce(v, l) ==
  [rx |-> AfterVerdict(v), rest |-> v.rest, odd |-> FALSE, on |-> FALSE,
   out |-> IF v.verdict = "INCOMPLETE" THEN l.out ELSE Append(l.out, Seen(v))]
\* One read.  A turn of the loop hands the rest of the data to the receiver.  It
\* takes something of it, or it takes nothing and changes nothing, and then it
\* is repeated for ever: the loop is stuck.
Received(v, l) ==
  IF v.verdict = "INCOMPLETE" /\ v.rest = l.rest /\ v.to = l.rx
    THEN [l EXCEPT !.out = Append(@, Event("STUCK", "", l.rx.body)), !.odd = FALSE, !.on = FALSE]
    ELSE [rx   |-> AfterVerdict(v),
          rest |-> v.rest,
          out  |-> IF v.verdict = "INCOMPLETE" THEN l.out ELSE Append(l.out, Seen(v)),
          odd  |-> (v.verdict = "INCOMPLETE" /\ v.bad) \/ (v.verdict = "VALID" /\ Bare(v.to)),
          on   |-> v.verdict # "INVALID" /\ v.rest # <<>>]
Turn(l) == IF l.on THEN Received(Receive(l.rx, l.rest), l) ELSE l
ReceiveLoop(r, buf, o) ==
  LET after[i \in 0 .. Len(buf)] ==
        IF i = 0 THEN {[rx |-> r, rest |-> buf, out |-> o, odd |-> FALSE, on |-> TRUE]}
                 ELSE {Turn(l) : l \in after[i - 1]}
  IN  Element(after[Len(buf)])

----------------------------------------------------------------------------
(* The stream, cut into reads.                                               *)

Refused == out # <<>> /\ Last(out).is \in {"INVALID", "STUCK"}
Done == Refused \/ pos = Len(peer.stream)

\* The header lines that are being read: of the message, or of the last chunk.
Section(r) == IF r.valid THEN r.chunk.trailers ELSE r.headers

\* The cuts that the parsers are sensitive to, c being the first token after:
\* within a header line, right before its end (the line is taken for the blank
\* one); before the blank that continues a header line; and after a CR, where
\* the receiver does not keep it: in the blank line, if no LF follows, and after
\* the data of a chunk, if a CR follows, or with STRICT_CRLF the LF.
CutBeforeLineEnd(r, c) == Section(r).field # NewField /\ c \in Eol
CutBeforeFolding(r, c) ==
  Section(r).fields # <<>> /\ Section(r).field = NewField /\ c = " "
InChunk(r) == r.valid /\ r.chunk.st = "VALID" /\ ~r.chunk.valid
CutInBlankLine(r, c) ==
  c # "LF" /\ IF r.valid THEN InChunk(r) /\ r.chunk.size = 0 ELSE r.line.st = "VALID"
CutAfterData(r, c) ==
  /\ InChunk(r) /\ r.chunk.size # 0 /\ r.chunk.data = r.chunk.size
  /\ c = "CR" \/ (conf.strict /\ c = "LF")

BadCut(r, odd, p) ==
  p < Len(peer.stream) /\
  LET c == peer.stream[p + 1]
  IN  \/ odd \/ CutBeforeLineEnd(r, c) \/ CutBeforeFolding(r, c)
      \/ peer.stream[p] = "CR" /\ (CutInBlankLine(r, c) \/ CutAfterData(r, c))

\* The connection's receive_handler is called with the next n tokens.
Read(n) ==
  /\ ~Done /\ pos + n <= Len(peer.stream)
  /\ \E l \in {ReceiveLoop(rx, SubSeq(peer.stream, pos + 1, pos + n), out)} :
        /\ rx' = l.rx
        /\ out' = l.out
        /\ excused' = (excused \/ BadCut(l.rx, l.odd, pos + n))
  /\ pos' = pos + n
  /\ UNCHANGED <<conf, peer>>

Init ==
  /\ conf \in Configs
  /\ peer \in {m \in Messages : m.kind = conf.kind}
  /\ pos = 0
  /\ rx = NewRx
  /\ out = <<>>
  /\ excused = FALSE

Next == \E n \in ReadSizes \union {Len(peer.stream) - pos} : Read(n)

Spec == Init /\ [][Next]_vars

----------------------------------------------------------------------------

\* Type invariant: the receiver is in a state that some prefix of the input
\* leaves, with every count within what its limit lets it reach.
ReceiverTypeOK ==
  /\ pos \in 0..Len(peer.stream)
  /\ rx.line.ws \in 0..MaxWs
  /\ IF conf.kind = "request"
       THEN /\ rx.line.st \in RequestStates
            /\ Len(rx.line.method) \in 0..MaxMethod /\ rx.line.uri \in 0..MaxUri
       ELSE rx.line.st \in ResponseStates /\ rx.line.reason \in 0..MaxReason
  /\ Section(rx).field.st \in HeaderStates /\ rx.chunk.st \in ChunkStates
  /\ rx.body \in Nat
  /\ ~excused /\ pos < Len(peer.stream) =>
       /\ Section(rx).field.length \in 0..MaxLine
       /\ Cardinality(DOMAIN Section(rx).fields) <= MaxHeaders
  /\ excused \in BOOLEAN

\* A message divided into any reads is understood as the same message in one
\* read, but for the cuts named above and for the two cases of odd: an error at
\* the last character of a read of headers or of a chunk (request.hpp tells it
\* from running out of data by the iterator), and a message without a length
\* (whether data follows in the same read decides).
Whole == ReceiveLoop(NewRx, peer.stream, <<>>).out
CutDoesNotMatter == Done /\ ~excused => out = Whole

\* docs/Design_HTTP.md:31 says of the parsers that they can handle "requests and
\* responses where an HTTP message is divided across multiple message packets".
\* A read that ends within a header line, right before its CR or LF, loses that
\* line and ends the headers.
DividedMessageIsUnderstood == Done /\ peer.means # <<>> => out = Whole

\* What the receiver keeps and hands on never exceeds the limits it was built
\* with: the body of a request, the data of a chunk, the names and the header
\* lines of a message that was accepted.
LimitsHold ==
  /\ conf.kind = "request" => rx.body <= MaxContent
  /\ rx.chunk.data <= MaxChunk
  /\ rx.valid /\ ~excused =>
                 /\ rx.headers.length <= MaxHeaderLength
                 /\ Cardinality(DOMAIN rx.headers.fields) <= MaxHeaders
                 /\ conf.kind = "request" =>
                      Len(rx.line.method) <= MaxMethod /\ rx.line.uri <= MaxUri
  /\ \A i \in DOMAIN out : out[i].is = "CHUNK" => out[i].size <= MaxChunk

\* The receive loop ends: every call of receive takes something from the buffer
\* or moves the receiver on.  The one exception: a response without a length,
\* followed by more than max_body_size_, of which nothing is taken any more.
LoopAdvances ==
  out # <<>> /\ Last(out).is = "STUCK" =>
    conf.kind = "response" /\ Bare(rx) /\ rx.body = MaxBody

\* A read is taken whole: the loop is over after at most as many turns as the
\* read has tokens, and leaves none of them to the next message, unless it has
\* refused the message or is stuck.
ReadIsTaken ==
  [][LET l == ReceiveLoop(rx, SubSeq(peer.stream, pos + 1, pos'), out)
     IN  ~l.on /\ (l.rest = <<>> \/ Refused')]_vars
=============================================================================
