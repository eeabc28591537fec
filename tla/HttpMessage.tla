---------------------------- MODULE HttpMessage ----------------------------
(***************************************************************************)
(* The encoders: tx_request, tx_response, chunk_header and last_chunk turn a  *)
(* message into the tokens of HttpReceiver.  A header string is a sequence of *)
(* tokens too, made with add_header.                                         *)
(***************************************************************************)
EXTENDS Integers, Sequences, SequencesExt

CONSTANT NoContentStatus      \* the statuses whose responses have no content: 1xx, 204, 304

Crlf == <<"CR", "LF">>

\* to_header(name, value); the separator is ": ".
ToHeader(name, value) == <<name, ":", " ">> \o value \o Crlf

DigitToken(n) == CASE n = 0 -> "0" [] n = 1 -> "1" [] n = 2 -> "2"
ToHexString(n) == <<DigitToken(n)>>           \* sizes of one digit
ContentLengthHeader(n) == ToHeader("content-length", <<DigitToken(n)>>)
ChunkedHeader == ToHeader("transfer-encoding", <<"chunked">>)

RequestLine(method, uri, version) == method \o <<" ">> \o uri \o <<" ", version>> \o Crlf
ResponseLine(version, status, reason) ==
  <<version, " ">> \o status \o <<" ">> \o reason \o Crlf

Mentions(headers, name) == name \in Range(headers)

\* message(content_length): a content length unless the headers have one, or a
\* transfer encoding, or the status of a response permits no content.
EncodeRequest(line, headers, n) ==
  line \o headers
    \o (IF ~Mentions(headers, "content-length") /\ ~Mentions(headers, "transfer-encoding")
          THEN ContentLengthHeader(n) ELSE <<>>) \o Crlf

ContentPermitted(status) == status \notin NoContentStatus
EncodeResponse(line, status, headers, n) ==
  line \o headers
    \o (IF ~Mentions(headers, "content-length") /\ ~Mentions(headers, "transfer-encoding")
           /\ ContentPermitted(status)
          THEN ContentLengthHeader(n) ELSE <<>>) \o Crlf

\* chunk_header::to_string and the buffers of send_chunk, last_chunk::to_string
EncodeChunk(size, extension) ==
  ToHexString(size) \o (IF extension = <<>> THEN <<>> ELSE <<";", " ">> \o extension) \o Crlf
SendChunk(data, extension) == EncodeChunk(Len(data), extension) \o data \o Crlf
EncodeLastChunk(extension, trailers) ==
  <<"0">> \o (IF extension = <<>> THEN <<>> ELSE <<";", " ">> \o extension)
    \o Crlf \o trailers \o Crlf

\* are_headers_split: a line feed that ends an empty line of the header string.
HeadersSplit(headers) ==
  LET Prev(i) == IF i > 0 THEN headers[i] ELSE "none"
  IN \E i \in DOMAIN headers :
       /\ headers[i] = "LF"
       /\ \/ Prev(i - 1) = "LF"
          \/ Prev(i - 1) = "CR" /\ Prev(i - 2) = "LF"

\* set_header_string and is_valid of tx_response
IsValid(headers) == ~HeadersSplit(headers)
=============================================================================
