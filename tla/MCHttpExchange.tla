--------------------------- MODULE MCHttpExchange ---------------------------
(***************************************************************************)
(* HttpExchange with a table of two routes, and the answers that the table *)
(* promises (docs/Server_Configuration.md), stated without the searches    *)
(* and the splits of the code.                                             *)
(***************************************************************************)
EXTENDS HttpExchange

Handled(name, users) == [name |-> name, users |-> users]

U == <<"u">>
P == <<"p">>

Users == [u \in {U} |-> P]

\* /a for everyone; /a/:v for the users.  The second GET of /a is refused.
Routes ==
  {<< [method |-> "GET",  path |-> <<"/", "a">>, handler |-> Handled("get", Nobody)],
      [method |-> "POST", path |-> <<"/", "a">>, handler |-> Handled("post", Nobody)],
      [method |-> "GET",  path |-> <<"/", "a">>, handler |-> Handled("again", Nobody)],
      [method |-> "GET",  path |-> <<"/", "a", "/", ":", "v">>,
       handler |-> Handled("value", Users)] >>}

Credentials(scheme, text) == <<Word(scheme), Base64(text)>>

UsersCredentials == Credentials("Basic", U \o <<":">> \o P)

Request == [method |-> "GET", uri |-> <<"/", "a">>, authorization |-> <<>>,
            body |-> FALSE, chunks |-> 0, expect |-> FALSE, keep |-> TRUE]

Value == <<"/", "a", "/", "b">>

\* What is asked in every mode, and what a careful client asks a router.
FewRequests ==
  { [Request EXCEPT !.uri = @ \o <<"#", "?">>],
    [Request EXCEPT !.method = "POST", !.body = TRUE, !.keep = FALSE],
    [Request EXCEPT !.method = "POST", !.chunks = 2, !.expect = TRUE] }

ManyRequests == FewRequests \cup
  { [Request EXCEPT !.method = "HEAD", !.keep = FALSE],
    [Request EXCEPT !.method = "HEAD", !.uri = <<"/", "b">>],
    [Request EXCEPT !.method = "TRACE"],
    [Request EXCEPT !.method = "PUT", !.chunks = 1],
    [Request EXCEPT !.uri = Value],
    [Request EXCEPT !.uri = Value \o <<"?", "b", "#">>, !.authorization = UsersCredentials],
    [Request EXCEPT !.uri = Value, !.authorization = Credentials("Basic", U \o <<":">> \o U)],
    [Request EXCEPT !.uri = Value, !.authorization = <<Word("Bearer")>> \o UsersCredentials],
    [Request EXCEPT !.uri = Value,
                    !.authorization = Credentials("Bearer", U \o <<":">> \o P)],
    [Request EXCEPT !.uri = Value, !.authorization = <<Word("Basic")>>],
    [Request EXCEPT !.uri = Value \o <<"/">>, !.authorization = UsersCredentials] }

-----------------------------------------------------------------------------
(* A uri is a path and then nothing, a query or a fragment.                *)
PathOf(uri) ==
  CHOOSE p \in {SubSeq(uri, 1, i) : i \in 0 .. Len(uri)} :
    /\ {"?", "#"} \cap ToSet(p) = {}
    /\ p = uri \/ uri[Len(p) + 1] \in {"?", "#"}

\* The calls that apply to a path and a method: a parameter stands for one
\* segment.
Parameter(path, calls_path) ==
  {v \in {SubSeq(path, i, Len(path)) : i \in 1 .. Len(path) + 1} :
     /\ "/" \notin ToSet(v)
     /\ \E pre \in {SubSeq(calls_path, 1, i) : i \in DOMAIN calls_path} :
          path = pre \o v /\ calls_path = pre \o <<":", "v">>}

ServedBy(call, path) ==
  path = call.path \/ Parameter(path, call.path) # {}

\* The header ends with the word Basic and then, in base64, a user and the
\* password.
May(call, request) ==
  call.handler.users = Nobody \/
  \E u \in DOMAIN call.handler.users, w \in EndsInBasic :
    IsSuffix(<<w, Base64(u \o <<":">> \o call.handler.users[u])>>, request.authorization)

\* Nothing follows the word Basic.
Bare(call, request) ==
  /\ call.handler.users # Nobody
  /\ \E w \in EndsInBasic : IsSuffix(<<w>>, request.authorization)

\* The answer of the routes, tabulated.
Routed ==
  [calls \in Registrations |-> [request \in Requests |->
    LET path == PathOf(request.uri)
        method == IF request.method = "HEAD" THEN "GET" ELSE request.method
        serving == {i \in DOMAIN calls : ServedBy(calls[i], path)}
        called == {i \in serving : calls[i].method = method}
        first == calls[Min(called)]
        values == Parameter(path, first.path)
    IN  IF serving = {} THEN Refusal("NOT_FOUND")
        ELSE IF called = {} THEN Refusal("METHOD_NOT_ALLOWED")
        ELSE IF Bare(first, request) THEN Thrown
        ELSE IF ~May(first, request) THEN Refusal("UNAUTHORISED")
        ELSE Answer("OK", first.handler.name,
                    IF values = {} THEN NoParameters
                    ELSE [n \in {<<"v">>} |-> CHOOSE v \in values : TRUE])]]

Promised(calls, request) ==
  CASE request.method = "TRACE" /\ mode.trace  -> Answer("OK", "trace", NoParameters)
    [] request.method = "TRACE" /\ ~mode.trace -> Refusal("METHOD_NOT_ALLOWED")
    [] request.method # "TRACE" /\ mode.server = "stream" -> Answer("OK", "stream", NoParameters)
    [] OTHER -> Routed[calls][request]

Final(answers) == SelectSeq(answers, LAMBDA a : a.answer # Refusal("CONTINUE"))

Prompt == mode.careful /\ mode.server # "late"

(* A client that waits for each answer gets, in the order it asked and     *)
(* whole, the answers that the server's table of routes and passwords      *)
(* promises, and a 100 Continue only for a request that expects it: when   *)
(* the server answers in its request handler, at once or in chunks.  A     *)
(* password is good after any word that ends in Basic.                     *)
AnswersMatch ==
  Prompt =>
    LET final == Final(client.got)
    IN  /\ Len(final) <= Len(client.asked)
        /\ \A i \in DOMAIN final :
             /\ final[i].of = i /\ final[i].whole
             /\ final[i].answer = Promised(routes, Asked(i))
        /\ \A i \in DOMAIN client.got :
             client.got[i].answer = Refusal("CONTINUE") => Asked(client.got[i].of).expect

(* Every request is answered until one does not keep the connection or has *)
(* an Authorization header that is_valid throws for, a bare Basic on a     *)
(* route with users; when the client waits for each answer and the server  *)
(* answers in its handler.  http_client never gets the answer to a HEAD    *)
(* that has content, for it waits for the body.                            *)
EveryRequestIsAnswered ==
  \A i \in 1 .. MaxRequests :
    (/\ Prompt /\ i \in DOMAIN client.asked
     /\ \A j \in 1 .. i : Asked(j).keep /\ Promised(routes, Asked(j)) # Thrown
     /\ Asked(i).method = "HEAD" => Promised(routes, Asked(i)).status # "OK")
    ~> (i \in DOMAIN Final(client.got))
=============================================================================
