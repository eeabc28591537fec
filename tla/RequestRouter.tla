--------------------------- MODULE RequestRouter ---------------------------
(***************************************************************************)
(* request_router: the routes an application registers with add_method and *)
(* what handle_request makes of a request; with it request_uri, split and  *)
(* basic authentication.                                                   *)
(*                                                                         *)
(* A path is a sequence of characters: "/", ":", "?", "#" and letters.     *)
(* Positions count from 1, and 0 stands for std::string::npos.             *)
(***************************************************************************)
EXTENDS Naturals, Sequences, SequencesExt, FiniteSets, FiniteSetsExt

Positions(s, c) == {i \in DOMAIN s : s[i] = c}

Find(s, c) == IF Positions(s, c) = {} THEN 0 ELSE Min(Positions(s, c))

(* std::string::find of a string: it may be anywhere in s.                 *)
FoundIn(s, t) == \E i \in 0 .. (Len(s) - Len(t)) : SubSeq(s, i + 1, i + Len(t)) = t

Upto(s, i) == IF i = 0 THEN s ELSE SubSeq(s, 1, i - 1)
From(s, i) == SubSeq(s, i, Len(s))

(* request_uri: what comes before the query and the fragment.  A "?" inside*)
(* the fragment starts no query.                                           *)
UriPath(uri) ==
  LET query == Find(uri, "?")
      fragment == Find(uri, "#")
      has_query == query # 0 /\ (fragment = 0 \/ query < fragment)
  IN  Upto(uri, IF has_query THEN query ELSE fragment)

(* split.  substr takes a length where the code passes a position, so that *)
(* a string in the middle runs on as far as the number of characters       *)
(* before its end.                                                         *)
Split(s, c) ==
  LET ends   == SetToSortSeq(Positions(s, c), <)
      starts == <<1>> \o [i \in DOMAIN ends |-> ends[i] + 1]
      Upper(i) == Min({Len(s), starts[i] + ends[i] - 2})
  IN  [i \in DOMAIN ends |-> SubSeq(s, starts[i], Upper(i))]
        \o <<From(s, Last(starts))>>

-----------------------------------------------------------------------------
(* Route and get_route_parameters.                                         *)
SearchPath(path) == Upto(path, Find(path, ":"))
HasParameters(path) == SearchPath(path) # path

NoParameters == <<>>

(* Parameters: a map from names without their ":" to values.  A segment    *)
(* that is no parameter must be the same, and is entered too, without its  *)
(* first character.                                                        *)
RouteParameters(uri_path, path) ==
  LET start  == Find(path, ":")
      names  == Split(From(path, start), "/")
      values == Split(From(uri_path, start), "/")
      Literal(i) == names[i] = <<>> \/ Head(names[i]) # ":"
      Name(i) == IF names[i] = <<>> THEN <<>> ELSE Tail(names[i])
      First(n) == Min({i \in DOMAIN names : Name(i) = n})
  IN  IF Len(names) # Len(values) \/ \E i \in DOMAIN names : Literal(i) /\ names[i] # values[i]
        THEN NoParameters
        ELSE [n \in {Name(i) : i \in DOMAIN names} |-> values[First(n)]]

(* find_route: the first route that the path matches, in the order they    *)
(* were added; 0 if there is none.                                         *)
Matches(route, uri_path) ==
  /\ FoundIn(uri_path, SearchPath(route.path))
  /\ IF HasParameters(route.path)
       THEN RouteParameters(uri_path, route.path) # NoParameters
       ELSE Len(uri_path) = Len(route.path)

FindRoute(routes, uri_path) ==
  SelectInSeq(routes, LAMBDA route : Matches(route, uri_path))

(* add_method.  A method that the path has already keeps its first handler.*)
AddMethod(routes, method, path, handler) ==
  LET i == SelectInSeq(routes, LAMBDA route : route.path = path)
  IN  IF i = 0
        THEN Append(routes, [path |-> path, handlers |-> [m \in {method} |-> handler]])
        ELSE [routes EXCEPT ![i].handlers =
                [m \in DOMAIN @ \cup {method} |->
                   IF m \in DOMAIN @ THEN @[m] ELSE handler]]

-----------------------------------------------------------------------------
(* Basic authentication.  The value of an Authorization header is a        *)
(* sequence of words, <<>> when there is none: names of schemes and texts  *)
(* in base64, which decode to the user and the password when they are one. *)
Word(w)    == [word |-> w]
Base64(s)  == [base64 |-> s]

Decode(words) ==
  IF Len(words) = 1 /\ DOMAIN words[1] = {"base64"} THEN words[1].base64 ELSE <<>>

(* "Basic" is searched for anywhere in the value.  The words it is found   *)
(* in end with it here, so that what comes after it are other words.       *)
EndsInBasic == {Word("Basic"), Word("NotBasic")}

BasicPos(header) == SelectInSeq(header, LAMBDA w : w \in EndsInBasic)

\* Who may see a realm: a map from users to passwords.
IsValid(users, header) ==
  LET basic_pos == BasicPos(header)
      text  == Decode(From(header, basic_pos + 1))
      colon == Find(text, ":")
  IN  /\ basic_pos # 0
      /\ colon # 0
      /\ Upto(text, colon) \in DOMAIN users
      /\ users[Upto(text, colon)] = From(text, colon + 1)

Nobody == <<>>    \* auth_ptr is null

AuthenticateAnyone(users, header) ==           \* mutant
  users = Nobody \/ header # <<>>

Authenticate(users, header) == users = Nobody \/ IsValid(users, header)

(* When nothing follows "Basic", the substr that is to skip it and a blank *)
(* throws std::out_of_range.                                               *)
OutOfRange(users, header) ==
  users # Nobody /\ header # <<>> /\ BasicPos(header) = Len(header)

-----------------------------------------------------------------------------
(* handle_request: the status and, when a handler is called, which one and *)
(* with which parameters.                                                  *)
Answer(status, handler, parameters) ==
  [status |-> status, handler |-> handler, parameters |-> parameters]
Refusal(status) == Answer(status, "none", NoParameters)

(* No answer: an exception leaves handle_request.                          *)
Thrown == Answer("out_of_range", "none", NoParameters)

Served(chosen, path, uri_path) ==
  Answer("OK", chosen.name,
         IF HasParameters(path) THEN RouteParameters(uri_path, path) ELSE NoParameters)

\* The route that was found, if any.
Dispatched(routes, i, request) ==
  IF i = 0 THEN Refusal("NOT_FOUND")
  ELSE IF request.method \notin DOMAIN routes[i].handlers THEN Refusal("METHOD_NOT_ALLOWED")
  ELSE LET chosen == routes[i].handlers[request.method]
       IN  IF OutOfRange(chosen.users, request.authorization) THEN Thrown
           ELSE IF Authenticate(chosen.users, request.authorization)
             THEN Served(chosen, routes[i].path, UriPath(request.uri))
             ELSE Refusal("UNAUTHORISED")

HandleRequest(routes, request) ==
  Dispatched(routes, FindRoute(routes, UriPath(request.uri)), request)
=============================================================================
