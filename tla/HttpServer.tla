----------------------------- MODULE HttpServer -----------------------------
(***************************************************************************)
(* http_server over comms::server: the acceptors, the two collections of   *)
(* connections (http_connections_ and connections_), the events that fill  *)
(* and empty them, shutdown() and close().                                 *)
(*                                                                         *)
(* A comms connection is what ConnectionLifecycle says of it, with the two *)
(* ways it can end kept apart: a TCP shutdown delivers DISCONNECTED before *)
(* it returns, an SSL shutdown when the peer has answered.                 *)
(*                                                                         *)
(* In the build "map" one thread runs every handler, and the application   *)
(* calls from inside a callback or between two handlers.  In the build     *)
(* "hash_map" (HTTP_THREAD_SAFE) the handlers of different connections and *)
(* the application interleave, and disconnect() and shutdown() handle      *)
(* DISCONNECTED in the caller's thread: between the locks it takes one by  *)
(* one, every other thread may run, the connection's own handler too.      *)
(*                                                                         *)
(* Using an iterator or a pointer that is not valid any more is undefined  *)
(* behaviour: the model notes it in "undefined" and goes no further.       *)
(***************************************************************************)
EXTENDS Naturals, FiniteSets

CONSTANTS
  Conns,     \* the sockets that clients may connect
  Builds,    \* the adaptors and collections the templates are built with
  Acceptors, \* the acceptors that accept_connections may open
  MaxCalls   \* for each build, the bound on the application's calls
             \* (responses aside) and on the accepts and writes that fail

ASSUME ConnsAssumption == IsFiniteSet(Conns)
ASSUME BuildsAssumption ==
  Builds \subseteq [adaptor : {"tcp", "ssl"}, collection : {"map", "hash_map"}]
ASSUME MaxCallsAssumption == MaxCalls \in [Builds -> Nat]

Families == {"v6", "v4"}

ASSUME AcceptorsAssumption == Acceptors \subseteq (SUBSET Families) \ {{}}

VARIABLES
  srv,       \* the server, its connections and the threads inside it
  calls      \* the calls and failures so far, to bound them

vars == <<srv, calls>>

(***************************************************************************)
(* The life of a comms connection: its accept is queued, it is being       *)
(* handshaken, it has told CONNECTED, or nothing will happen to it.        *)
(***************************************************************************)
Phases == {"none", "queued", "handshake", "up", "over"}

(* What the application is being told by a connection, if anything.        *)
Frames == {"none", "accepting", "connected", "received", "sent"}

Walks == {"idle", "checked", "noted", "walking"}

(* In the build "hash_map": who may be handling DISCONNECTED of a          *)
(* connection (a handler of its own, a call of the application, the loop   *)
(* of shutdown()), and how far each has come.                              *)
Runners == {"own", "call", "walk"}

Stages == {"none", "found", "told", "erased", "closing", "returned"}

Servers ==
  [ build         : Builds,
    open          : SUBSET Families,         \* the open acceptors
    waiting       : [Families -> Nat],       \* accepts in progress
    failures      : Nat,                     \* accepts that failed, queued
    handled       : Nat,                     \* accept handlers that ran through
    http          : SUBSET Conns,            \* http_connections_
    comms         : SUBSET Conns,            \* connections_
    phase         : [Conns -> Phases],
    frame         : [Conns -> Frames],
    busy          : SUBSET Conns,            \* transmitting_
    leaving       : SUBSET Conns,            \* disconnect_pending_
    shut          : SUBSET Conns,            \* shutdown_sent_
    ending        : [Conns -> [Runners -> Stages]],
    failed        : SUBSET Conns,            \* a write ended with an error that
                                             \* is not taken for a disconnect
    ups           : SUBSET Conns,            \* CONNECTED has been told
    told          : [Conns -> Nat],          \* DISCONNECTED callbacks
    asked         : BOOLEAN,                 \* shutdown() has found connections
    shutting_down : BOOLEAN,
    walk          : Walks,                   \* where shutdown() is
    left          : SUBSET Conns,            \* what shutdown() still walks over
    seen          : SUBSET Conns,            \* what shutdown() walks over
    thrown        : BOOLEAN,                 \* an exception left accept_handler
    undefined     : BOOLEAN ]

Threads(s) == s.build.collection = "hash_map"
IsSsl(s)   == s.build.adaptor = "ssl"

(* A comms connection lives while the server holds it or a thread that is  *)
(* inside it does.                                                         *)
Alive(c, s) ==
  \/ c \in s.comms \/ s.frame[c] # "none"
  \/ \E r \in Runners : s.ending[c][r] # "none"

(* The http_connection lives while http_connections_, the copy shutdown()  *)
(* walks over, a callback or the handler of DISCONNECTED holds it.         *)
Held(c, s) ==
  \/ c \in s.http \/ s.frame[c] # "none"
  \/ Threads(s) /\ s.walk = "walking" /\ c \in s.seen
  \/ \E r \in Runners : s.ending[c][r] \notin {"none", "returned"}

-----------------------------------------------------------------------------
(* comms::server.                                                          *)

(* start_accept, on each acceptor that is open.                            *)
StartAccept(s) ==
  [s EXCEPT !.waiting = [f \in Families |->
                          @[f] + (IF f \in s.open THEN 1 ELSE 0)]]

CloseForgetsClients(s) ==                    \* mutant
  [s EXCEPT !.open = {}, !.waiting = [f \in Families |-> 0]]

(* server::close.  What was being accepted completes with                  *)
(* operation_aborted, which accept_handler ignores.                        *)
CloseServer(s) ==
  [s EXCEPT !.open = {}, !.waiting = [f \in Families |-> 0], !.comms = {}]

(* What erase() leaves of a collection.  A std::map or std::set is searched *)
(* before; the hash map may lose another key when c is not in it.          *)
Erasures(c, keys, s) ==
  IF c \in keys \/ ~Threads(s) THEN {keys \ {c}}
  ELSE {keys} \cup {keys \ {d} : d \in keys}

-----------------------------------------------------------------------------
(* http_server::event_handler on DISCONNECTED, and what                    *)
(* server::event_handler does after it.                                    *)
LastGoneEarly(s) ==                          \* mutant
  s.shutting_down /\ Cardinality(s.http) = 1

LastGone(s) == s.shutting_down /\ s.http = {}

TellAndErase(c, s) ==
  [s EXCEPT !.told[c] = @ + 1, !.http = @ \ {c}]

(* In the build "map" no other thread comes in between.                    *)
DisconnectionsAtOnce(c, s) ==
  LET t == IF c \in s.http THEN TellAndErase(c, s) ELSE s
      u == IF c \in s.http /\ LastGone(t) THEN CloseServer(t) ELSE t
  IN  {[u EXCEPT !.comms = e] : e \in Erasures(c, u.comms, u)}

(* In the build "hash_map" event_handler has only looked for the           *)
(* http_connection so far; the actions below go on from there.             *)
To(c, r, stage, s) == [s EXCEPT !.ending[c][r] = stage]

Finds(c, r, s) == To(c, r, IF c \in s.http THEN "found" ELSE "returned", s)

Disconnections(c, r, s) ==
  IF Threads(s) THEN {Finds(c, r, s)} ELSE DisconnectionsAtOnce(c, s)

(* connection::shutdown.                                                   *)
Shutdowns(c, r, s) ==
  LET t == [s EXCEPT !.shut = @ \cup {c}]
  IN  IF IsSsl(s) THEN {t} ELSE Disconnections(c, r, t)

(* http_connection::disconnect does not check its weak pointer.            *)
Disconnects(c, r, s) ==
  IF ~Alive(c, s) THEN {[s EXCEPT !.undefined = TRUE]}
  ELSE IF c \in s.busy THEN {[s EXCEPT !.leaving = @ \cup {c}]}
  ELSE Shutdowns(c, r, s)

(* A connection nothing holds is destroyed: it closes its socket, and its  *)
(* flags are gone.                                                         *)
Destroyed(s) == {c \in Conns : s.phase[c] \in {"handshake", "up"} /\ ~Alive(c, s)}

Reap(s) ==
  [s EXCEPT !.phase = [c \in Conns |-> IF c \in Destroyed(s) THEN "over" ELSE @[c]],
            !.busy = @ \ Destroyed(s), !.leaving = @ \ Destroyed(s),
            !.shut = @ \ Destroyed(s)]

-----------------------------------------------------------------------------
(* Which thread may do what.                                               *)
Quiet == srv.walk = "idle" /\ \A c \in Conns : srv.frame[c] = "none"

(* A handler of c may start.                                               *)
MayRun(c) ==
  /\ ~srv.undefined
  /\ srv.frame[c] = "none" /\ srv.ending[c]["own"] = "none"
  /\ Threads(srv) \/ Quiet

(* One more call or failure.                                               *)
MayCount == calls < MaxCalls[srv.build]

(* The application may make a call: between handlers or inside a callback. *)
MayCall ==
  /\ ~srv.undefined /\ MayCount
  /\ Threads(srv) \/ srv.walk = "idle"

Called(next) == srv' = next /\ calls' = calls + 1
Does(next)   == srv' = next /\ UNCHANGED calls

Init ==
  /\ calls = 0
  /\ srv \in {[ build |-> b, open |-> {}, waiting |-> [f \in Families |-> 0],
                failures |-> 0, handled |-> 0, http |-> {}, comms |-> {},
                phase |-> [c \in Conns |-> "none"],
                frame |-> [c \in Conns |-> "none"],
                busy |-> {}, leaving |-> {}, shut |-> {},
                ending |-> [c \in Conns |-> [r \in Runners |-> "none"]],
                failed |-> {}, ups |-> {}, told |-> [c \in Conns |-> 0],
                asked |-> FALSE, shutting_down |-> FALSE,
                walk |-> "idle", left |-> {}, seen |-> {},
                thrown |-> FALSE, undefined |-> FALSE ] : b \in Builds}

(* accept_connections, once: IPv6 for both, IPv4 only, or both because the *)
(* IPv6 acceptor is for IPv6 alone.                                        *)
AcceptConnections(fams) ==
  /\ srv.open = {} /\ calls = 0
  /\ Does(StartAccept([srv EXCEPT !.open = fams]))

(* A client connects, or accepting fails (too many open files).            *)
Arrives(f, c) ==
  /\ ~srv.undefined /\ srv.waiting[f] > 0 /\ srv.phase[c] = "none"
  /\ Does([srv EXCEPT !.waiting[f] = @ - 1, !.phase[c] = "queued"])

AcceptFails(f) ==
  /\ ~srv.undefined /\ srv.waiting[f] > 0 /\ MayCount
  /\ Called([srv EXCEPT !.waiting[f] = @ - 1, !.failures = @ + 1])

-----------------------------------------------------------------------------
(* accept_handler.                                                         *)
IgnoredAfterClose(s) == s.open = {}

(* The end of accept_handler.                                              *)
AcceptedOnce(s) == [s EXCEPT !.handled = @ + 1]              \* mutant

Accepted(s) == StartAccept([s EXCEPT !.handled = @ + 1])

AcceptErrorTwice ==                          \* mutant
  /\ ~srv.undefined /\ (Threads(srv) \/ Quiet)
  /\ Does(Accepted([srv EXCEPT !.failures = @ - 1]))

AcceptError ==
  /\ ~srv.undefined /\ srv.failures > 0 /\ (Threads(srv) \/ Quiet)
  /\ LET s == [srv EXCEPT !.failures = @ - 1]
     IN  \/ IgnoredAfterClose(s) /\ Does(s)
         \/ ~IgnoredAfterClose(s) /\ Does(Accepted(s))

(* The server is closed, or the connection filter refuses the client: the  *)
(* socket is closed with the handler's argument.                           *)
AcceptRefused(c) ==
  /\ srv.phase[c] = "queued" /\ MayRun(c)
  /\ LET s == [srv EXCEPT !.phase[c] = "over"]
     IN  \/ IgnoredAfterClose(s) /\ Does(s)
         \/ ~IgnoredAfterClose(s) /\ Does(Accepted(s))

Collected(c, s) == [s EXCEPT !.phase[c] = "handshake", !.comms = @ \cup {c}]

AcceptSsl(c) ==
  /\ srv.phase[c] = "queued" /\ MayRun(c) /\ IsSsl(srv)
  /\ ~IgnoredAfterClose(srv)
  /\ Does(Accepted(Collected(c, srv)))

(* http_server::connected_handler.                                         *)
Connected(c, s) ==
  [s EXCEPT !.phase[c] = "up", !.http = @ \cup {c},
            !.ups = @ \cup {c},
            !.frame[c] = IF IsSsl(s) THEN "connected" ELSE "accepting"]

(* A TCP connection is CONNECTED inside start(), inside accept_handler.    *)
AcceptTcp(c) ==
  /\ srv.phase[c] = "queued" /\ MayRun(c) /\ ~IsSsl(srv)
  /\ ~IgnoredAfterClose(srv)
  /\ Does(Connected(c, Collected(c, srv)))

(* remote_endpoint() throws in the constructor of http_connection when the *)
(* client has gone already: accept_handler does not reach start_accept.    *)
AcceptThrows(c) ==
  /\ srv.phase[c] = "queued" /\ MayRun(c) /\ ~IsSsl(srv)
  /\ ~IgnoredAfterClose(srv)
  /\ Does([Collected(c, srv) EXCEPT !.phase[c] = "over", !.thrown = TRUE])

(* The SSL handshake ends.  If it failed, or the constructor throws, the   *)
(* connection stays in connections_ and nothing happens to it any more.    *)
HandshakeEnds(c) ==
  /\ srv.phase[c] = "handshake" /\ MayRun(c) /\ IsSsl(srv) /\ c \in srv.comms
  /\ \/ Does(Connected(c, srv))
     \/ Does([srv EXCEPT !.phase[c] = "over"])

-----------------------------------------------------------------------------
(* After CONNECTED.  When the http_connection has been erased meanwhile    *)
(* its destructor has closed the socket, and setting the options throws;   *)
(* another thread may still keep it.                                       *)
SetSocketOptions(c, s) ==
  IF c \in s.http THEN {Accepted(s)}
  ELSE {[s EXCEPT !.thrown = TRUE]}
         \cup IF Held(c, s) THEN {Accepted(s)} ELSE {}

(* A callback of the application returns.                                  *)
EventReturns(c) ==
  /\ ~srv.undefined
  /\ Threads(srv) \/ srv.walk = "idle"
  /\ LET s == [srv EXCEPT !.frame[c] = "none"]
     IN  \/ srv.frame[c] \in {"connected", "received", "sent"} /\ Does(Reap(s))
         \/ /\ srv.frame[c] = "accepting"
            /\ \E t \in SetSocketOptions(c, s) : Does(Reap(t))

(* RECEIVED and SENT are told of a connection whose http_connection is     *)
(* found.                                                                  *)
Received(c) ==
  /\ srv.phase[c] = "up" /\ MayRun(c)
  /\ c \in (srv.comms \cap srv.http) \ srv.shut
  /\ Does([srv EXCEPT !.frame[c] = "received"])

(* A write ends: SENT, or the shutdown that waits for it.  After an error  *)
(* that is not taken for a disconnect neither happens.                     *)
WriteHandler(c, s) ==
  [s EXCEPT !.busy = @ \ {c}, !.frame[c] = IF c \in s.http THEN "sent" ELSE @]

LeavingIsForgotten(c, s) == {WriteHandler(c, s)}            \* mutant

WriteEnds(c, s) ==
  IF c \in s.leaving THEN Shutdowns(c, "own", s) ELSE {WriteHandler(c, s)}

Writing(c) == /\ srv.phase[c] = "up" /\ MayRun(c)
              /\ c \in (srv.comms \cap srv.busy) \ (srv.shut \cup srv.failed)

Written(c) == Writing(c) /\ \E n \in WriteEnds(c, srv) : Does(Reap(n))

WriteFails(c) == Writing(c) /\ MayCount /\ Called([srv EXCEPT !.failed = @ \cup {c}])

(* The peer has gone, or has answered the SSL shutdown.                    *)
Lost(c) ==
  /\ srv.phase[c] = "up" /\ MayRun(c) /\ c \in srv.comms
  /\ \E n \in Disconnections(c, "own", srv) : Does(Reap(n))

(* The peer asks for the SSL shutdown.                                     *)
PeerLeaves(c) ==
  /\ srv.phase[c] = "up" /\ MayRun(c) /\ IsSsl(srv)
  /\ c \in srv.comms \ srv.shut
  /\ \E n \in Shutdowns(c, "own", srv) : Does(n)

Answered(c) == c \in srv.shut /\ Lost(c)

(* In the build "hash_map", thread r goes on with DISCONNECTED of c:       *)
(* disconnected_handler tells the application ...                          *)
At(c, r, stage) == ~srv.undefined /\ srv.ending[c][r] = stage

TellsUnlessShutdown(c, r) ==                 \* mutant
  /\ At(c, r, "found")
  /\ LET t == To(c, r, "told", srv)
     IN  Does(IF srv.shutting_down THEN t ELSE [t EXCEPT !.told[c] = @ + 1])

Tells(c, r) ==
  /\ At(c, r, "found")
  /\ Does([To(c, r, "told", srv) EXCEPT !.told[c] = @ + 1])

(* ... erases, whatever another thread has erased meanwhile.  The          *)
(* http_connection lost with a second erase is destroyed, unless held; its *)
(* destructor uses its weak pointer without checking it ...                *)
Erases(c, r) ==
  /\ At(c, r, "told")
  /\ \E keys \in Erasures(c, srv.http, srv) :
       LET t == [To(c, r, "erased", srv) EXCEPT !.http = keys]
       IN  Does([t EXCEPT !.undefined =
                   \E d \in srv.http \ keys : ~Held(d, t) /\ ~Alive(d, t)])

(* ... tests for the last one (the flag is never reset, so reading it and  *)
(* the collection one after the other is one test) ...                     *)
TestsLast(c, r) ==
  /\ At(c, r, "erased")
  /\ Does(To(c, r, IF LastGone(srv) THEN "closing" ELSE "returned", srv))

ClosesLast(c, r) ==
  /\ At(c, r, "closing")
  /\ Does(Reap(To(c, r, "returned", CloseServer(srv))))

(* ... and server::event_handler erases, without looking.                  *)
Leaves(c, r) ==
  /\ At(c, r, "returned")
  /\ \E keys \in Erasures(c, srv.comms, srv) :
       Does(Reap([To(c, r, "none", srv) EXCEPT !.comms = keys]))

-----------------------------------------------------------------------------
(* The application.  It reaches a connection through a weak pointer to the *)
(* http_connection.                                                        *)
MayDisconnect(c) == MayCall /\ Held(c, srv) /\ srv.ending[c]["call"] = "none"

(* A response, another one when it has been sent.  If it is not            *)
(* keep-alive, shutdown() follows at once.                                 *)
Send(c) ==
  /\ MayDisconnect(c) /\ Alive(c, srv) /\ srv.phase[c] = "up"
  /\ LET s == [srv EXCEPT !.busy = @ \cup {c}]
     IN  \/ c \notin srv.busy /\ Does(s)
         \/ \E n \in Shutdowns(c, "call", s) : Called(Reap(n))

Drop(c) ==
  /\ MayDisconnect(c) /\ srv.phase[c] \in {"up", "over"}
  /\ \E n \in Disconnects(c, "call", srv) : Called(Reap(n))

(* shutdown() finds connections ...                                        *)
Shutdown ==
  /\ MayCall /\ srv.walk = "idle" /\ srv.http # {}
  /\ Called([srv EXCEPT !.walk = "checked", !.asked = TRUE])

(* ... notes that ...                                                      *)
Note(s) == [s EXCEPT !.walk = "noted", !.shutting_down = TRUE]

NoteShutdown == ~srv.undefined /\ srv.walk = "checked" /\ Does(Note(srv))

(* ... starts to walk over them, in the build "hash_map" over a copy of    *)
(* what there is by now ...                                                *)
StartWalk ==
  /\ ~srv.undefined /\ srv.walk = "noted"
  /\ Does([srv EXCEPT !.walk = "walking", !.left = srv.http, !.seen = srv.http])

(* ... and disconnects each.  The iterator of a std::map is invalid after  *)
(* the element it is at has been erased.                                   *)
WalksFreely == \A c \in Conns : srv.ending[c]["walk"] = "none"

WalkStep(c) ==
  /\ ~srv.undefined /\ srv.walk = "walking" /\ c \in srv.left /\ WalksFreely
  /\ \E n \in Disconnects(c, "walk", srv) :
       LET t == [n EXCEPT !.left = @ \ {c}]
       IN  Does(IF ~Threads(srv) /\ c \notin t.http
                THEN [t EXCEPT !.undefined = TRUE] ELSE Reap(t))

(* The copy is destroyed, and with it the http_connections that have been  *)
(* erased and that no other thread holds.                                  *)
EndWalk ==
  /\ ~srv.undefined /\ srv.walk = "walking" /\ srv.left = {} /\ WalksFreely
  /\ Does([srv EXCEPT !.walk = "idle",
             !.undefined = \E c \in srv.seen \ srv.http : ~Alive(c, srv)])

(* close(), also what shutdown() does without connections.  Destroying the *)
(* http_connections closes their sockets.                                  *)
Close ==
  /\ MayCall /\ (srv.open # {} \/ srv.http # {})
  /\ LET s == [CloseServer(srv) EXCEPT !.http = {}]
     IN  Called(Reap([s EXCEPT !.undefined = \E c \in srv.http : ~Alive(c, srv)]))

-----------------------------------------------------------------------------
Continues(c, r) == \/ Tells(c, r) \/ Erases(c, r) \/ TestsLast(c, r)
                   \/ ClosesLast(c, r) \/ Leaves(c, r)

Handlers ==
  \/ AcceptError \/ NoteShutdown \/ StartWalk \/ EndWalk
  \/ \E c \in Conns : \/ AcceptRefused(c) \/ AcceptSsl(c) \/ AcceptTcp(c)
                      \/ AcceptThrows(c) \/ HandshakeEnds(c) \/ EventReturns(c)
                      \/ Received(c) \/ Written(c) \/ WriteFails(c)
                      \/ Lost(c) \/ PeerLeaves(c)
                      \/ WalkStep(c)
  \/ \E c \in Conns, r \in Runners : Continues(c, r)

Network ==
  \/ \E f \in Families, c \in Conns : Arrives(f, c)
  \/ \E f \in Families : AcceptFails(f)

Application ==
  \/ \E fams \in Acceptors : AcceptConnections(fams)
  \/ \E c \in Conns : Send(c) \/ Drop(c)
  \/ Shutdown \/ Close

Next == Handlers \/ Network \/ Application

Spec == Init /\ [][Next]_vars

(* Callbacks return, a running shutdown() and the handling of DISCONNECTED *)
(* go on, and a write or an SSL shutdown that is in progress ends: for the *)
(* latter two the peer is trusted to read, or to go, as it is in the code, *)
(* which sets no timer for them.  Handlers of other events can run in      *)
(* between, hence the strong fairness.  Nothing is asked of the socket of  *)
(* an http_connection that is not in the collection: its destructor closes *)
(* it.                                                                     *)
Walk == NoteShutdown \/ StartWalk \/ EndWalk \/ \E c \in Conns : WalkStep(c)

FairSpec ==
  /\ Spec /\ WF_vars(Walk)
  /\ WF_vars(\E c \in Conns, r \in Runners : Continues(c, r))
  /\ \A c \in Conns : /\ WF_vars(EventReturns(c))
                      /\ SF_vars(c \in srv.http /\ (Written(c) \/ Answered(c)))

-----------------------------------------------------------------------------
TypeOK == srv \in Servers /\ calls \in Nat

(* http_connections_ holds the connections of connections_ that are up,    *)
(* those and no others: whatever order the events, the application's calls *)
(* from inside them and shutdown() come in.  http_connection uses its weak *)
(* pointer unchecked, so one entry too many is a null pointer used later,  *)
(* and one too few a client whose requests are answered by nobody.         *)
CollectionsAgree ==
  ~Threads(srv) =>
    srv.http = {c \in srv.comms : srv.phase[c] = "up" /\ c \in srv.ups}

(* While the server accepts, the application is told of every connection's *)
(* end, though shutdown, disconnect and a read error may each signal       *)
(* DISCONNECTED: never before it, and in the build "map" once.  In the     *)
(* build "hash_map" an end can be told by every thread that found the      *)
(* connection before one of them erased it, and one end can go untold, but *)
(* only after another has been told twice (its second erase has lost it).  *)
ToldTwice == \E c \in Conns : srv.told[c] > 1

EveryEndIsTold ==
  \A c \in srv.ups :
    /\ ToldTwice => Threads(srv)
    /\ srv.open # {} /\ c \notin srv.http => srv.told[c] > 0 \/ ToldTwice
    /\ c \in srv.http /\ srv.told[c] > 0 =>
         \E r \in Runners : srv.ending[c][r] = "told"

(* An accept is in progress for every open acceptor, so the server stays   *)
(* reachable, and start_accept adds to them exactly what its loop over     *)
(* both acceptors adds: with one acceptor none, with two one for each      *)
(* client.                                                                 *)
InProgress ==
  srv.waiting["v6"] + srv.waiting["v4"] + srv.failures
    + Cardinality({c \in Conns : srv.phase[c] = "queued"})
    + Cardinality({c \in Conns : srv.frame[c] = "accepting"})

AcceptsGoOn ==
  (srv.open # {} /\ ~srv.thrown) =>
    InProgress = Cardinality(srv.open) + srv.handled * (Cardinality(srv.open) - 1)

(* shutdown() has found connections and is past noting it, and so is every *)
(* thread that erased one with its test for the last.                      *)
ShutdownNoted ==
  /\ srv.asked /\ srv.walk \notin {"checked", "noted"}
  /\ \A c \in Conns, r \in Runners : srv.ending[c][r] \notin {"erased", "closing"}

(* The exception: in the build "hash_map" the connections that shutdown()  *)
(* found can all go before it sets shutting_down_ and copies the           *)
(* collection.  Nothing closes the server then, nor does shutdown().       *)
GoneUnnoticed ==
  /\ Threads(srv) /\ srv.asked /\ srv.walk \notin {"checked", "noted"}
  /\ srv.seen = {}

(* Once shutdown() has found connections, the last of them to go closes    *)
(* the server, wherever the walk is, whichever event ends them and         *)
(* whichever threads handle their ends, but for those gone unnoticed.      *)
LastOneCloses ==
  (ShutdownNoted /\ srv.http = {}) => srv.open = {} \/ GoneUnnoticed

(* shutdown() ends with the server closed, unless a client connects after  *)
(* it has looked, the connections it found have gone unnoticed, a write    *)
(* fails without a disconnect, the hash map has lost a connection to the   *)
(* erase of another one, or a pointer that is not valid any more is used.  *)
ShutdownEnds ==
  srv.asked ~>
     \/ srv.open = {}
     \/ srv.http \ srv.seen # {} \/ GoneUnnoticed
     \/ srv.failed # {} \/ srv.undefined
     \/ \E c \in srv.http : ~Alive(c, srv)

(* shutdown() is there to "Disconnect all of the outstanding http server   *)
(* connections to prepare for closing the server": it must not use an      *)
(* iterator or a connection that is gone.                                  *)
ShutdownIsDefined == ~srv.undefined

(* "If the http_server is being shutdown and this was the last             *)
(* connection" it closes the server: also when the last connection goes    *)
(* while shutdown() is on its way from finding it to noting it.            *)
ShutdownClosesIdle ==
  (ShutdownNoted /\ srv.http = {} /\ srv.walk = "idle") => srv.open = {}
=============================================================================
