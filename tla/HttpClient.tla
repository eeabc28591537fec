----------------------------- MODULE HttpClient -----------------------------
(***************************************************************************)
(* http_client (src/include/via/http_client.hpp): a comms::connection that *)
(* the client connects, drops and connects again, and the deadline timer   *)
(* that brings a lost connection back.                                     *)
(*                                                                         *)
(* The connection is that of module Connection, with Owner = "client": its *)
(* record keeps its flags from one socket to the next, for the client      *)
(* reuses the object.  What the client does in a CONNECTED or DISCONNECTED *)
(* event is part of the step that delivers it.                             *)
(*                                                                         *)
(* The timer.  `armed' is a wait that has not expired; cancel() and a new  *)
(* expiry time recall it.  Once it has expired its completion is queued    *)
(* (`expired'), and nothing recalls it any more.                           *)
(*                                                                         *)
(* Abstracted: requests, responses and their buffers, the host; a period   *)
(* is 0 (do not reconnect) or 1 (any other).                               *)
(***************************************************************************)
EXTENDS Connection

CONSTANT MaxUps   \* bound on the connections that the network lets succeed

ASSUME ClientAssumption == Owner = "client" /\ MaxUps \in Nat

VARIABLES
  period,      \* period_
  armed,       \* the timer is waiting
  expired,     \* queued completions of the timer
  unresolved   \* some attempt to connect could not resolve the host

timer == <<armed, expired>>
clientVars == <<conn, calls, period, armed, expired, unresolved>>

ClientInit ==
  /\ Init
  /\ period = 0 /\ armed = FALSE /\ expired = 0 /\ unresolved = FALSE

-----------------------------------------------------------------------------
(* event_handler: CONNECTED cancels the timer, DISCONNECTED sets it when   *)
(* there is a period.                                                      *)
ForgetsToArm == armed' = FALSE               \* mutant

TimerAfterEvent ==
  armed' = CASE conn'.downs > conn.downs /\ period > 0 -> TRUE
             [] conn'.ups > conn.ups -> FALSE
             [] OTHER -> armed

Delivered(step) ==
  step /\ TimerAfterEvent /\ UNCHANGED <<period, expired, unresolved>>

-----------------------------------------------------------------------------
(* The private connect(): nothing to do when the connection is connected,  *)
(* and nothing is started when the host does not resolve.                  *)
TryConnect(found) ==
  \/ conn.connected /\ UNCHANGED <<conn, unresolved>>
  \/ /\ ~conn.connected
     /\ conn' = IF found THEN Reopen(conn) ELSE conn
     /\ unresolved' = (unresolved \/ ~found)

(* connect(host, port, period).                                            *)
ClientConnect ==
  /\ conn.held /\ calls < MaxCalls /\ calls' = calls + 1
  /\ \E p \in {0, 1}, found \in BOOLEAN : period' = p /\ TryConnect(found)
  /\ UNCHANGED timer

ClientSend == conn.held /\ Delivered(CallSend)

(* disconnect() calls the connection's shutdown().                         *)
ClientDisconnect == conn.held /\ Delivered(CallShutdown)

ClientClose ==
  /\ conn.held /\ CallClose
  /\ period' = 0 /\ armed' = FALSE
  /\ UNCHANGED <<expired, unresolved>>

(* The last shared_ptr goes: the destructor closes the client, and the     *)
(* connection goes with it (after the event it may be in).                 *)
ClientDestroy ==
  /\ conn.held
  /\ conn' = Close([conn EXCEPT !.held = FALSE])
  /\ period' = 0 /\ armed' = FALSE
  /\ UNCHANGED <<calls, expired, unresolved>>

-----------------------------------------------------------------------------
TimerExpires ==
  /\ armed
  /\ armed' = FALSE /\ expired' = expired + 1
  /\ UNCHANGED <<conn, calls, period, unresolved>>

TimeoutOnlyIfAborted ==                      \* mutant
  /\ expired > 0 /\ conn.frame = "none"
  /\ expired' = expired - 1
  /\ UNCHANGED <<conn, calls, period, armed, unresolved>>

TimeoutHandler ==
  /\ expired > 0 /\ conn.frame = "none"
  /\ expired' = expired - 1
  /\ \/ conn.held /\ \E found \in BOOLEAN : TryConnect(found)
     \/ ~conn.held /\ UNCHANGED <<conn, unresolved>>
  /\ UNCHANGED <<calls, period, armed>>

-----------------------------------------------------------------------------
(* The network lets MaxUps connections succeed.                            *)
ClientNetwork ==
  \E k \in Kinds, r \in NetworkResults :
    /\ (k \in {"connect", "handshake"} /\ r = "ok") => conn.ups < MaxUps
    /\ Delivered(Complete(k, r))

ClientHandlers == Delivered(Handlers \/ ConnectCallback)

ClientReturns == Delivered(Returns)

ClientNext ==
  \/ ClientConnect \/ ClientSend \/ ClientDisconnect \/ ClientClose \/ ClientDestroy
  \/ TimerExpires \/ TimeoutHandler
  \/ ClientNetwork \/ ClientHandlers \/ ClientReturns

ClientSpec == ClientInit /\ [][ClientNext]_clientVars

(* Time passes, the application returns from its events, and the queue of  *)
(* the io_context is served in order: a timeout waits its turn behind      *)
(* other handlers, but not for ever, hence the strong fairness.            *)
ClientFairSpec ==
  /\ ClientSpec
  /\ WF_clientVars(TimerExpires) /\ WF_clientVars(ClientReturns)
  /\ SF_clientVars(TimeoutHandler)

-----------------------------------------------------------------------------
(* Every variable has its type, and two attempts to connect one socket are *)
(* never in progress at once: connect() closes the socket first.           *)
ClientTypeOK ==
  /\ conn \in Connections /\ "connect" \notin conn.overlap
  /\ calls \in Nat /\ period \in {0, 1}
  /\ armed \in BOOLEAN /\ expired \in Nat /\ unresolved \in BOOLEAN

Connecting == InProgress("connect") \/ InProgress("handshake")
Leaving == InProgress("shutdown")     \* SSL: DISCONNECTED follows

(* A client that was given a period and lost its connection is waiting for *)
(* the timer or connecting, through every interleaving of timeouts, events *)
(* and calls, unless an attempt has failed (after which the code does not  *)
(* set the timer again).                                                   *)
NeverGivesUp ==
  ( /\ conn.held /\ period > 0 /\ conn.downs > 0 /\ ~conn.connected
    /\ conn.errs = 0 /\ ~unresolved )
  => armed \/ expired > 0 \/ Connecting \/ Leaving

(* The timer does bring the connection back: once it is set, a connection  *)
(* is attempted or made, or the client is closed or destroyed.             *)
Reconnects ==
  armed ~> (Connecting \/ conn.connected \/ unresolved \/ period = 0 \/ ~conn.held)

(* A destroyed client is told nothing, whatever completions and timeouts   *)
(* were queued before, and none of them brings its socket back.            *)
DestroyedIsSilent ==
  [][ ~conn.held =>
        /\ ~conn'.open
        /\ conn'.ups = conn.ups /\ conn'.downs = conn.downs /\ conn'.errs = conn.errs
        /\ conn'.frame \in {conn.frame, "none"} ]_clientVars

(* transmitting_ is "Whether a write's in progress" and shutdown_sent_ is  *)
(* "The SSL shutdown signal has been sent": when CONNECTED is signalled    *)
(* again, for a new socket after a DISCONNECTED, neither is left over from *)
(* the socket before it.                                                   *)
ReconnectsAfresh ==
  [][ conn.ups > 0 /\ ~conn.connected /\ conn'.ups > conn.ups =>
        ~conn'.shutdown_sent /\ (conn'.transmitting => InProgress("write")') ]_clientVars

=============================================================================
