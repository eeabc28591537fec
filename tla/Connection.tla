----------------------------- MODULE Connection -----------------------------
(***************************************************************************)
(* One comms::connection (src/include/via/comms/connection.hpp) over the   *)
(* TCP adaptor or the SSL adaptor, the Asio socket it drives, the object   *)
(* that owns it and the application that calls it.                         *)
(*                                                                         *)
(* The whole of the connection is one record, conn, and each function of   *)
(* the class is an operator from that record to the record it leaves       *)
(* behind, so that a function that calls another one is written as the     *)
(* composition of the two.                                                 *)
(*                                                                         *)
(* Asio.  An asynchronous operation is in `pending' while it is in         *)
(* progress; its completion waits in the queue `done' until a thread that  *)
(* runs the io_context calls the handler.  close() and cancel() turn what  *)
(* is in progress into completions with operation_aborted, and cannot      *)
(* recall a completion that is already queued.  The handlers of one        *)
(* connection never run at the same time (one thread, or its strand).      *)
(*                                                                         *)
(* Callbacks.  While a handler is inside the application's code, `frame'   *)
(* says which event it is delivering: the application may call the         *)
(* connection from there, and may do so from outside any handler too.      *)
(*                                                                         *)
(* Abstracted: message bytes, buffers, host names and socket options.      *)
(***************************************************************************)
EXTENDS Naturals, Sequences

CONSTANTS
  Adaptors,  \* the socket adaptors: "tcp" (tcp_adaptor), "ssl" (ssl_tcp_adaptor)
  Owner,     \* "server" (comms::server) or "client" (http_client)
  MaxCalls   \* bound on the calls the application and the owner make

ASSUME AdaptorsAssumption == Adaptors \subseteq {"tcp", "ssl"}
ASSUME OwnerAssumption == Owner \in {"server", "client"}
ASSUME MaxCallsAssumption == MaxCalls \in Nat

VARIABLES
  conn,      \* the connection, its socket and what its owner has been told
  calls      \* how many calls have been made, to bound them

vars == <<conn, calls>>

Kinds == {"connect", "handshake", "read", "write", "shutdown"}

(***************************************************************************)
(* The error codes the code tells apart: those of is_error_a_disconnect    *)
(* ("disc"), an SSL error that is_shutdown accepts and one that it does    *)
(* not, operation_aborted, and every other one (a timeout, a broken pipe,  *)
(* a stream the peer truncated).                                           *)
(***************************************************************************)
Errors  == {"disc", "ssl_shutdown", "ssl_closed", "other", "aborted"}
Results == Errors \cup {"ok"}
Frames  == {"none", "connected", "received", "sent"}

Connections ==
  [ adaptor            : Adaptors,
    held               : BOOLEAN,                 \* the owner's shared_ptr
    frame              : Frames,
    started            : BOOLEAN,
    transmitting       : BOOLEAN,
    connected          : BOOLEAN,
    disconnect_pending : BOOLEAN,
    shutdown_sent      : BOOLEAN,
    open               : BOOLEAN,                 \* the socket is open
    pending            : SUBSET Kinds,
    done               : [Kinds -> Seq(Results)],
    overlap            : SUBSET Kinds,  \* kinds started while in progress
    ups                : Nat,           \* CONNECTED events
    downs              : Nat,           \* DISCONNECTED events
    errs               : Nat,           \* calls of the error callback
    forced             : BOOLEAN,       \* a shutdown not asked for by disconnect()
    cut                : BOOLEAN ]      \* a shutdown with a write in progress

(* The constructor: a server makes one for a socket it has accepted.       *)
NewConnection(a) ==
  [ adaptor |-> a, held |-> TRUE, frame |-> "none", started |-> FALSE,
    transmitting |-> FALSE, connected |-> FALSE,
    disconnect_pending |-> FALSE, shutdown_sent |-> FALSE,
    open |-> (Owner = "server"), pending |-> {},
    done |-> [k \in Kinds |-> <<>>], overlap |-> {},
    ups |-> 0, downs |-> 0, errs |-> 0,
    forced |-> FALSE, cut |-> FALSE ]

-----------------------------------------------------------------------------
(* The socket.                                                             *)

(* Start an asynchronous operation.  On a closed socket it completes at    *)
(* once with bad_descriptor, which is_error_a_disconnect accepts.          *)
StartOp(k, s) ==
  IF s.open
  THEN [s EXCEPT !.pending = @ \cup {k},
                 !.overlap = @ \cup (s.pending \cap {k})]
  ELSE [s EXCEPT !.done[k] = Append(@, "disc")]

CancelOps(s) ==
  [s EXCEPT !.pending = {},
            !.done = [k \in Kinds |-> IF k \in s.pending
                                      THEN Append(s.done[k], "aborted")
                                      ELSE s.done[k]]]

Close(s) == IF s.open THEN CancelOps([s EXCEPT !.open = FALSE]) ELSE s

(* async_connect over a range of endpoints closes the socket and opens it  *)
(* again for the endpoint it tries.                                        *)
ReopenStillOpen(s) == StartOp("connect", [s EXCEPT !.open = TRUE])  \* mutant

Reopen(s) == StartOp("connect", [Close(s) EXCEPT !.open = TRUE])

IsSsl(s) == s.adaptor = "ssl"

Alive(s) == s.held \/ s.frame # "none"

(* The destructor closes the socket: it runs when the owner has dropped    *)
(* the connection and no handler holds it any more.                        *)
Reap(s) == IF Alive(s) THEN s ELSE Close(s)

-----------------------------------------------------------------------------
(* The owner's reaction to DISCONNECTED.  The server erases the connection *)
(* from its collection; the client keeps it and closes the socket.         *)
OwnerForgetsToErase(s) == s                  \* mutant

OwnerDisconnected(s) ==
  IF Owner = "server" THEN [s EXCEPT !.held = FALSE]
  ELSE IF s.connected THEN Close([s EXCEPT !.connected = FALSE])
  ELSE s

Disconnected(s) == OwnerDisconnected([s EXCEPT !.downs = @ + 1])

(* TCP: the socket's shutdown is synchronous and the callback runs before  *)
(* it returns.  SSL: what is in progress is cancelled and close_notify is  *)
(* sent asynchronously.                                                    *)
Shutdown(s) ==
  LET t == [s EXCEPT !.shutdown_sent = TRUE,
                     !.cut = @ \/ "write" \in s.pending]
  IN  IF IsSsl(s) THEN StartOp("shutdown", CancelOps(t)) ELSE Disconnected(t)

ForcedShutdown(s) == Shutdown([s EXCEPT !.forced = TRUE])

DisconnectAtOnce(s) == Shutdown(s)           \* mutant

Disconnect(s) ==
  IF s.transmitting THEN [s EXCEPT !.disconnect_pending = TRUE] ELSE Shutdown(s)

IsSslDisconnect(e) == e \in {"ssl_shutdown", "ssl_closed"}
IsErrorADisconnect(e) == e = "disc"

SignalErrorOrDisconnect(e, s) ==
  IF e = "ssl_shutdown" /\ ~s.shutdown_sent THEN ForcedShutdown(s)
  ELSE IF IsSslDisconnect(e) \/ IsErrorADisconnect(e) THEN Disconnected(s)
  ELSE [s EXCEPT !.errs = @ + 1]

WriteData(s) == StartOp("write", s)

SendData(s) == WriteData([s EXCEPT !.transmitting = TRUE])

EnableReception(s) == StartOp("read", s)

ReadAgainIfQuiet(s) ==                       \* mutant
  IF s.shutdown_sent \/ s.transmitting THEN s ELSE EnableReception(s)

(* The end of read_callback.                                               *)
ReadAgain(s) == IF s.shutdown_sent THEN s ELSE EnableReception(s)

WriteHandlerKeepsFlag(s) == [s EXCEPT !.frame = "sent"]          \* mutant

(* write_handler, as far as the SENT event.                                *)
WriteHandler(s) == [s EXCEPT !.transmitting = FALSE, !.frame = "sent"]

WrittenForgetsPending(s) == WriteHandler(s)  \* mutant

(* The end of write_callback: a disconnect() may be waiting for the write. *)
Written(s) == IF s.disconnect_pending THEN Shutdown(s) ELSE WriteHandler(s)

(* handshake_callback without an error, as far as the CONNECTED event.     *)
HandshakeOk(s) ==
  [s EXCEPT !.connected = TRUE, !.ups = @ + 1, !.frame = "connected"]

(* handshake_callback and connect_callback with an error.                  *)
ConnectionFailed(s) == [Close(s) EXCEPT !.errs = @ + 1]

Handshake(s) == IF IsSsl(s) THEN StartOp("handshake", s) ELSE HandshakeOk(s)

-----------------------------------------------------------------------------
(* The owner and the application.                                          *)

Init == conn \in {NewConnection(a) : a \in Adaptors} /\ calls = 0

Call(next) == calls < MaxCalls /\ calls' = calls + 1 /\ conn' = next

StartAgain ==                                \* mutant
  /\ conn.held
  /\ conn' = Handshake([conn EXCEPT !.started = TRUE])
  /\ UNCHANGED calls

(* server::accept_handler starts the connection it has just collected.     *)
Start ==
  /\ conn.held /\ ~conn.started
  /\ conn' = Handshake([conn EXCEPT !.started = TRUE])
  /\ UNCHANGED calls

(* A server application gets to know the connection when it is CONNECTED.  *)
MayCall == Alive(conn) /\ (Owner = "server" => conn.ups > 0)

SendUnchecked ==                             \* mutant
  /\ MayCall /\ conn.connected
  /\ Call(SendData(conn))

(* send_data while not connected or transmitting returns false and starts  *)
(* nothing.                                                                *)
CallSend ==
  /\ MayCall /\ conn.connected /\ ~conn.transmitting
  /\ Call(SendData(conn))

CallDisconnect == MayCall /\ Call(Reap(Disconnect(conn)))
CallShutdown == MayCall /\ Call(Reap(ForcedShutdown(conn)))
CallClose == MayCall /\ Call(Close(conn))

(* server::close clears the collection; the client is destroyed.           *)
Release ==
  /\ conn.held /\ conn.started
  /\ conn' = Reap([conn EXCEPT !.held = FALSE])
  /\ UNCHANGED calls

-----------------------------------------------------------------------------
(* The network and Asio: an operation in progress completes.               *)
NetworkResults ==
  {"ok", "disc", "other"} \cup (IF IsSsl(conn) THEN {"ssl_shutdown", "ssl_closed"} ELSE {})

Complete(k, r) ==
  /\ k \in conn.pending
  /\ conn' = [conn EXCEPT !.pending = @ \ {k}, !.done[k] = Append(@, r)]
  /\ UNCHANGED calls

-----------------------------------------------------------------------------
(* The completion handlers.  Each takes the oldest completion of its kind, *)
(* when no other handler of this connection is running.                    *)
Queued(k) == conn.frame = "none" /\ conn.done[k] # <<>>
Result(k) == Head(conn.done[k])
Taken(k)  == [conn EXCEPT !.done[k] = Tail(@)]

HandlesDead(k) == Queued(k) /\ Result(k) # "aborted"   \* mutant

(* The weak pointer still locks, and the operation was not aborted.        *)
Handles(k) == Queued(k) /\ conn.held /\ Result(k) # "aborted"

Next1(next) == conn' = Reap(next) /\ UNCHANGED calls

Ignored(k) == Queued(k) /\ ~Handles(k) /\ Next1(Taken(k))

ConnectCallback ==
  /\ Handles("connect")
  /\ \/ Result("connect") = "ok" /\ Next1(Handshake(Taken("connect")))
     \/ Result("connect") # "ok" /\ Next1(ConnectionFailed(Taken("connect")))

HandshakeCallback ==
  /\ Handles("handshake")
  /\ \/ Result("handshake") = "ok" /\ Next1(HandshakeOk(Taken("handshake")))
     \/ Result("handshake") # "ok" /\ Next1(ConnectionFailed(Taken("handshake")))

ReadData ==
  /\ Handles("read") /\ Result("read") = "ok"
  /\ Next1([Taken("read") EXCEPT !.frame = "received"])

ReadError ==
  /\ Handles("read") /\ Result("read") # "ok"
  /\ Next1(SignalErrorOrDisconnect(Result("read"), Taken("read")))

(* write_callback, which also completes an SSL shutdown.                   *)
WriteCallback(k) ==
  /\ k \in {"write", "shutdown"} /\ Handles(k)
  /\ \/ conn.shutdown_sent /\ Next1(Disconnected(Taken(k)))
     \/ /\ ~conn.shutdown_sent /\ Result(k) # "ok"
        /\ Next1(SignalErrorOrDisconnect(Result(k), Taken(k)))
     \/ /\ ~conn.shutdown_sent /\ Result(k) = "ok"
        /\ Next1(Written(Taken(k)))

(* The application returns from the event, and the handler goes on.        *)
(* Setting the options of a socket that was closed in the event throws,    *)
(* out of the handler and before enable_reception.                         *)
ConnectedReturns ==
  /\ conn.frame = "connected"
  /\ \/ conn.open  /\ Next1([EnableReception(conn) EXCEPT !.frame = "none"])
     \/ ~conn.open /\ Next1([conn EXCEPT !.frame = "none"])

ReceivedReturns ==
  /\ conn.frame = "received"
  /\ Next1([ReadAgain(conn) EXCEPT !.frame = "none"])

SentReturns ==
  /\ conn.frame = "sent"
  /\ Next1([conn EXCEPT !.frame = "none"])

-----------------------------------------------------------------------------
Returns == ConnectedReturns \/ ReceivedReturns \/ SentReturns

Handlers ==
  \/ \E k \in Kinds : Ignored(k) \/ WriteCallback(k)
  \/ HandshakeCallback \/ ReadData \/ ReadError

Application ==
  CallSend \/ CallDisconnect \/ CallShutdown \/ CallClose \/ Release

Next ==
  \/ Start \/ Application \/ Handlers \/ Returns
  \/ \E k \in Kinds, r \in NetworkResults : Complete(k, r)

Spec == Init /\ [][Next]_vars

(* The application returns from its events, and the io_context runs queued *)
(* completions in the order they were queued: reads that keep completing   *)
(* cannot put off the completion of a write for ever, hence the strong     *)
(* fairness.  Nothing is assumed of the network.                           *)
FairSpec == Spec /\ WF_vars(Returns) /\ SF_vars(WriteCallback("write"))


-----------------------------------------------------------------------------
(* Every field has its type, and a connection a server owns is CONNECTED   *)
(* at most once: start() is called once and starts one handshake.          *)
TypeOK == conn \in Connections /\ calls \in Nat /\ conn.ups <= 1

(* Asio forbids two async_write, or two async_read_some, in progress on    *)
(* one stream.  The flag transmitting_ must keep write_data from starting  *)
(* the second one, and every path through the handlers must start one read *)
(* at most: that of handshake_callback, then that of read_callback.        *)
NoOverlap == conn.overlap \cap {"read", "write"} = {}

InProgress(k) == k \in conn.pending \/ conn.done[k] # <<>>

(* transmitting_ is "Whether a write's in progress": while it is set a     *)
(* write is in progress or its completion is queued, unless the socket has *)
(* been shut down or closed or an error has been reported.  Were it left   *)
(* set otherwise, every later send_data would be refused for ever.         *)
TransmittingMeansWriting ==
  (conn.transmitting /\ conn.open /\ ~conn.shutdown_sent /\ conn.errs = 0)
     => InProgress("write")

(* A connected socket is always being read, or the application is in the   *)
(* event that reads again when it returns: no interleaving of sends,       *)
(* completions and calls loses the reader, which nothing would restart.    *)
ReaderAlive ==
  (conn.connected /\ conn.open /\ ~conn.shutdown_sent /\ conn.errs = 0)
     => InProgress("read") \/ conn.frame \in {"connected", "received"}

(* A connection its owner still holds, whose socket is open, is waiting    *)
(* for something, or an error has been reported: it never just sits in the *)
(* server's collection with nothing that could ever disconnect it.         *)
NeverSilentlyStuck ==
  (conn.held /\ conn.started /\ conn.frame = "none" /\ conn.open)
     => (\E k \in Kinds : InProgress(k)) \/ conn.errs > 0

(* disconnect() lets the message being written go first: the socket is     *)
(* shut down under a write in progress only when shutdown() was called     *)
(* directly, or the peer asked for an SSL shutdown.                        *)
CutOnlyIfForced == conn.cut => conn.forced

(* A disconnect() that had to wait is carried out by the completion of the *)
(* write it waits for, whatever that completion and the calls in between.  *)
DisconnectIsCarriedOut ==
  (conn.disconnect_pending /\ conn.done["write"] # <<>>) ~>
     (conn.shutdown_sent \/ ~conn.open \/ conn.errs > 0)

(* The connection keeps the promises of ConnectionLifecycle.               *)
Lifecycle == INSTANCE ConnectionLifecycle WITH
  phase <- IF conn.downs > 0 THEN "down" ELSE IF conn.ups > 0 THEN "up" ELSE "fresh",
  busy  <- conn.transmitting,
  event <- conn.frame

KeepsLifecycle == Lifecycle!Spec

(* The comment of handshake_callback says that on an error it "closes the  *)
(* connection, signals the error and disconnects the connection": once the *)
(* socket of a connection that never came up has been closed for an error, *)
(* DISCONNECTED has been signalled too.                                    *)
HandshakeFailureDisconnects ==
  (conn.errs > 0 /\ ~conn.open /\ conn.ups = 0 /\ conn.held) => conn.downs > 0
=============================================================================
