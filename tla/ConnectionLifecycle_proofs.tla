---------------------- MODULE ConnectionLifecycle_proofs ----------------------
(***************************************************************************)
(* A server's connection implements ConnectionLifecycle, for every set of  *)
(* adaptors and any bound on the calls: each step of Connection is one of  *)
(* the steps that the lifecycle allows, or one that it does not see.       *)
(***************************************************************************)
EXTENDS Connection_proofs

(* What the owner and the application have been told.                      *)
Quiet(s, t) ==
  /\ t.ups = s.ups /\ t.frame = s.frame /\ t.transmitting = s.transmitting
  /\ t.downs = s.downs /\ t.held = s.held

(* DISCONNECTED: the server has dropped the connection.                    *)
Ended(s, t) ==
  /\ t.ups = s.ups /\ t.frame = s.frame /\ t.transmitting = s.transmitting
  /\ t.downs = s.downs + 1 /\ ~t.held

(* The invariant: after DISCONNECTED the server holds the connection no    *)
(* more, so that no completion is handled, and before CONNECTED nothing    *)
(* but the handshake has been started.                                     *)
Idle(s) ==
  /\ InUse("read", s) = 0 /\ InUse("write", s) = 0 /\ InUse("shutdown", s) = 0
  /\ ~s.transmitting /\ s.frame = "none" /\ s.downs = 0

InTurn(s) ==
  /\ s.downs > 0 => ~s.held
  /\ s.ups = 0 => Idle(s)

LInv == IInv /\ InTurn(conn)

-----------------------------------------------------------------------------
(* The functions of the class.                                             *)

LEMMA QuietStartOp ==
  ASSUME NEW s \in Connections, NEW k \in Kinds
  PROVE  Quiet(s, StartOp(k, s))
<1> DEFINE t == StartOp(k, s)
<1>1. t = [s EXCEPT !.pending = t.pending, !.done = t.done, !.overlap = t.overlap]
  BY StartOpFacts
<1> HIDE DEF t
<1>2. Quiet(s, t)
  BY <1>1 DEF Quiet, Connections
<1> QED BY <1>2 DEF t

LEMMA QuietCancelOps ==
  ASSUME NEW s \in Connections
  PROVE  Quiet(s, CancelOps(s))
<1>1. \A d : Quiet(s, [s EXCEPT !.pending = {}, !.done = d])
  BY DEF Quiet, Connections
<1> QED BY <1>1 DEF CancelOps

LEMMA QuietClose ==
  ASSUME NEW s \in Connections
  PROVE  Quiet(s, Close(s))
<1> DEFINE u == [s EXCEPT !.open = FALSE]
<1>1. u \in Connections /\ Quiet(s, u)
  BY DEF Connections, Quiet
<1>2. Quiet(u, CancelOps(u))
  BY <1>1, QuietCancelOps
<1>3. Quiet(s, s)
  BY DEF Quiet
<1> HIDE DEF u
<1>4. Close(s) = CancelOps(u) \/ Close(s) = s
  BY DEF Close, u
<1> QED BY <1>1, <1>2, <1>3, <1>4 DEF Quiet

LEMMA QuietReap ==
  ASSUME NEW s \in Connections
  PROVE  Quiet(s, Reap(s)) /\ Reap(s) \in Connections /\ SameUse(s, Reap(s))
BY QuietClose, ReapFacts DEF Reap, Quiet

LEMMA EndedDisconnected ==
  ASSUME Owner = "server", NEW s \in Connections
  PROVE  Ended(s, Disconnected(s)) /\ Disconnected(s) \in Connections
<1> DEFINE u == [s EXCEPT !.downs = @ + 1]
<1>1. u.downs = s.downs + 1 /\ u.ups = s.ups /\ u.frame = s.frame
      /\ u.transmitting = s.transmitting
  BY DEF Connections
<1>2. Disconnected(s) = [u EXCEPT !.held = FALSE]
  BY DEF Disconnected, OwnerDisconnected
<1>3. Ended(s, [u EXCEPT !.held = FALSE])
  BY DEF Ended, Connections
<1> QED BY <1>2, <1>3, DisconnectedFacts

LEMMA EndedShutdown ==
  ASSUME Owner = "server", NEW s \in Connections
  PROVE  LET t == Shutdown(s)
         IN  (Quiet(s, t) \/ Ended(s, t)) /\ t \in Connections
<1> DEFINE u == [s EXCEPT !.shutdown_sent = TRUE,
                          !.cut = @ \/ "write" \in s.pending]
           c == CancelOps(u)
<1>1. u \in Connections /\ Quiet(s, u)
  BY DEF Connections, Quiet
<1>2. c \in Connections /\ Quiet(u, c)
  BY <1>1, CancelOpsFacts, QuietCancelOps
<1>3. Quiet(c, StartOp("shutdown", c))
  BY <1>2, QuietStartOp DEF Kinds
<1>4. Ended(u, Disconnected(u))
  BY <1>1, EndedDisconnected
<1>5. Shutdown(s) = StartOp("shutdown", c) \/ Shutdown(s) = Disconnected(u)
  BY DEF Shutdown
<1>6. Shutdown(s) \in Connections
  BY ShutdownFacts
<1> HIDE DEF u, c
<1> QED BY <1>1, <1>2, <1>3, <1>4, <1>5, <1>6 DEF Quiet, Ended

LEMMA EndedForced ==
  ASSUME Owner = "server", NEW s \in Connections
  PROVE  LET t == ForcedShutdown(s)
         IN  (Quiet(s, t) \/ Ended(s, t)) /\ t \in Connections
<1> DEFINE u == [s EXCEPT !.forced = TRUE]
<1>1. u \in Connections /\ Quiet(s, u)
  BY DEF Connections, Quiet
<1> HIDE DEF u
<1>2. (Quiet(u, Shutdown(u)) \/ Ended(u, Shutdown(u))) /\ Shutdown(u) \in Connections
  BY <1>1, EndedShutdown
<1>3. ForcedShutdown(s) = Shutdown(u)
  BY DEF ForcedShutdown, u
<1> QED BY <1>1, <1>2, <1>3 DEF Quiet, Ended

LEMMA EndedSignal ==
  ASSUME Owner = "server", NEW s \in Connections, NEW e
  PROVE  LET t == SignalErrorOrDisconnect(e, s)
         IN  (Quiet(s, t) \/ Ended(s, t)) /\ t \in Connections
<1> DEFINE u == [s EXCEPT !.errs = @ + 1]
<1>1. u \in Connections /\ Quiet(s, u)
  <2>1. s.errs + 1 \in Nat
    BY DEF Connections
  <2> QED BY <2>1 DEF Connections, Quiet
<1>2. SignalErrorOrDisconnect(e, s) \in {ForcedShutdown(s), Disconnected(s), u}
  BY DEF SignalErrorOrDisconnect
<1> HIDE DEF u
<1> QED BY <1>1, <1>2, EndedForced, EndedDisconnected

-----------------------------------------------------------------------------
(* What a step may tell: nothing, DISCONNECTED, or one of the events.      *)

Ends(s, t) ==
  /\ t.ups = s.ups /\ t.frame = s.frame /\ t.transmitting = s.transmitting
  /\ t.downs = s.downs \/ (s.ups > 0 /\ t.downs = s.downs + 1)

Begins(s, t) ==
  /\ s.ups = 0 /\ s.downs = 0 /\ s.frame = "none"
  /\ t.ups = 1 /\ t.downs = 0 /\ t.frame = "connected"
  /\ t.transmitting = s.transmitting

Delivers(s, t) ==
  /\ s.ups > 0 /\ s.downs = 0 /\ s.frame = "none"
  /\ t.ups = s.ups /\ t.downs = s.downs
  /\ \/ t.frame = "received" /\ t.transmitting = s.transmitting
     \/ t.frame = "sent" /\ s.transmitting = TRUE /\ t.transmitting = FALSE

ComesBack(s, t) ==
  /\ s.frame # "none" /\ t.frame = "none"
  /\ t.ups = s.ups /\ t.downs = s.downs /\ t.transmitting = s.transmitting

Takes(s, t) ==
  /\ s.ups > 0 /\ s.transmitting = FALSE /\ t.transmitting = TRUE
  /\ t.ups = s.ups /\ t.downs = s.downs /\ t.frame = s.frame

Step(s, t) ==
  Ends(s, t) \/ Begins(s, t) \/ Delivers(s, t) \/ ComesBack(s, t) \/ Takes(s, t)

LEMMA TurnReap ==
  ASSUME NEW s, NEW t \in Connections, InTurn(t), Step(s, t)
  PROVE  InTurn(Reap(t)) /\ Step(s, Reap(t))
<1> DEFINE r == Reap(t)
<1>1. Quiet(t, r) /\ SameUse(t, r)
  BY QuietReap
<1>2. /\ InUse("read", r) = InUse("read", t) /\ InUse("write", r) = InUse("write", t)
      /\ InUse("shutdown", r) = InUse("shutdown", t)
  BY <1>1 DEF SameUse, Kinds
<1> HIDE DEF r
<1>3. InTurn(r)
  BY <1>1, <1>2 DEF InTurn, Idle, Quiet
<1>4. Step(s, r)
  BY <1>1 DEF Step, Ends, Begins, Delivers, ComesBack, Takes, Quiet
<1> QED BY <1>3, <1>4 DEF r

(* Once it is up, only DISCONNECTED is left to be told.                    *)
LEMMA TurnEnds ==
  ASSUME NEW s \in Connections, NEW u, NEW t \in Connections,
         InTurn(s), s.ups > 0, Quiet(s, u), Quiet(u, t) \/ Ended(u, t)
  PROVE  InTurn(t) /\ Step(s, t)
<1>1. s.ups \in Nat /\ s.downs \in Nat
  BY DEF Connections
<1> QED BY <1>1 DEF InTurn, Quiet, Ended, Step, Ends

LEMMA UpNat ==
  ASSUME LInv
  PROVE  /\ conn \in Connections /\ conn.ups \in Nat /\ conn.downs \in Nat
         /\ InTurn(conn) /\ (conn.held => conn.downs = 0)
<1>1. conn \in Connections /\ conn.ups \in Nat /\ conn.downs \in Nat
  BY DEF LInv, IInv, Connections
<1> QED BY <1>1 DEF LInv, InTurn

(* Before CONNECTED, only the handshake is under way.                      *)
LEMMA TurnIdle ==
  ASSUME NEW s \in Connections, NEW t \in Connections, InTurn(s), s.ups = 0,
         t.ups = 0, t.frame = s.frame, t.transmitting = s.transmitting,
         t.downs = s.downs,
         \A k \in Kinds \ {"handshake"} : InUse(k, t) = InUse(k, s)
  PROVE  InTurn(t) /\ Step(s, t)
<1>1. /\ InUse("read", t) = InUse("read", s) /\ InUse("write", t) = InUse("write", s)
      /\ InUse("shutdown", t) = InUse("shutdown", s)
  BY DEF Kinds
<1> QED BY <1>1 DEF InTurn, Idle, Step, Ends

LEMMA TurnBegins ==
  ASSUME NEW s \in Connections, NEW t \in Connections,
         s.ups = 0, s.downs = 0, s.frame = "none",
         t.ups = 0, t.downs = 0, t.transmitting = s.transmitting
  PROVE  InTurn(HandshakeOk(t)) /\ Step(s, HandshakeOk(t))
<1> DEFINE h == HandshakeOk(t)
<1>1. h.ups = 1 /\ h.downs = 0 /\ h.frame = "connected" /\ h.transmitting = s.transmitting
  BY DEF HandshakeOk, Connections
<1> HIDE DEF h
<1>2. InTurn(h) /\ Step(s, h)
  BY <1>1 DEF InTurn, Step, Begins
<1> QED BY <1>2 DEF h

-----------------------------------------------------------------------------
(* The calls of the owner and of the application.                          *)

LEMMA StartSteps ==
  ASSUME Owner = "server", LInv, Start
  PROVE  InTurn(conn') /\ Step(conn, conn')
<1> DEFINE u == [conn EXCEPT !.started = TRUE]
           h == StartOp("handshake", u)
<1>1. conn \in Connections /\ InTurn(conn) /\ conn.ups = 0
  BY UpNat DEF LInv, IInv, Inv, Unstarted, Start
<1>2. Idle(conn)
  BY <1>1 DEF InTurn
<1>3. u \in Connections /\ Quiet(conn, u) /\ u.pending = conn.pending /\ u.done = conn.done
  BY <1>1 DEF Connections, Quiet
<1>4. \A k \in Kinds : InUse(k, u) = InUse(k, conn)
  BY <1>3 DEF InUse
<1> HIDE DEF u
<1>5. /\ h \in Connections /\ Quiet(u, h)
      /\ \A k \in Kinds \ {"handshake"} : InUse(k, h) = InUse(k, u)
  BY <1>3, QuietStartOp, StartOpFacts DEF Kinds
<1> HIDE DEF h
<1>6. InTurn(h) /\ Step(conn, h)
  BY <1>1, <1>3, <1>4, <1>5, TurnIdle DEF Quiet
<1>7. InTurn(HandshakeOk(u)) /\ Step(conn, HandshakeOk(u))
  BY <1>1, <1>2, <1>3, TurnBegins DEF Idle, Quiet
<1>8. conn' = h \/ conn' = HandshakeOk(u)
  BY DEF Start, Handshake, u, h
<1> QED BY <1>6, <1>7, <1>8

LEMMA CallSendSteps ==
  ASSUME Owner = "server", LInv, CallSend
  PROVE  InTurn(conn') /\ Step(conn, conn')
<1> DEFINE s == [conn EXCEPT !.transmitting = TRUE]
           t == StartOp("write", s)
<1>1. conn \in Connections /\ InTurn(conn) /\ conn.ups > 0 /\ ~conn.transmitting
      /\ conn.transmitting \in BOOLEAN
  BY UpNat, FieldTypes DEF CallSend, MayCall
<1>2. /\ s \in Connections /\ s.transmitting = TRUE /\ s.ups = conn.ups
      /\ s.downs = conn.downs /\ s.frame = conn.frame /\ s.held = conn.held
  BY <1>1 DEF Connections
<1> HIDE DEF s
<1>3. Quiet(s, t)
  BY <1>2, QuietStartOp DEF Kinds
<1>4. conn' = t
  BY DEF CallSend, Call, SendData, WriteData, s
<1> HIDE DEF t
<1>5. InTurn(t) /\ Takes(conn, t)
  BY <1>1, <1>2, <1>3 DEF Quiet, InTurn, Takes
<1> QED BY <1>4, <1>5 DEF Step

LEMMA CallSteps ==
  ASSUME Owner = "server", LInv, CallDisconnect \/ CallShutdown \/ CallClose
  PROVE  InTurn(conn') /\ Step(conn, conn')
<1> DEFINE u == [conn EXCEPT !.disconnect_pending = TRUE]
<1>1. conn \in Connections /\ InTurn(conn) /\ conn.ups > 0
  BY UpNat DEF CallDisconnect, CallShutdown, CallClose, MayCall
<1>2. Quiet(conn, conn) /\ u \in Connections /\ Quiet(conn, u)
  BY <1>1 DEF Quiet, Connections
<1> HIDE DEF u
<1>3. \/ conn' = Reap(u) \/ conn' = Reap(Shutdown(conn)) \/ conn' = Reap(ForcedShutdown(conn))
      \/ conn' = Close(conn)
  BY DEF CallDisconnect, CallShutdown, CallClose, Call, Disconnect, u
<1>4. CASE conn' = Reap(u)
  BY <1>1, <1>2, <1>4, TurnEnds, TurnReap
<1>5. CASE conn' = Reap(Shutdown(conn))
  BY <1>1, <1>2, <1>5, EndedShutdown, TurnEnds, TurnReap
<1>6. CASE conn' = Reap(ForcedShutdown(conn))
  BY <1>1, <1>2, <1>6, EndedForced, TurnEnds, TurnReap
<1>7. CASE conn' = Close(conn)
  BY <1>1, <1>2, <1>7, QuietClose, CloseFacts, TurnEnds
<1> QED BY <1>3, <1>4, <1>5, <1>6, <1>7

LEMMA ReleaseSteps ==
  ASSUME Owner = "server", LInv, Release
  PROVE  InTurn(conn') /\ Step(conn, conn')
<1> DEFINE u == [conn EXCEPT !.held = FALSE]
<1>1. conn \in Connections /\ InTurn(conn)
  BY UpNat
<1>2. /\ u \in Connections /\ u.held = FALSE /\ u.ups = conn.ups /\ u.downs = conn.downs
      /\ u.frame = conn.frame /\ u.transmitting = conn.transmitting
      /\ u.pending = conn.pending /\ u.done = conn.done
  BY <1>1 DEF Connections
<1> HIDE DEF u
<1>3. \A k \in Kinds : InUse(k, u) = InUse(k, conn)
  BY <1>2 DEF InUse
<1>4. InTurn(u) /\ Step(conn, u)
  BY <1>1, <1>2, <1>3 DEF InTurn, Idle, Step, Ends, Kinds
<1>5. conn' = Reap(u)
  BY DEF Release, u
<1> QED BY <1>2, <1>4, <1>5, TurnReap

-----------------------------------------------------------------------------
(* The network, and the completion handlers.                               *)

LEMMA CompleteSteps ==
  ASSUME LInv, NEW k \in Kinds, NEW r, Complete(k, r)
  PROVE  InTurn(conn') /\ Step(conn, conn')
<1> DEFINE d == [conn.done EXCEPT ![k] = Append(@, r)]
           t == [conn EXCEPT !.pending = @ \ {k}, !.done = d]
<1>1. /\ conn \in Connections /\ InTurn(conn) /\ k \in conn.pending
      /\ conn.done \in [Kinds -> Seq(Results)]
  BY UpNat, FieldTypes DEF Complete
<1>2. conn' = t
  BY DEF Complete
<1>3. Quiet(conn, t) /\ t.pending = conn.pending \ {k} /\ t.done = d
  BY <1>1 DEF Quiet, Connections
<1>4. /\ \A j \in Kinds \ {k} : d[j] = conn.done[j]
      /\ InUse(k, conn) >= 1
  BY <1>1, InUseFacts
<1> HIDE DEF t, d
<1>5. \A j \in Kinds \ {k} : InUse(j, t) = InUse(j, conn)
  BY <1>3, <1>4 DEF InUse
<1>6. conn.ups = 0 => k = "handshake" \/ k = "connect"
  BY <1>1, <1>4 DEF InTurn, Idle, Kinds
<1>7. conn.ups = 0 => Idle(t)
  BY <1>1, <1>3, <1>5, <1>6 DEF InTurn, Idle, Quiet, Kinds
<1>8. InTurn(t) /\ Step(conn, t)
  BY <1>1, <1>3, <1>7 DEF InTurn, Quiet, Step, Ends
<1> QED BY <1>2, <1>8

LEMMA TakenQuiet ==
  ASSUME LInv, NEW k \in Kinds, conn.done[k] # <<>>
  PROVE  /\ Taken(k) \in Connections /\ Quiet(conn, Taken(k))
         /\ conn.ups = 0 => k = "handshake" \/ k = "connect"
         /\ InTurn(Taken(k))
<1> DEFINE u == Taken(k)
<1>1. conn \in Connections /\ InTurn(conn) /\ InUse(k, conn) >= 1
  BY UpNat, InUseFacts
<1>2. /\ u \in Connections
      /\ \A j \in Kinds \ {k} : InUse(j, u) = InUse(j, conn)
  BY <1>1, TakenFacts
<1>3. Quiet(conn, u)
  BY <1>1 DEF Quiet, Taken, Connections
<1>4. conn.ups = 0 => k = "handshake" \/ k = "connect"
  BY <1>1 DEF InTurn, Idle, Kinds
<1> HIDE DEF u
<1>5. conn.ups = 0 => Idle(u)
  BY <1>1, <1>2, <1>3, <1>4 DEF InTurn, Idle, Quiet, Kinds
<1>6. InTurn(u)
  BY <1>1, <1>3, <1>5 DEF InTurn, Quiet
<1> QED BY <1>2, <1>3, <1>4, <1>6 DEF u

LEMMA IgnoredSteps ==
  ASSUME LInv, NEW k \in Kinds, Ignored(k)
  PROVE  InTurn(conn') /\ Step(conn, conn')
<1> DEFINE u == Taken(k)
<1>1. u \in Connections /\ Quiet(conn, u) /\ InTurn(u)
  BY TakenQuiet DEF Ignored, Queued
<1>2. conn' = Reap(u)
  BY DEF Ignored, Next1
<1> HIDE DEF u
<1>3. Step(conn, u)
  BY <1>1 DEF Quiet, Step, Ends
<1> QED BY <1>1, <1>2, <1>3, TurnReap

(* A handled completion other than the handshake's comes after CONNECTED   *)
(* and before DISCONNECTED.                                                *)
LEMMA HandledWhenUp ==
  ASSUME LInv, NEW k \in {"read", "write", "shutdown"}, Handles(k)
  PROVE  /\ k \in Kinds /\ conn.done[k] # <<>> /\ conn.frame = "none"
         /\ conn.ups > 0 /\ conn.downs = 0
         /\ conn \in Connections /\ InTurn(conn)
         /\ Taken(k) \in Connections /\ Quiet(conn, Taken(k)) /\ InTurn(Taken(k))
<1>1. k \in Kinds /\ conn.done[k] # <<>> /\ conn.frame = "none" /\ conn.held
  BY DEF Handles, Queued, Kinds
<1> QED BY <1>1, UpNat, TakenQuiet

LEMMA HandshakeCallbackSteps ==
  ASSUME LInv, HandshakeCallback
  PROVE  InTurn(conn') /\ Step(conn, conn')
<1> DEFINE u == Taken("handshake")
           c == Close(u)
           f == ConnectionFailed(u)
<1>1. /\ "handshake" \in Kinds /\ conn.done["handshake"] # <<>>
      /\ conn.frame = "none" /\ conn.held
  BY DEF HandshakeCallback, Handles, Queued, Kinds
<1>2. conn \in Connections /\ conn.downs = 0 /\ InUse("handshake", conn) >= 1
      /\ conn.ups = 0
  <2>1. conn \in Connections /\ conn.downs = 0 /\ conn.ups \in Nat
    BY <1>1, UpNat
  <2>2. InUse("handshake", conn) >= 1 /\ InUse("handshake", conn) \in Nat
    BY <1>1, <2>1, InUseFacts
  <2>3. InUse("handshake", conn) + conn.ups <= 1
    BY DEF LInv, IInv, Inv, OneHandshake
  <2> QED BY <2>1, <2>2, <2>3
<1>3. u \in Connections /\ Quiet(conn, u) /\ InTurn(u)
  BY <1>1, TakenQuiet
<1>4. conn' = Reap(HandshakeOk(u)) \/ conn' = Reap(f)
  BY DEF HandshakeCallback, Next1
<1> HIDE DEF u
<1>5. CASE conn' = Reap(HandshakeOk(u))
  <2>1. InTurn(HandshakeOk(u)) /\ Step(conn, HandshakeOk(u))
    BY <1>1, <1>2, <1>3, TurnBegins DEF Quiet
  <2>2. HandshakeOk(u) \in Connections
    <3>1. u.ups + 1 \in Nat /\ "connected" \in Frames
      BY <1>3 DEF Connections, Frames
    <3> QED BY <1>3, <3>1 DEF HandshakeOk, Connections
  <2> QED BY <1>5, <2>1, <2>2, TurnReap
<1>6. CASE conn' = Reap(f)
  <2>1. c \in Connections /\ Quiet(u, c) /\ SameUse(u, c)
    BY <1>3, CloseFacts, QuietClose
  <2>2. f = [c EXCEPT !.errs = @ + 1]
    BY DEF ConnectionFailed
  <2> HIDE DEF c, f
  <2>3. f \in Connections /\ Quiet(c, f) /\ f.pending = c.pending /\ f.done = c.done
    <3>1. c.errs + 1 \in Nat
      BY <2>1 DEF Connections
    <3> QED BY <2>1, <2>2, <3>1 DEF Connections, Quiet
  <2>4. \A k \in Kinds : InUse(k, f) = InUse(k, u)
    BY <2>1, <2>3 DEF InUse, SameUse
  <2>5. InTurn(f) /\ Step(u, f)
    BY <1>2, <1>3, <2>1, <2>3, <2>4, TurnIdle DEF Quiet
  <2>6. Step(conn, f)
    BY <1>3, <2>1, <2>3 DEF Quiet, Step, Ends
  <2> QED BY <1>6, <2>3, <2>5, <2>6, TurnReap
<1> QED BY <1>4, <1>5, <1>6

LEMMA ReadDataSteps ==
  ASSUME LInv, ReadData
  PROVE  InTurn(conn') /\ Step(conn, conn')
<1> DEFINE u == Taken("read")
           t == [u EXCEPT !.frame = "received"]
<1>1. /\ conn.frame = "none" /\ conn.ups > 0 /\ conn.downs = 0
      /\ u \in Connections /\ Quiet(conn, u)
  BY HandledWhenUp DEF ReadData
<1>2. conn' = Reap(t)
  BY DEF ReadData, Next1
<1> HIDE DEF u
<1>3. /\ t \in Connections /\ t.frame = "received" /\ t.ups = u.ups
      /\ t.downs = u.downs /\ t.transmitting = u.transmitting
  BY <1>1 DEF Connections, Frames
<1> HIDE DEF t
<1>4. InTurn(t) /\ Step(conn, t)
  BY <1>1, <1>3 DEF Quiet, InTurn, Step, Delivers
<1> QED BY <1>2, <1>3, <1>4, TurnReap

LEMMA ReadErrorSteps ==
  ASSUME Owner = "server", LInv, ReadError
  PROVE  InTurn(conn') /\ Step(conn, conn')
<1> DEFINE u == Taken("read")
           t == SignalErrorOrDisconnect(Result("read"), u)
<1>1. /\ conn \in Connections /\ InTurn(conn) /\ conn.ups > 0
      /\ u \in Connections /\ Quiet(conn, u)
  BY HandledWhenUp DEF ReadError
<1>2. conn' = Reap(t)
  BY DEF ReadError, Next1
<1>3. (Quiet(u, t) \/ Ended(u, t)) /\ t \in Connections
  BY <1>1, EndedSignal
<1> HIDE DEF u, t
<1>4. InTurn(t) /\ Step(conn, t)
  BY <1>1, <1>3, TurnEnds
<1> QED BY <1>2, <1>3, <1>4, TurnReap

(* Only a write can complete before shutdown() was called, and it is the   *)
(* write that transmitting_ stands for: SENT is due.                       *)
LEMMA WrittenSteps ==
  ASSUME Owner = "server", LInv, NEW k \in {"write", "shutdown"}, Handles(k),
         ~conn.shutdown_sent
  PROVE  LET t == Written(Taken(k))
         IN  t \in Connections /\ InTurn(t) /\ Step(conn, t)
<1> DEFINE u == Taken(k)
           w == WriteHandler(u)
<1>1. /\ k \in Kinds /\ conn.done[k] # <<>>
      /\ conn.frame = "none" /\ conn.ups > 0 /\ conn.downs = 0
      /\ conn \in Connections /\ InTurn(conn)
      /\ u \in Connections /\ Quiet(conn, u)
  BY HandledWhenUp
<1>2. conn.transmitting = TRUE
  <2>1. InUse(k, conn) \in Nat /\ InUse(k, conn) >= 1
    BY <1>1, InUseFacts
  <2>2. /\ InUse("shutdown", conn) > 0 => conn.shutdown_sent
        /\ ~conn.transmitting => InUse("write", conn) = 0
    BY DEF LInv, IInv, Inv, ShutdownWasSent, OneWriter
  <2>3. k = "write"
    BY <2>1, <2>2
  <2>4. conn.transmitting \in BOOLEAN
    BY <1>1, FieldTypes
  <2> QED BY <2>1, <2>2, <2>3, <2>4
<1> HIDE DEF u
<1>3. Written(u) = Shutdown(u) \/ Written(u) = w
  BY DEF Written
<1>4. CASE Written(u) = Shutdown(u)
  BY <1>1, <1>4, EndedShutdown, TurnEnds DEF u
<1>5. CASE Written(u) = w
  <2>1. /\ w \in Connections /\ w.frame = "sent" /\ w.transmitting = FALSE
        /\ w.ups = u.ups /\ w.downs = u.downs
    BY <1>1 DEF WriteHandler, Connections, Frames
  <2> HIDE DEF w
  <2>2. InTurn(w) /\ Step(conn, w)
    BY <1>1, <1>2, <2>1 DEF Quiet, InTurn, Step, Delivers
  <2> QED BY <1>5, <2>1, <2>2 DEF u
<1> QED BY <1>3, <1>4, <1>5

LEMMA WriteCallbackSteps ==
  ASSUME Owner = "server", LInv, NEW k \in Kinds, WriteCallback(k)
  PROVE  InTurn(conn') /\ Step(conn, conn')
<1> DEFINE u == Taken(k)
           d == Disconnected(u)
           e == SignalErrorOrDisconnect(Result(k), u)
           w == Written(u)
<1>1. k \in {"write", "shutdown"} /\ Handles(k)
  BY DEF WriteCallback
<1>2. /\ conn \in Connections /\ InTurn(conn) /\ conn.ups > 0
      /\ u \in Connections /\ Quiet(conn, u)
  BY <1>1, HandledWhenUp
<1>3. \/ conn' = Reap(d) \/ conn' = Reap(e)
      \/ ~conn.shutdown_sent /\ conn' = Reap(w)
  BY DEF WriteCallback, Next1
<1>4. Ended(u, d) /\ d \in Connections
  BY <1>2, EndedDisconnected
<1>5. (Quiet(u, e) \/ Ended(u, e)) /\ e \in Connections
  BY <1>2, EndedSignal
<1>6. ~conn.shutdown_sent => w \in Connections /\ InTurn(w) /\ Step(conn, w)
  BY <1>1, WrittenSteps
<1> HIDE DEF u, d, e, w
<1>7. InTurn(d) /\ Step(conn, d) /\ InTurn(e) /\ Step(conn, e)
  BY <1>2, <1>4, <1>5, TurnEnds
<1> QED BY <1>3, <1>4, <1>5, <1>6, <1>7, TurnReap

LEMMA ReturnsSteps ==
  ASSUME LInv, Returns
  PROVE  InTurn(conn') /\ Step(conn, conn')
<1> DEFINE e == EnableReception(conn)
           b(s) == [s EXCEPT !.frame = "none"]
<1>1. conn \in Connections /\ InTurn(conn) /\ conn.frame # "none"
  BY UpNat DEF Returns, ConnectedReturns, ReceivedReturns, SentReturns
<1>2. e \in Connections /\ Quiet(conn, e) /\ Quiet(conn, conn)
  BY <1>1, StartOpFacts, QuietStartOp DEF EnableReception, Kinds, Quiet
<1>3. conn' = Reap(b(conn)) \/ conn' = Reap(b(e))
  BY DEF Returns, ConnectedReturns, ReceivedReturns, SentReturns, ReadAgain, Next1
<1> HIDE DEF e
<1>4. ASSUME NEW s \in Connections, Quiet(conn, s)
      PROVE  b(s) \in Connections /\ InTurn(b(s)) /\ Step(conn, b(s))
  <2> DEFINE t == b(s)
  <2>1. /\ t \in Connections /\ t.frame = "none" /\ t.ups = s.ups /\ t.downs = s.downs
        /\ t.transmitting = s.transmitting /\ t.held = s.held
    BY DEF Connections, Frames
  <2> HIDE DEF t
  <2>2. InTurn(t) /\ Step(conn, t)
    BY <1>1, <1>4, <2>1 DEF Quiet, InTurn, Idle, Step, ComesBack
  <2> QED BY <2>1, <2>2 DEF t
<1> QED BY <1>1, <1>2, <1>3, <1>4, TurnReap

-----------------------------------------------------------------------------
(* The invariant, and the refinement.                                      *)

LEMMA InitLInv == Init => LInv
<1> SUFFICES ASSUME Init PROVE LInv
  OBVIOUS
<1>1. IInv
  BY InitInv
<1>2. PICK a \in Adaptors : conn = NewConnection(a)
  BY DEF Init
<1>3. /\ conn.ups = 0 /\ conn.downs = 0 /\ conn.frame = "none"
      /\ conn.transmitting = FALSE /\ conn.pending = {}
      /\ \A k \in Kinds : conn.done[k] = <<>>
  BY <1>2 DEF NewConnection
<1>4. \A k \in Kinds : InUse(k, conn) = 0
  BY <1>3, EmptySeq DEF InUse
<1>5. Idle(conn)
  BY <1>3, <1>4 DEF Idle, Kinds
<1>6. ~(conn.downs > 0)
  BY <1>3
<1> QED BY <1>1, <1>5, <1>6 DEF LInv, InTurn

LEMMA NextSteps ==
  ASSUME Owner = "server", LInv, Next
  PROVE  InTurn(conn') /\ Step(conn, conn')
<1>1. CASE Start
  BY <1>1, StartSteps
<1>2. CASE Application
  BY <1>2, CallSendSteps, CallSteps, ReleaseSteps DEF Application
<1>3. CASE Handlers
  BY <1>3, IgnoredSteps, WriteCallbackSteps, HandshakeCallbackSteps, ReadDataSteps,
     ReadErrorSteps DEF Handlers
<1>4. CASE Returns
  BY <1>4, ReturnsSteps
<1>5. CASE \E k \in Kinds, r \in NetworkResults : Complete(k, r)
  BY <1>5, CompleteSteps
<1> QED BY <1>1, <1>2, <1>3, <1>4, <1>5 DEF Next

LEMMA NextLInv == Owner = "server" /\ LInv /\ [Next]_vars => LInv'
<1> SUFFICES ASSUME Owner = "server", LInv, [Next]_vars PROVE LInv'
  OBVIOUS
<1>1. IInv'
  BY NextInv DEF LInv
<1>2. CASE Next
  BY <1>1, <1>2, NextSteps DEF LInv
<1>3. CASE UNCHANGED vars
  BY <1>1, <1>3 DEF LInv, vars
<1> QED BY <1>2, <1>3

(* What the owner has been told, as the lifecycle sees it.                 *)
LEMMA StepMaps ==
  ASSUME LInv, IInv', Step(conn, conn')
  PROVE  [Lifecycle!Next]_(Lifecycle!lvars)
<1>1. /\ conn.ups \in Nat /\ conn.downs \in Nat
      /\ conn'.ups \in Nat /\ conn'.downs \in Nat
      /\ conn.transmitting \in BOOLEAN /\ InTurn(conn)
  BY UpNat, FieldTypes DEF IInv, Connections
<1> DEFINE phase == IF conn.downs > 0 THEN "down" ELSE IF conn.ups > 0 THEN "up" ELSE "fresh"
<1>2. CASE Ends(conn, conn')
  <2>1. /\ conn'.frame = conn.frame /\ conn'.transmitting = conn.transmitting
        /\ conn'.ups = conn.ups
    BY <1>2 DEF Ends
  <2>2. phase' = phase \/ (phase = "up" /\ phase' = "down")
    BY <1>1, <1>2 DEF Ends
  <2> QED BY <2>1, <2>2 DEF Lifecycle!lvars, Lifecycle!Next, Lifecycle!Disconnected
<1>3. CASE Begins(conn, conn')
  BY <1>1, <1>3 DEF Begins, Lifecycle!Next, Lifecycle!Connected
<1>4. CASE Delivers(conn, conn')
  <2>1. /\ phase = "up" /\ phase' = phase /\ conn.frame = "none"
        /\ \/ conn'.frame = "received" /\ conn'.transmitting = conn.transmitting
           \/ conn'.frame = "sent" /\ conn.transmitting = TRUE
              /\ conn'.transmitting = FALSE
    BY <1>1, <1>4 DEF Delivers
  <2> QED BY <2>1 DEF Lifecycle!Next, Lifecycle!Received, Lifecycle!Sent
<1>5. CASE ComesBack(conn, conn')
  <2>1. phase' = phase /\ conn.frame # "none" /\ conn'.frame = "none"
        /\ conn'.transmitting = conn.transmitting
    BY <1>1, <1>5 DEF ComesBack
  <2> QED BY <2>1 DEF Lifecycle!Next, Lifecycle!Returns
<1>6. CASE Takes(conn, conn')
  <2>1. phase' = phase /\ phase # "fresh" /\ conn'.frame = conn.frame
        /\ conn.transmitting = FALSE /\ conn'.transmitting = TRUE
    BY <1>1, <1>6 DEF Takes
  <2> QED BY <2>1 DEF Lifecycle!Next, Lifecycle!Take
<1> QED BY <1>2, <1>3, <1>4, <1>5, <1>6 DEF Step

(* The connection keeps the promises of ConnectionLifecycle when a server  *)
(* owns it: connection.hpp tells CONNECTED once and first, delivers data   *)
(* and SENT one at a time between CONNECTED and DISCONNECTED, and SENT     *)
(* once for a message that send_data took.                                 *)
THEOREM ImplementsLifecycle ==
  ASSUME Owner = "server"
  PROVE  Spec => KeepsLifecycle
<1>1. Init => Lifecycle!Init
  BY DEF Init, NewConnection, Lifecycle!Init
<1>2. LInv /\ [Next]_vars => [Lifecycle!Next]_(Lifecycle!lvars)
  <2> SUFFICES ASSUME LInv, [Next]_vars PROVE [Lifecycle!Next]_(Lifecycle!lvars)
    OBVIOUS
  <2>1. CASE Next
    BY <2>1, NextSteps, NextInv, StepMaps DEF LInv
  <2>2. CASE UNCHANGED vars
    BY <2>2 DEF vars, Lifecycle!lvars
  <2> QED BY <2>1, <2>2
<1>3. Init => LInv
  BY InitLInv
<1>4. LInv /\ [Next]_vars => LInv'
  BY NextLInv
<1> QED BY <1>1, <1>2, <1>3, <1>4, PTL DEF Spec, KeepsLifecycle, Lifecycle!Spec
=============================================================================
