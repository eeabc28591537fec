------------------------- MODULE Connection_proofs -------------------------
(***************************************************************************)
(* Proofs about Connection, for every set of adaptors, either owner and    *)
(* any bound on the calls.                                                 *)
(*                                                                         *)
(* The argument counts.  InUse(k, s) is how many operations of kind k are  *)
(* in progress or have completed without being handled.  Cancelling,       *)
(* closing and destroying turn the one into the other and leave the count  *)
(* alone; starting an operation adds one; a handler takes one.             *)
(***************************************************************************)
EXTENDS Connection, SequenceTheorems, TLAPS

InUse(k, s) ==
  IF k \in s.pending THEN Len(s.done[k]) + 1 ELSE Len(s.done[k])

(* The fields that closing a socket or telling the owner leaves alone.     *)
SameControl(s, t) ==
  /\ t.started = s.started /\ t.frame = s.frame /\ t.ups = s.ups
  /\ t.transmitting = s.transmitting /\ t.shutdown_sent = s.shutdown_sent
  /\ t.overlap = s.overlap /\ t.forced = s.forced /\ t.cut = s.cut

SameUse(s, t) == \A k \in Kinds : InUse(k, t) = InUse(k, s)

-----------------------------------------------------------------------------
(* The functions of the class keep a connection a connection.              *)

LEMMA FieldTypes ==
  ASSUME NEW s \in Connections
  PROVE  /\ s.pending \in SUBSET Kinds /\ s.overlap \in SUBSET Kinds
         /\ s.done \in [Kinds -> Seq(Results)]
         /\ s.started \in BOOLEAN /\ s.transmitting \in BOOLEAN
         /\ s.shutdown_sent \in BOOLEAN /\ s.open \in BOOLEAN
         /\ s.forced \in BOOLEAN /\ s.cut \in BOOLEAN
         /\ s.ups \in Nat /\ s.frame \in Frames
BY DEF Connections

LEMMA AppendDone ==
  ASSUME NEW s \in Connections, NEW k \in Kinds, NEW r \in Results
  PROVE  [s EXCEPT !.done[k] = Append(@, r)] \in Connections
<1>1. s.done \in [Kinds -> Seq(Results)]
  BY FieldTypes
<1>2. Append(s.done[k], r) \in Seq(Results)
  BY <1>1
<1>3. [s.done EXCEPT ![k] = Append(@, r)] \in [Kinds -> Seq(Results)]
  BY <1>1, <1>2
<1> QED BY <1>3 DEF Connections

LEMMA StartOpFacts ==
  ASSUME NEW s \in Connections, NEW k \in Kinds
  PROVE  LET t == StartOp(k, s)
         IN  /\ t \in Connections
             /\ \A j \in Kinds \ {k} : InUse(j, t) = InUse(j, s)
             /\ InUse(k, s) = 0 => InUse(k, t) = 1 /\ SameControl(s, t)
             /\ t = [s EXCEPT !.pending = t.pending, !.done = t.done,
                              !.overlap = t.overlap]
             /\ t.overlap \subseteq s.overlap \cup {k}
<1> DEFINE t == StartOp(k, s)
<1>1. /\ s.pending \in SUBSET Kinds /\ s.overlap \in SUBSET Kinds
      /\ s.done \in [Kinds -> Seq(Results)] /\ s.open \in BOOLEAN
  BY FieldTypes
<1>2. CASE s.open
  <2>1. t = [s EXCEPT !.pending = @ \cup {k},
                      !.overlap = @ \cup (s.pending \cap {k})]
    BY <1>2 DEF StartOp
  <2>2. /\ s.pending \cup {k} \in SUBSET Kinds
        /\ s.overlap \cup (s.pending \cap {k}) \in SUBSET Kinds
    BY <1>1
  <2>3. t \in Connections
    BY <2>1, <2>2 DEF Connections
  <2>4. /\ t.pending = s.pending \cup {k} /\ t.done = s.done
        /\ t.overlap = s.overlap \cup (s.pending \cap {k})
    BY <2>1 DEF Connections
  <2>5. Len(s.done[k]) \in Nat
    BY <1>1
  <2>6. \A j \in Kinds \ {k} : InUse(j, t) = InUse(j, s)
    BY <2>4 DEF InUse
  <2>7. InUse(k, s) = 0 => k \notin s.pending /\ InUse(k, t) = 1
    <3>1. ASSUME InUse(k, s) = 0
          PROVE  k \notin s.pending /\ Len(s.done[k]) = 0
      BY <2>5, <3>1 DEF InUse
    <3>2. k \in t.pending /\ t.done[k] = s.done[k]
      BY <2>4
    <3> QED BY <3>1, <3>2 DEF InUse
  <2>8. k \notin s.pending => SameControl(s, t)
    BY <2>1, <2>4 DEF SameControl, Connections
  <2>9. t = [s EXCEPT !.pending = t.pending, !.done = t.done, !.overlap = t.overlap]
    BY <2>1, <2>4 DEF Connections
  <2> QED BY <2>3, <2>4, <2>6, <2>7, <2>8, <2>9
<1>3. CASE ~s.open
  <2>1. t = [s EXCEPT !.done[k] = Append(@, "disc")]
    BY <1>3 DEF StartOp
  <2>2. t \in Connections
    <3>1. "disc" \in Results
      BY DEF Results, Errors
    <3> QED BY <2>1, <3>1, AppendDone
  <2>3. /\ t.pending = s.pending /\ t.overlap = s.overlap
        /\ t.done = [s.done EXCEPT ![k] = Append(@, "disc")]
    BY <2>1 DEF Connections
  <2>4. /\ Len(t.done[k]) = Len(s.done[k]) + 1
        /\ \A j \in Kinds \ {k} : t.done[j] = s.done[j]
    BY <1>1, <2>3 DEF Results, Errors
  <2>5. Len(s.done[k]) \in Nat
    BY <1>1
  <2>6. \A j \in Kinds \ {k} : InUse(j, t) = InUse(j, s)
    BY <2>3, <2>4 DEF InUse
  <2>7. InUse(k, t) = InUse(k, s) + 1
    BY <2>3, <2>4, <2>5 DEF InUse
  <2>8. SameControl(s, t)
    BY <2>1 DEF SameControl, Connections
  <2>9. t = [s EXCEPT !.pending = t.pending, !.done = t.done, !.overlap = t.overlap]
    BY <2>1, <2>3 DEF Connections
  <2> QED BY <2>2, <2>3, <2>6, <2>7, <2>8, <2>9
<1> QED BY <1>1, <1>2, <1>3

LEMMA InUseFacts ==
  ASSUME NEW s \in Connections, NEW k \in Kinds
  PROVE  /\ InUse(k, s) \in Nat
         /\ k \in s.pending => InUse(k, s) >= 1
         /\ s.done[k] # <<>> => InUse(k, s) >= 1
         /\ s.done[k] # <<>> /\ k \in s.pending => InUse(k, s) >= 2
<1>1. /\ Len(s.done[k]) \in Nat
      /\ s.done[k] # <<>> => Len(s.done[k]) >= 1
  <2>1. s.done[k] \in Seq(Results)
    BY FieldTypes
  <2> QED BY <2>1, EmptySeq, LenProperties
<1> QED BY <1>1 DEF InUse

LEMMA CancelOpsFacts ==
  ASSUME NEW s \in Connections
  PROVE  LET t == CancelOps(s)
         IN  t \in Connections /\ SameControl(s, t) /\ SameUse(s, t)
             /\ t.pending = {} /\ t.open = s.open
<1> DEFINE t == CancelOps(s)
           d == [k \in Kinds |-> IF k \in s.pending
                                 THEN Append(s.done[k], "aborted") ELSE s.done[k]]
<1>1. s.done \in [Kinds -> Seq(Results)] /\ "aborted" \in Results
  BY FieldTypes DEF Results, Errors
<1>2. d \in [Kinds -> Seq(Results)]
  BY <1>1
<1>3. t = [s EXCEPT !.pending = {}, !.done = d]
  BY DEF CancelOps
<1>4. t \in Connections /\ SameControl(s, t) /\ t.open = s.open
  BY <1>2, <1>3 DEF Connections, SameControl
<1>5. t.pending = {} /\ t.done = d
  BY <1>3 DEF Connections
<1>6. ASSUME NEW k \in Kinds PROVE InUse(k, t) = InUse(k, s)
  <2>1. Len(s.done[k]) \in Nat
    BY <1>1
  <2>2. k \in s.pending => Len(d[k]) = Len(s.done[k]) + 1
    BY <1>1
  <2>3. k \notin s.pending => d[k] = s.done[k]
    OBVIOUS
  <2> QED BY <1>5, <2>1, <2>2, <2>3 DEF InUse
<1> QED BY <1>4, <1>5, <1>6 DEF SameUse

LEMMA CloseFacts ==
  ASSUME NEW s \in Connections
  PROVE  LET t == Close(s)
         IN  t \in Connections /\ SameControl(s, t) /\ SameUse(s, t) /\ ~t.open
<1> DEFINE u == [s EXCEPT !.open = FALSE]
<1>1. u \in Connections /\ SameControl(s, u) /\ ~u.open
      /\ u.pending = s.pending /\ u.done = s.done
  BY DEF Connections, SameControl
<1>2. SameUse(s, u)
  BY <1>1 DEF SameUse, InUse
<1>3. CASE s.open
  <2>1. Close(s) = CancelOps(u)
    BY <1>3 DEF Close
  <2> QED BY <1>1, <1>2, <2>1, CancelOpsFacts DEF SameUse, SameControl
<1>4. CASE ~s.open
  BY <1>4 DEF Close, SameUse, SameControl
<1> QED BY <1>3, <1>4

LEMMA ReapFacts ==
  ASSUME NEW s \in Connections
  PROVE  Reap(s) \in Connections /\ SameControl(s, Reap(s)) /\ SameUse(s, Reap(s))
BY CloseFacts DEF Reap, SameControl, SameUse

LEMMA DisconnectedFacts ==
  ASSUME NEW s \in Connections
  PROVE  LET t == Disconnected(s)
         IN  t \in Connections /\ SameControl(s, t) /\ SameUse(s, t)
<1> DEFINE u == [s EXCEPT !.downs = @ + 1]
           v == [u EXCEPT !.held = FALSE]
           w == [u EXCEPT !.connected = FALSE]
<1>1. /\ u \in Connections /\ v \in Connections /\ w \in Connections
      /\ SameControl(s, u) /\ SameControl(s, v) /\ SameControl(s, w)
  <2>1. u \in Connections /\ SameControl(s, u)
    BY DEF Connections, SameControl
  <2>2. v \in Connections /\ SameControl(u, v)
    BY <2>1 DEF Connections, SameControl
  <2>3. w \in Connections /\ SameControl(u, w)
    BY <2>1 DEF Connections, SameControl
  <2> QED BY <2>1, <2>2, <2>3 DEF SameControl
<1>2. /\ u.pending = s.pending /\ v.pending = s.pending /\ w.pending = s.pending
      /\ u.done = s.done /\ v.done = s.done /\ w.done = s.done
  BY DEF Connections
<1>3. SameUse(s, u) /\ SameUse(s, v) /\ SameUse(s, w)
  BY <1>2 DEF SameUse, InUse
<1>4. Disconnected(s) \in {u, v, Close(w)}
  BY DEF Disconnected, OwnerDisconnected
<1>5. Close(w) \in Connections /\ SameControl(s, Close(w)) /\ SameUse(s, Close(w))
  BY <1>1, <1>3, CloseFacts DEF SameControl, SameUse
<1> QED BY <1>1, <1>3, <1>4, <1>5

LEMMA ShutdownFacts ==
  ASSUME NEW s \in Connections
  PROVE  LET t == Shutdown(s)
         IN  /\ t \in Connections
             /\ t.started = s.started /\ t.frame = s.frame /\ t.ups = s.ups
             /\ t.transmitting = s.transmitting /\ t.forced = s.forced
             /\ t.shutdown_sent
             /\ t.cut <=> s.cut \/ "write" \in s.pending
             /\ t.overlap \subseteq s.overlap \cup {"shutdown"}
             /\ \A k \in Kinds \ {"shutdown"} : InUse(k, t) = InUse(k, s)
<1> DEFINE u == [s EXCEPT !.shutdown_sent = TRUE,
                          !.cut = @ \/ "write" \in s.pending]
           c == CancelOps(u)
           p == StartOp("shutdown", c)
<1>1. /\ u \in Connections
      /\ u.started = s.started /\ u.frame = s.frame /\ u.ups = s.ups
      /\ u.transmitting = s.transmitting /\ u.forced = s.forced
      /\ u.shutdown_sent /\ u.overlap = s.overlap
      /\ u.cut <=> s.cut \/ "write" \in s.pending
      /\ u.pending = s.pending /\ u.done = s.done
  BY DEF Connections
<1>2. \A k \in Kinds : InUse(k, u) = InUse(k, s)
  BY <1>1 DEF InUse
<1>3. CASE IsSsl(s)
  <2>1. Shutdown(s) = p
    BY <1>3 DEF Shutdown, IsSsl
  <2>2. c \in Connections /\ SameControl(u, c) /\ SameUse(u, c)
    BY <1>1, CancelOpsFacts
  <2>3. /\ p \in Connections
        /\ \A j \in Kinds \ {"shutdown"} : InUse(j, p) = InUse(j, c)
        /\ p = [c EXCEPT !.pending = p.pending, !.done = p.done,
                         !.overlap = p.overlap]
        /\ p.overlap \subseteq c.overlap \cup {"shutdown"}
    BY <2>2, StartOpFacts DEF Kinds
  <2>4. /\ p.started = c.started /\ p.frame = c.frame /\ p.ups = c.ups
        /\ p.transmitting = c.transmitting /\ p.forced = c.forced
        /\ p.shutdown_sent = c.shutdown_sent /\ p.cut = c.cut
    BY <2>2, <2>3 DEF Connections
  <2>5. /\ p.started = s.started /\ p.frame = s.frame /\ p.ups = s.ups
        /\ p.transmitting = s.transmitting /\ p.forced = s.forced
        /\ p.shutdown_sent /\ p.cut = u.cut
        /\ p.overlap \subseteq s.overlap \cup {"shutdown"}
    BY <1>1, <2>2, <2>3, <2>4 DEF SameControl
  <2>6. \A k \in Kinds \ {"shutdown"} : InUse(k, p) = InUse(k, s)
    BY <1>2, <2>2, <2>3 DEF SameUse
  <2>7. p.cut <=> s.cut \/ "write" \in s.pending
    BY <1>1, <2>5
  <2> QED BY <2>1, <2>3, <2>5, <2>6, <2>7
<1>4. CASE ~IsSsl(s)
  <2>1. Shutdown(s) = Disconnected(u)
    BY <1>4 DEF Shutdown, IsSsl
  <2> DEFINE d == Disconnected(u)
  <2>2. d \in Connections /\ SameControl(u, d) /\ SameUse(u, d)
    BY <1>1, DisconnectedFacts
  <2>3. /\ d.started = s.started /\ d.frame = s.frame /\ d.ups = s.ups
        /\ d.transmitting = s.transmitting /\ d.forced = s.forced
        /\ d.shutdown_sent /\ d.cut = u.cut /\ d.overlap = s.overlap
    BY <1>1, <2>2 DEF SameControl
  <2>4. \A k \in Kinds \ {"shutdown"} : InUse(k, d) = InUse(k, s)
    BY <1>2, <2>2 DEF SameUse
  <2>5. d.cut <=> s.cut \/ "write" \in s.pending
    BY <1>1, <2>3
  <2> QED BY <2>1, <2>2, <2>3, <2>4, <2>5
<1> QED BY <1>3, <1>4

-----------------------------------------------------------------------------
(* The inductive invariant.  NoOverlap alone is not inductive: that a read *)
(* or a write is not in progress when the next one is started follows from *)
(* there being one token for reading, which passes from start() to the     *)
(* handshake, to the CONNECTED event, to the first read, to the event that *)
(* delivers its data and back to a read; and one for writing, which exists *)
(* only while transmitting_ is set.                                        *)

Unstarted(s) ==
  ~s.started => /\ InUse("handshake", s) = 0 /\ InUse("read", s) = 0
                /\ s.ups = 0 /\ s.frame \notin {"connected", "received"}

OneHandshake(s) == InUse("handshake", s) + s.ups <= 1

OneReader(s) ==
  /\ InUse("handshake", s) + InUse("read", s) <= 1
  /\ s.frame \in {"connected", "received"} =>
       InUse("handshake", s) = 0 /\ InUse("read", s) = 0

OneWriter(s) ==
  InUse("write", s) <= 1 /\ (~s.transmitting => InUse("write", s) = 0)

ShutdownWasSent(s) == InUse("shutdown", s) > 0 => s.shutdown_sent

Disjoint(s) == s.overlap \cap {"read", "write"} = {}

Graceful(s) == s.cut => s.forced

Inv(s) ==
  /\ Unstarted(s) /\ OneHandshake(s) /\ OneReader(s) /\ OneWriter(s)
  /\ ShutdownWasSent(s) /\ Disjoint(s) /\ Graceful(s)

IInv == conn \in Connections /\ calls \in Nat /\ Inv(conn)

LEMMA AllUseNat ==
  ASSUME NEW s \in Connections
  PROVE  /\ InUse("handshake", s) \in Nat /\ InUse("read", s) \in Nat
         /\ InUse("write", s) \in Nat /\ InUse("shutdown", s) \in Nat
         /\ s.ups \in Nat
<1>1. {"handshake", "read", "write", "shutdown"} \subseteq Kinds
  BY DEF Kinds
<1> QED BY <1>1, InUseFacts, FieldTypes

LEMMA InvTransfers ==
  ASSUME NEW s \in Connections, NEW t \in Connections, Inv(s),
         SameControl(s, t), SameUse(s, t)
  PROVE  Inv(t)
<1>1. /\ InUse("handshake", t) = InUse("handshake", s)
      /\ InUse("read", t) = InUse("read", s)
      /\ InUse("write", t) = InUse("write", s)
      /\ InUse("shutdown", t) = InUse("shutdown", s)
  BY DEF SameUse, Kinds
<1> QED BY <1>1 DEF SameControl, Inv, Unstarted, OneHandshake, OneReader,
                    OneWriter, ShutdownWasSent, Disjoint, Graceful

LEMMA ReapInv ==
  ASSUME NEW s \in Connections, Inv(s)
  PROVE  Reap(s) \in Connections /\ Inv(Reap(s))
BY ReapFacts, InvTransfers

LEMMA DisconnectedInv ==
  ASSUME NEW s \in Connections, Inv(s)
  PROVE  Disconnected(s) \in Connections /\ Inv(Disconnected(s))
BY DisconnectedFacts, InvTransfers

LEMMA ShutdownInv ==
  ASSUME NEW s \in Connections, Inv(s), "write" \in s.pending => s.forced
  PROVE  Shutdown(s) \in Connections /\ Inv(Shutdown(s))
<1> DEFINE t == Shutdown(s)
<1>1. /\ InUse("handshake", t) = InUse("handshake", s)
      /\ InUse("read", t) = InUse("read", s)
      /\ InUse("write", t) = InUse("write", s)
  BY ShutdownFacts DEF Kinds
<1>2. t \in Connections /\ t.shutdown_sent
  BY ShutdownFacts
<1>3. Disjoint(t) /\ Graceful(t)
  BY ShutdownFacts DEF Inv, Disjoint, Graceful
<1>4. Unstarted(t) /\ OneHandshake(t) /\ OneReader(t) /\ OneWriter(t)
  BY <1>1, ShutdownFacts DEF Inv, Unstarted, OneHandshake, OneReader, OneWriter
<1> QED BY <1>2, <1>3, <1>4 DEF Inv, ShutdownWasSent

LEMMA ForcedShutdownInv ==
  ASSUME NEW s \in Connections, Inv(s)
  PROVE  ForcedShutdown(s) \in Connections /\ Inv(ForcedShutdown(s))
<1> DEFINE u == [s EXCEPT !.forced = TRUE]
<1>1. /\ u \in Connections /\ u.forced
      /\ u.started = s.started /\ u.frame = s.frame /\ u.ups = s.ups
      /\ u.transmitting = s.transmitting /\ u.shutdown_sent = s.shutdown_sent
      /\ u.overlap = s.overlap /\ u.pending = s.pending /\ u.done = s.done
  BY DEF Connections
<1>2. /\ InUse("handshake", u) = InUse("handshake", s)
      /\ InUse("read", u) = InUse("read", s)
      /\ InUse("write", u) = InUse("write", s)
      /\ InUse("shutdown", u) = InUse("shutdown", s)
  BY <1>1 DEF InUse
<1>3. Inv(u)
  BY <1>1, <1>2 DEF Inv, Unstarted, OneHandshake, OneReader, OneWriter,
                    ShutdownWasSent, Disjoint, Graceful
<1> QED BY <1>1, <1>3, ShutdownInv DEF ForcedShutdown

LEMMA SignalInv ==
  ASSUME NEW s \in Connections, NEW e, Inv(s)
  PROVE  /\ SignalErrorOrDisconnect(e, s) \in Connections
         /\ Inv(SignalErrorOrDisconnect(e, s))
<1> DEFINE u == [s EXCEPT !.errs = @ + 1]
<1>1. u \in Connections /\ SameControl(s, u) /\ u.pending = s.pending /\ u.done = s.done
  BY DEF Connections, SameControl
<1>2. SameUse(s, u)
  BY <1>1 DEF SameUse, InUse
<1>3. Inv(u)
  BY <1>1, <1>2, InvTransfers
<1>4. SignalErrorOrDisconnect(e, s) \in {ForcedShutdown(s), Disconnected(s), u}
  BY DEF SignalErrorOrDisconnect
<1> QED BY <1>1, <1>3, <1>4, ForcedShutdownInv, DisconnectedInv

-----------------------------------------------------------------------------
(* The handlers.  Each takes one completion, and with it the token.        *)

LEMMA TakenFacts ==
  ASSUME conn \in Connections, NEW k \in Kinds, conn.done[k] # <<>>
  PROVE  LET u == Taken(k)
         IN  /\ u \in Connections /\ SameControl(conn, u)
             /\ u.pending = conn.pending
             /\ u.disconnect_pending = conn.disconnect_pending
             /\ InUse(k, u) = InUse(k, conn) - 1
             /\ \A j \in Kinds \ {k} : InUse(j, u) = InUse(j, conn)
<1> DEFINE u == Taken(k)
           d == [conn.done EXCEPT ![k] = Tail(@)]
<1>1. conn.done \in [Kinds -> Seq(Results)]
  BY FieldTypes
<1>2. /\ Tail(conn.done[k]) \in Seq(Results)
      /\ Len(Tail(conn.done[k])) = Len(conn.done[k]) - 1
      /\ Len(conn.done[k]) \in Nat
  BY <1>1, HeadTailProperties
<1>3. d \in [Kinds -> Seq(Results)]
  BY <1>1, <1>2
<1>4. u = [conn EXCEPT !.done = d]
  BY DEF Taken
<1>5. /\ u \in Connections /\ SameControl(conn, u) /\ u.pending = conn.pending
      /\ u.disconnect_pending = conn.disconnect_pending /\ u.done = d
  BY <1>3, <1>4 DEF Connections, SameControl
<1>6. InUse(k, u) = InUse(k, conn) - 1
  BY <1>1, <1>2, <1>5 DEF InUse
<1>7. \A j \in Kinds \ {k} : InUse(j, u) = InUse(j, conn)
  BY <1>1, <1>5 DEF InUse
<1> QED BY <1>5, <1>6, <1>7

LEMMA TakenInv ==
  ASSUME IInv, NEW k \in Kinds, conn.done[k] # <<>>
  PROVE  Taken(k) \in Connections /\ Inv(Taken(k))
<1> DEFINE u == Taken(k)
<1>1. u \in Connections /\ SameControl(conn, u)
  BY TakenFacts DEF IInv
<1>2. \A j \in Kinds : InUse(j, u) <= InUse(j, conn) /\ InUse(j, u) \in Nat
  <2>1. \A j \in Kinds : InUse(j, u) \in Nat /\ InUse(j, conn) \in Nat
    BY <1>1, InUseFacts DEF IInv
  <2> QED BY <2>1, TakenFacts DEF IInv
<1>3. /\ InUse("handshake", u) <= InUse("handshake", conn)
      /\ InUse("read", u) <= InUse("read", conn)
      /\ InUse("write", u) <= InUse("write", conn)
      /\ InUse("shutdown", u) <= InUse("shutdown", conn)
  BY <1>2 DEF Kinds
<1>4. conn \in Connections
  BY DEF IInv
<1> QED BY <1>1, <1>3, <1>4, AllUseNat
        DEF IInv, SameControl, Inv, Unstarted, OneHandshake, OneReader,
            OneWriter, ShutdownWasSent, Disjoint, Graceful

LEMMA HandshakeOkInv ==
  ASSUME NEW s \in Connections, Inv(s), s.started,
         s.frame \notin {"connected", "received"},
         InUse("handshake", s) = 0, InUse("read", s) = 0, s.ups = 0
  PROVE  HandshakeOk(s) \in Connections /\ Inv(HandshakeOk(s))
<1> DEFINE u == [s EXCEPT !.connected = TRUE, !.ups = 1, !.frame = "connected"]
<1>1. "connected" \in Frames
  BY DEF Frames
<1>2. u \in Connections
  BY <1>1 DEF Connections
<1>3. /\ u.started = s.started /\ u.frame = "connected" /\ u.ups = 1
      /\ u.transmitting = s.transmitting /\ u.shutdown_sent = s.shutdown_sent
      /\ u.overlap = s.overlap /\ u.pending = s.pending /\ u.done = s.done
      /\ u.forced = s.forced /\ u.cut = s.cut
  BY DEF Connections
<1>4. /\ InUse("handshake", u) = 0 /\ InUse("read", u) = 0
      /\ InUse("write", u) = InUse("write", s)
      /\ InUse("shutdown", u) = InUse("shutdown", s)
  BY <1>3 DEF InUse
<1>5. Inv(u)
  BY <1>3, <1>4 DEF Inv, Unstarted, OneHandshake, OneReader, OneWriter,
                    ShutdownWasSent, Disjoint, Graceful
<1>6. HandshakeOk(s) = u
  BY s.ups + 1 = 1 DEF HandshakeOk
<1> QED BY <1>2, <1>5, <1>6

(* Back from an event that keeps no token: the frame is all that changes.  *)
LEMMA FrameInv ==
  ASSUME NEW s \in Connections, Inv(s), NEW f \in Frames,
         f \in {"connected", "received"} =>
           s.started /\ InUse("handshake", s) = 0 /\ InUse("read", s) = 0
  PROVE  [s EXCEPT !.frame = f] \in Connections /\ Inv([s EXCEPT !.frame = f])
<1> DEFINE u == [s EXCEPT !.frame = f]
<1>1. u \in Connections
  BY DEF Connections
<1>2. /\ u.started = s.started /\ u.frame = f /\ u.ups = s.ups
      /\ u.transmitting = s.transmitting /\ u.shutdown_sent = s.shutdown_sent
      /\ u.overlap = s.overlap /\ u.pending = s.pending /\ u.done = s.done
      /\ u.forced = s.forced /\ u.cut = s.cut
  BY DEF Connections
<1>3. /\ InUse("handshake", u) = InUse("handshake", s)
      /\ InUse("read", u) = InUse("read", s)
      /\ InUse("write", u) = InUse("write", s)
      /\ InUse("shutdown", u) = InUse("shutdown", s)
  BY <1>2 DEF InUse
<1> QED BY <1>1, <1>2, <1>3
        DEF Inv, Unstarted, OneHandshake, OneReader, OneWriter,
            ShutdownWasSent, Disjoint, Graceful

(* Starting a read gives the reading token to the operation.               *)
LEMMA EnableReceptionInv ==
  ASSUME NEW s \in Connections, Inv(s), s.frame \in {"connected", "received"}
  PROVE  LET u == [EnableReception(s) EXCEPT !.frame = "none"]
         IN  u \in Connections /\ Inv(u)
<1> DEFINE r == EnableReception(s)
           u == [r EXCEPT !.frame = "none"]
<1>1. /\ "read" \in Kinds /\ "handshake" \in Kinds \ {"read"}
      /\ "write" \in Kinds \ {"read"} /\ "shutdown" \in Kinds \ {"read"}
      /\ "none" \in Frames
  BY DEF Kinds, Frames
<1>2. s.started /\ InUse("handshake", s) = 0 /\ InUse("read", s) = 0
  BY DEF Inv, Unstarted, OneReader
<1>3. /\ r \in Connections /\ SameControl(s, r) /\ InUse("read", r) = 1
      /\ \A j \in Kinds \ {"read"} : InUse(j, r) = InUse(j, s)
  BY <1>1, <1>2, StartOpFacts DEF EnableReception
<1>4. /\ u.started = s.started /\ u.frame = "none" /\ u.ups = s.ups
      /\ u.transmitting = s.transmitting /\ u.shutdown_sent = s.shutdown_sent
      /\ u.overlap = s.overlap /\ u.pending = r.pending /\ u.done = r.done
      /\ u.forced = s.forced /\ u.cut = s.cut
  BY <1>3 DEF Connections, SameControl
<1>5. u \in Connections
  BY <1>1, <1>3 DEF Connections
<1>6. /\ InUse("handshake", u) = 0 /\ InUse("read", u) = 1
      /\ InUse("write", u) = InUse("write", s)
      /\ InUse("shutdown", u) = InUse("shutdown", s)
  BY <1>1, <1>2, <1>3, <1>4 DEF InUse
<1>7. Inv(u)
  <2> HIDE DEF u
  <2>1. Unstarted(u) /\ OneHandshake(u) /\ OneReader(u)
    BY <1>2, <1>4, <1>6, AllUseNat DEF Inv, Unstarted, OneHandshake, OneReader
  <2>2. OneWriter(u) /\ ShutdownWasSent(u) /\ Disjoint(u) /\ Graceful(u)
    BY <1>4, <1>6 DEF Inv, OneWriter, ShutdownWasSent, Disjoint, Graceful
  <2> QED BY <2>1, <2>2 DEF Inv
<1> QED BY <1>5, <1>7

(* A change that leaves the counted operations and the control alone.      *)
LEMMA SameInv ==
  ASSUME NEW s \in Connections, NEW t \in Connections, Inv(s),
         SameControl(s, t), t.pending = s.pending, t.done = s.done
  PROVE  Inv(t)
<1>1. SameUse(s, t)
  BY DEF SameUse, InUse
<1> QED BY <1>1, InvTransfers

LEMMA HandshakeInv ==
  ASSUME NEW s \in Connections, Inv(s), s.started,
         s.frame \notin {"connected", "received"},
         InUse("handshake", s) = 0, InUse("read", s) = 0, s.ups = 0
  PROVE  Handshake(s) \in Connections /\ Inv(Handshake(s))
<1> DEFINE u == StartOp("handshake", s)
<1>1. /\ "handshake" \in Kinds /\ "read" \in Kinds \ {"handshake"}
      /\ "write" \in Kinds \ {"handshake"} /\ "shutdown" \in Kinds \ {"handshake"}
  BY DEF Kinds
<1>2. /\ u \in Connections /\ SameControl(s, u) /\ InUse("handshake", u) = 1
      /\ \A j \in Kinds \ {"handshake"} : InUse(j, u) = InUse(j, s)
  BY <1>1, StartOpFacts
<1>3. /\ InUse("read", u) = 0 /\ InUse("write", u) = InUse("write", s)
      /\ InUse("shutdown", u) = InUse("shutdown", s)
  BY <1>1, <1>2
<1>4. Inv(u)
  <2> HIDE DEF u
  <2> QED BY <1>2, <1>3 DEF SameControl, Inv, Unstarted, OneHandshake, OneReader,
                            OneWriter, ShutdownWasSent, Disjoint, Graceful
<1> QED BY <1>2, <1>4, HandshakeOkInv DEF Handshake

LEMMA StartInv ==
  ASSUME IInv, Start
  PROVE  IInv'
<1> DEFINE u == [conn EXCEPT !.started = TRUE]
<1>1. /\ u \in Connections /\ u.started
      /\ u.frame = conn.frame /\ u.ups = conn.ups
      /\ u.transmitting = conn.transmitting
      /\ u.shutdown_sent = conn.shutdown_sent /\ u.overlap = conn.overlap
      /\ u.pending = conn.pending /\ u.done = conn.done
      /\ u.forced = conn.forced /\ u.cut = conn.cut
  BY DEF IInv, Connections
<1>2. /\ InUse("handshake", u) = InUse("handshake", conn)
      /\ InUse("read", u) = InUse("read", conn)
      /\ InUse("write", u) = InUse("write", conn)
      /\ InUse("shutdown", u) = InUse("shutdown", conn)
  BY <1>1 DEF InUse
<1>3. /\ InUse("handshake", conn) = 0 /\ InUse("read", conn) = 0
      /\ conn.ups = 0 /\ conn.frame \notin {"connected", "received"}
  BY DEF IInv, Inv, Unstarted, Start
<1>4. Inv(u)
  <2> HIDE DEF u
  <2> QED BY <1>1, <1>2, <1>3 DEF IInv, Inv, Unstarted, OneHandshake, OneReader,
                                  OneWriter, ShutdownWasSent, Disjoint, Graceful
<1> QED BY <1>1, <1>2, <1>3, <1>4, HandshakeInv DEF Start, IInv

LEMMA CallSendInv ==
  ASSUME IInv, CallSend
  PROVE  IInv'
<1> DEFINE s == [conn EXCEPT !.transmitting = TRUE]
           u == StartOp("write", s)
<1>1. /\ "write" \in Kinds /\ "handshake" \in Kinds \ {"write"}
      /\ "read" \in Kinds \ {"write"} /\ "shutdown" \in Kinds \ {"write"}
  BY DEF Kinds
<1>2. /\ s \in Connections /\ s.transmitting
      /\ s.started = conn.started /\ s.frame = conn.frame /\ s.ups = conn.ups
      /\ s.shutdown_sent = conn.shutdown_sent /\ s.overlap = conn.overlap
      /\ s.pending = conn.pending /\ s.done = conn.done
      /\ s.forced = conn.forced /\ s.cut = conn.cut
  BY DEF IInv, Connections
<1>3. \A k \in Kinds : InUse(k, s) = InUse(k, conn)
  BY <1>2 DEF InUse
<1>4. InUse("write", s) = 0
  BY <1>1, <1>3 DEF IInv, Inv, OneWriter, CallSend
<1>5. /\ u \in Connections /\ SameControl(s, u) /\ InUse("write", u) = 1
      /\ \A j \in Kinds \ {"write"} : InUse(j, u) = InUse(j, s)
  BY <1>1, <1>2, <1>4, StartOpFacts
<1>6. /\ InUse("handshake", u) = InUse("handshake", conn)
      /\ InUse("read", u) = InUse("read", conn)
      /\ InUse("shutdown", u) = InUse("shutdown", conn)
  BY <1>1, <1>3, <1>5
<1>7. conn' = u /\ calls' = calls + 1
  BY DEF CallSend, Call, SendData, WriteData
<1>8. Inv(u)
  <2> HIDE DEF u, s
  <2> QED BY <1>2, <1>5, <1>6
          DEF IInv, SameControl, Inv, Unstarted, OneHandshake, OneReader,
              OneWriter, ShutdownWasSent, Disjoint, Graceful
<1> QED BY <1>5, <1>7, <1>8 DEF IInv

LEMMA CallDisconnectInv ==
  ASSUME IInv, CallDisconnect
  PROVE  IInv'
<1> DEFINE u == [conn EXCEPT !.disconnect_pending = TRUE]
<1>1. conn \in Connections /\ Inv(conn)
  BY DEF IInv
<1>2. CASE conn.transmitting
  <2>1. /\ u \in Connections /\ SameControl(conn, u)
        /\ u.pending = conn.pending /\ u.done = conn.done
    BY <1>1 DEF Connections, SameControl
  <2>2. Disconnect(conn) = u /\ Inv(u)
    BY <1>1, <1>2, <2>1, SameInv DEF Disconnect
  <2>3. Reap(u) \in Connections /\ Inv(Reap(u))
    BY <2>1, <2>2, ReapInv
  <2>4. conn' = Reap(u) /\ calls' = calls + 1
    BY <2>2 DEF CallDisconnect, Call
  <2> QED BY <2>3, <2>4 DEF IInv
<1>3. CASE ~conn.transmitting
  <2>1. "write" \notin conn.pending
    BY <1>1, <1>3, InUseFacts DEF Inv, OneWriter, Kinds
  <2> QED BY <1>1, <1>3, <2>1, ShutdownInv, ReapInv
          DEF CallDisconnect, Call, Disconnect, IInv
<1> QED BY <1>2, <1>3

LEMMA CallShutdownInv ==
  ASSUME IInv, CallShutdown
  PROVE  IInv'
BY ForcedShutdownInv, ReapInv DEF CallShutdown, Call, IInv

LEMMA CallCloseInv ==
  ASSUME IInv, CallClose
  PROVE  IInv'
BY CloseFacts, InvTransfers DEF CallClose, Call, IInv

LEMMA ReleaseInv ==
  ASSUME IInv, Release
  PROVE  IInv'
<1> DEFINE u == [conn EXCEPT !.held = FALSE]
<1>1. /\ u \in Connections /\ SameControl(conn, u)
      /\ u.pending = conn.pending /\ u.done = conn.done
  BY DEF IInv, Connections, SameControl
<1> QED BY <1>1, SameInv, ReapInv DEF Release, IInv

(* A completion moves an operation from `pending' to `done'.               *)
LEMMA CompleteInv ==
  ASSUME IInv, NEW k \in Kinds, NEW r \in NetworkResults, Complete(k, r)
  PROVE  IInv'
<1> DEFINE d == [conn.done EXCEPT ![k] = Append(@, r)]
           u == [conn EXCEPT !.pending = @ \ {k}, !.done = d]
<1>1. conn.done \in [Kinds -> Seq(Results)] /\ conn.pending \in SUBSET Kinds
      /\ k \in conn.pending
  BY FieldTypes DEF IInv, Complete
<1>2. r \in Results
  BY DEF NetworkResults, Results, Errors
<1>3. /\ Append(conn.done[k], r) \in Seq(Results)
      /\ Len(Append(conn.done[k], r)) = Len(conn.done[k]) + 1
  BY <1>1, <1>2
<1>4. d \in [Kinds -> Seq(Results)] /\ conn.pending \ {k} \in SUBSET Kinds
  BY <1>1, <1>3
<1>5. /\ u \in Connections /\ SameControl(conn, u)
      /\ u.pending = conn.pending \ {k} /\ u.done = d
  BY <1>4 DEF IInv, Connections, SameControl
<1>6. ASSUME NEW j \in Kinds PROVE InUse(j, u) = InUse(j, conn)
  <2>1. CASE j = k
    <3>1. j \in conn.pending /\ j \notin u.pending
          /\ Len(u.done[j]) = Len(conn.done[j]) + 1
      BY <1>1, <1>3, <1>5, <2>1
    <3> QED BY <3>1 DEF InUse
  <2>2. CASE j # k
    BY <1>1, <1>5, <2>2 DEF InUse
  <2> QED BY <2>1, <2>2
<1>7. conn' = u /\ calls' = calls
  BY DEF Complete
<1>8. SameUse(conn, u)
  BY <1>6 DEF SameUse
<1> QED BY <1>5, <1>7, <1>8, InvTransfers DEF IInv

LEMMA IgnoredInv ==
  ASSUME IInv, NEW k \in Kinds, Ignored(k)
  PROVE  IInv'
BY TakenInv, ReapInv DEF Ignored, Queued, Next1, IInv

LEMMA HandshakeCallbackInv ==
  ASSUME IInv, HandshakeCallback
  PROVE  IInv'
<1> DEFINE u == Taken("handshake")
           f == [Close(u) EXCEPT !.errs = @ + 1]
<1>1. "handshake" \in Kinds /\ "read" \in Kinds \ {"handshake"}
  BY DEF Kinds
<1>2. conn.done["handshake"] # <<>> /\ conn.frame = "none"
  BY DEF HandshakeCallback, Handles, Queued
<1>3. u \in Connections /\ Inv(u) /\ SameControl(conn, u)
  BY <1>1, <1>2, TakenInv, TakenFacts DEF IInv
<1>4. CASE Next1(HandshakeOk(u))
  <2>1. InUse("handshake", conn) >= 1
    BY <1>1, <1>2, InUseFacts DEF IInv
  <2>2. conn.started /\ conn.ups = 0 /\ InUse("read", conn) = 0
        /\ InUse("handshake", conn) = 1
    BY <2>1, AllUseNat DEF IInv, Inv, Unstarted, OneHandshake, OneReader
  <2>3. InUse("handshake", u) = 0 /\ InUse("read", u) = 0
    BY <1>1, <1>2, <2>2, TakenFacts DEF IInv
  <2>4. u.started /\ u.ups = 0 /\ u.frame = "none"
    BY <1>2, <1>3, <2>2 DEF SameControl
  <2>5. HandshakeOk(u) \in Connections /\ Inv(HandshakeOk(u))
    BY <1>3, <2>3, <2>4, HandshakeOkInv
  <2> QED BY <1>4, <2>5, ReapInv DEF Next1, IInv
<1>5. CASE Next1(ConnectionFailed(u))
  <2>1. Close(u) \in Connections /\ Inv(Close(u))
    BY <1>3, CloseFacts, InvTransfers
  <2>2. /\ f \in Connections /\ SameControl(Close(u), f)
        /\ f.pending = Close(u).pending /\ f.done = Close(u).done
    BY <2>1 DEF Connections, SameControl
  <2>3. f \in Connections /\ Inv(f)
    BY <2>1, <2>2, SameInv
  <2> QED BY <1>5, <2>3, ReapInv DEF Next1, ConnectionFailed, IInv
<1> QED BY <1>4, <1>5 DEF HandshakeCallback

LEMMA ReadDataInv ==
  ASSUME IInv, ReadData
  PROVE  IInv'
<1> DEFINE u == Taken("read")
<1>1. "read" \in Kinds /\ "handshake" \in Kinds \ {"read"} /\ "received" \in Frames
  BY DEF Kinds, Frames
<1>2. conn.done["read"] # <<>>
  BY DEF ReadData, Handles, Queued
<1>3. u \in Connections /\ Inv(u) /\ SameControl(conn, u)
  BY <1>1, <1>2, TakenInv, TakenFacts DEF IInv
<1>4. InUse("read", conn) >= 1
  BY <1>1, <1>2, InUseFacts DEF IInv
<1>5. conn.started /\ InUse("handshake", conn) = 0 /\ InUse("read", conn) = 1
  BY <1>4, AllUseNat DEF IInv, Inv, Unstarted, OneReader
<1>6. u.started /\ InUse("handshake", u) = 0 /\ InUse("read", u) = 0
  <2>1. u.started
    BY <1>3, <1>5 DEF SameControl
  <2>2. conn \in Connections
    BY DEF IInv
  <2>3. InUse("handshake", u) = InUse("handshake", conn)
        /\ InUse("read", u) = InUse("read", conn) - 1
    BY <1>1, <1>2, <2>2, TakenFacts
  <2> QED BY <1>5, <2>1, <2>3
<1>7. /\ [u EXCEPT !.frame = "received"] \in Connections
      /\ Inv([u EXCEPT !.frame = "received"])
  BY <1>1, <1>3, <1>6, FrameInv
<1> QED BY <1>7, ReapInv DEF ReadData, Next1, IInv

LEMMA ReadErrorInv ==
  ASSUME IInv, ReadError
  PROVE  IInv'
<1>1. "read" \in Kinds /\ conn.done["read"] # <<>>
  BY DEF Kinds, ReadError, Handles, Queued
<1> QED BY <1>1, TakenInv, SignalInv, ReapInv DEF ReadError, Next1, IInv

LEMMA WrittenInv ==
  ASSUME IInv, NEW k \in {"write", "shutdown"}, Handles(k), ~conn.shutdown_sent
  PROVE  Written(Taken(k)) \in Connections /\ Inv(Written(Taken(k)))
<1> DEFINE u == Taken(k)
           h == [u EXCEPT !.transmitting = FALSE, !.frame = "sent"]
<1>1. /\ "write" \in Kinds /\ "shutdown" \in Kinds /\ "sent" \in Frames
      /\ k \in Kinds /\ conn.done[k] # <<>>
  BY DEF Kinds, Frames, Handles, Queued
<1>2. k = "write"
  <2>1. InUse("shutdown", conn) = 0
    BY AllUseNat DEF IInv, Inv, ShutdownWasSent
  <2> QED BY <1>1, <2>1, InUseFacts DEF IInv
<1>3. u \in Connections /\ Inv(u) /\ SameControl(conn, u) /\ u.pending = conn.pending
      /\ InUse("write", u) = InUse("write", conn) - 1
  BY <1>1, <1>2, TakenInv, TakenFacts DEF IInv
<1>4. InUse("write", conn) = 1 /\ "write" \notin conn.pending
  BY <1>1, <1>2, InUseFacts DEF IInv, Inv, OneWriter
<1>5. Shutdown(u) \in Connections /\ Inv(Shutdown(u))
  BY <1>3, <1>4, ShutdownInv
<1>6. h \in Connections /\ Inv(h)
  <2>1. /\ h \in Connections /\ h.started = u.started /\ h.frame = "sent"
        /\ h.ups = u.ups /\ h.transmitting = FALSE
        /\ h.shutdown_sent = u.shutdown_sent /\ h.overlap = u.overlap
        /\ h.pending = u.pending /\ h.done = u.done
        /\ h.forced = u.forced /\ h.cut = u.cut
    BY <1>1, <1>3 DEF Connections
  <2>2. InUse("write", u) = 0
    BY <1>3, <1>4
  <2>4. \A j \in Kinds : InUse(j, h) = InUse(j, u)
    <3> HIDE DEF h, u
    <3> QED BY <2>1 DEF InUse
  <2>5. /\ InUse("handshake", h) = InUse("handshake", u)
        /\ InUse("read", h) = InUse("read", u)
        /\ InUse("write", h) = 0
        /\ InUse("shutdown", h) = InUse("shutdown", u)
    <3> HIDE DEF h, u
    <3> QED BY <2>2, <2>4 DEF Kinds
  <2>3. Inv(h)
    <3> HIDE DEF h, u
    <3> QED BY <1>3, <2>1, <2>5
            DEF Inv, Unstarted, OneHandshake, OneReader, OneWriter,
                ShutdownWasSent, Disjoint, Graceful
  <2> QED BY <2>1, <2>3
<1>7. Written(u) \in {Shutdown(u), h}
  BY DEF Written, WriteHandler
<1> QED BY <1>5, <1>6, <1>7

LEMMA WriteCallbackInv ==
  ASSUME IInv, NEW k \in Kinds, WriteCallback(k)
  PROVE  IInv'
<1>1. conn.done[k] # <<>> /\ k \in {"write", "shutdown"} /\ Handles(k)
  BY DEF WriteCallback, Handles, Queued
<1>2. Taken(k) \in Connections /\ Inv(Taken(k))
  BY <1>1, TakenInv
<1>3. CASE conn.shutdown_sent /\ Next1(Disconnected(Taken(k)))
  BY <1>2, <1>3, DisconnectedInv, ReapInv DEF Next1, IInv
<1>4. CASE Next1(SignalErrorOrDisconnect(Result(k), Taken(k)))
  BY <1>2, <1>4, SignalInv, ReapInv DEF Next1, IInv
<1>5. CASE ~conn.shutdown_sent /\ Next1(Written(Taken(k)))
  BY <1>1, <1>5, WrittenInv, ReapInv DEF Next1, IInv
<1> QED BY <1>3, <1>4, <1>5 DEF WriteCallback

LEMMA ReturnsInv ==
  ASSUME IInv, Returns
  PROVE  IInv'
<1> DEFINE n == [conn EXCEPT !.frame = "none"]
           e == [EnableReception(conn) EXCEPT !.frame = "none"]
<1>1. "none" \in Frames /\ conn \in Connections /\ Inv(conn)
  BY DEF Frames, IInv
<1>2. n \in Connections /\ Inv(n)
  BY <1>1, FrameInv
<1>3. conn.frame \in {"connected", "received"} => e \in Connections /\ Inv(e)
  BY <1>1, EnableReceptionInv
<1>4. Next1(n) \/ (conn.frame \in {"connected", "received"} /\ Next1(e))
  BY DEF Returns, ConnectedReturns, ReceivedReturns, SentReturns, ReadAgain
<1> QED BY <1>2, <1>3, <1>4, ReapInv DEF Next1, IInv

-----------------------------------------------------------------------------
LEMMA InitInv == Init => IInv
<1> SUFFICES ASSUME Init PROVE IInv
  OBVIOUS
<1>1. PICK a \in Adaptors : conn = NewConnection(a)
  BY DEF Init
<1>2. [k \in Kinds |-> <<>>] \in [Kinds -> Seq(Results)] /\ (Owner = "server") \in BOOLEAN
  OBVIOUS
<1>3. conn \in Connections
  BY <1>1, <1>2 DEF NewConnection, Connections, Frames
<1>4. /\ conn.started = FALSE /\ conn.frame = "none" /\ conn.ups = 0
      /\ conn.cut = FALSE /\ conn.overlap = {} /\ conn.pending = {}
      /\ conn.done = [k \in Kinds |-> <<>>]
  BY <1>1 DEF NewConnection
<1>5. \A k \in Kinds : InUse(k, conn) = 0
  BY <1>4 DEF InUse
<1>6. /\ InUse("handshake", conn) = 0 /\ InUse("read", conn) = 0
      /\ InUse("write", conn) = 0 /\ InUse("shutdown", conn) = 0
  BY <1>5 DEF Kinds
<1>7. Inv(conn)
  BY <1>4, <1>6 DEF Inv, Unstarted, OneHandshake, OneReader, OneWriter,
                    ShutdownWasSent, Disjoint, Graceful
<1> QED BY <1>3, <1>7 DEF Init, IInv

LEMMA NextInv == IInv /\ [Next]_vars => IInv'
<1> SUFFICES ASSUME IInv, [Next]_vars PROVE IInv'
  OBVIOUS
<1>1. CASE Start
  BY <1>1, StartInv
<1>2. CASE Application
  BY <1>2, CallSendInv, CallDisconnectInv, CallShutdownInv, CallCloseInv, ReleaseInv
     DEF Application
<1>3. CASE Handlers
  BY <1>3, IgnoredInv, WriteCallbackInv, HandshakeCallbackInv, ReadDataInv, ReadErrorInv
     DEF Handlers
<1>4. CASE Returns
  BY <1>4, ReturnsInv
<1>5. CASE \E k \in Kinds, r \in NetworkResults : Complete(k, r)
  BY <1>5, CompleteInv
<1>6. CASE UNCHANGED vars
  BY <1>6 DEF vars, IInv, Inv, Unstarted, OneHandshake, OneReader, OneWriter,
              ShutdownWasSent, Disjoint, Graceful, InUse
<1> QED BY <1>1, <1>2, <1>3, <1>4, <1>5, <1>6 DEF Next

LEMMA Invariance == Spec => []IInv
BY InitInv, NextInv, PTL DEF Spec

(* Every field keeps its type, and a server's connection is CONNECTED at   *)
(* most once (start and handshake_callback).                               *)
THEOREM TypeCorrect == Spec => []TypeOK
<1>1. IInv => TypeOK
  BY AllUseNat DEF IInv, TypeOK, Inv, OneHandshake
<1> QED BY <1>1, Invariance, PTL

(* Two reads, or two writes, are never in progress at once on one socket.  *)
THEOREM OneOperationAtATime == Spec => []NoOverlap
<1>1. IInv => NoOverlap
  BY DEF IInv, NoOverlap, Inv, Disjoint
<1> QED BY <1>1, Invariance, PTL

(* disconnect() never shuts the socket down under a write in progress.     *)
THEOREM DisconnectIsGraceful == Spec => []CutOnlyIfForced
<1>1. IInv => CutOnlyIfForced
  BY DEF IInv, CutOnlyIfForced, Inv, Graceful
<1> QED BY <1>1, Invariance, PTL

-----------------------------------------------------------------------------
(* A server's connection does not lose its reader or its writer, and is     *)
(* never stuck in silence.  What is claimed is claimed of an open socket    *)
(* only, and nothing in Connection opens a socket again: a step that closes  *)
(* it, or that leaves a connection nobody holds, which closes it, needs no   *)
(* more argument.                                                          *)

Busy(k, s) == k \in s.pending \/ s.done[k] # <<>>

NoneAborted(s) ==
  ~s.shutdown_sent => \A k \in Kinds : \A i \in DOMAIN s.done[k] : s.done[k][i] # "aborted"

Reading(s) ==
  (s.connected /\ ~s.shutdown_sent /\ s.errs = 0)
    => Busy("read", s) \/ s.frame \in {"connected", "received"}

Writing(s) ==
  (s.transmitting /\ ~s.shutdown_sent /\ s.errs = 0) => Busy("write", s)

Opening(s) ==
  (s.started /\ ~s.shutdown_sent /\ s.errs = 0) => s.connected \/ Busy("handshake", s)

(* The completion of an SSL shutdown that is not cancelled is still to be  *)
(* handled: it signals DISCONNECTED.                                       *)
Stopping(s) ==
  (s.shutdown_sent /\ s.held)
    => \/ "shutdown" \in s.pending
       \/ \E i \in DOMAIN s.done["shutdown"] : s.done["shutdown"][i] # "aborted"

(* The inductive invariant, before and after Reap.  A client's socket is   *)
(* opened by Reopen (module HttpClient), which is no step of Connection.   *)
Lively(s) ==
  s.open => /\ Owner = "server"
            /\ NoneAborted(s) /\ Reading(s) /\ Writing(s) /\ Opening(s) /\ Stopping(s)

Held(s) == s.open => Alive(s)

PInv == conn \in Connections /\ Lively(conn) /\ Held(conn)

-----------------------------------------------------------------------------
(* The functions of the class.                                             *)

LEMMA LivelyReap ==
  ASSUME NEW s \in Connections, Lively(s)
  PROVE  Reap(s) \in Connections /\ Lively(Reap(s)) /\ Held(Reap(s))
<1>1. CASE Alive(s)
  BY <1>1, ReapFacts DEF Reap, Held
<1>2. CASE ~Alive(s)
  BY <1>2, CloseFacts DEF Reap, Held, Lively
<1> QED BY <1>1, <1>2

(* Nothing but the server's own connections is ever open here.             *)
OnlyServers(s) == s.open => Owner = "server"

LEMMA DisconnectedLeaves ==
  ASSUME NEW s \in Connections, OnlyServers(s)
  PROVE  LET t == Disconnected(s)
         IN  t.open => /\ s.open /\ ~t.held /\ t.frame = s.frame
                       /\ t.shutdown_sent = s.shutdown_sent
<1> DEFINE u == [s EXCEPT !.downs = @ + 1]
           v == [u EXCEPT !.held = FALSE]
           w == [u EXCEPT !.connected = FALSE]
<1>1. u \in Connections /\ w \in Connections /\ u.open = s.open
  <2>1. s.downs + 1 \in Nat
    BY DEF Connections
  <2>2. u \in Connections
    BY <2>1 DEF Connections
  <2>3. u.open = s.open
    BY DEF Connections
  <2> QED BY <2>2, <2>3 DEF Connections
<1>2. CASE Owner = "server"
  <2>1. Disconnected(s) = v
    BY <1>2 DEF Disconnected, OwnerDisconnected
  <2>2. /\ v.open = s.open /\ v.held = FALSE /\ v.frame = s.frame
        /\ v.shutdown_sent = s.shutdown_sent
    BY DEF Connections
  <2> QED BY <2>1, <2>2
<1>3. CASE Owner # "server"
  <2>1. ~u.open
    BY <1>1, <1>3 DEF OnlyServers
  <2>2. Disconnected(s) \in {u, Close(w)}
    BY <1>3 DEF Disconnected, OwnerDisconnected
  <2> QED BY <1>1, <2>1, <2>2, CloseFacts
<1> QED BY <1>2, <1>3

(* DISCONNECTED outside the application's events destroys the connection.  *)
LEMMA DisconnectedGone ==
  ASSUME NEW s \in Connections, OnlyServers(s), s.frame = "none"
  PROVE  ~Reap(Disconnected(s)).open
<1> DEFINE t == Disconnected(s)
<1>1. t \in Connections /\ (t.open => ~Alive(t))
  BY DisconnectedFacts, DisconnectedLeaves DEF Alive
<1> QED BY <1>1, CloseFacts DEF Reap

LEMMA LivelyShutdown ==
  ASSUME NEW s \in Connections, OnlyServers(s)
  PROVE  Shutdown(s) \in Connections /\ Lively(Shutdown(s))
<1> DEFINE u == [s EXCEPT !.shutdown_sent = TRUE,
                          !.cut = @ \/ "write" \in s.pending]
           c == CancelOps(u)
           p == StartOp("shutdown", c)
           t == Shutdown(s)
<1>1. u \in Connections /\ u.open = s.open /\ u.shutdown_sent
  BY DEF Connections
<1>2. t \in Connections /\ t.shutdown_sent
  BY ShutdownFacts
<1>3. t.open => Owner = "server" /\ Stopping(t)
  <2>1. CASE IsSsl(s)
    <3>1. t = p
      BY <2>1 DEF Shutdown, IsSsl
    <3>2. c \in Connections /\ c.open = u.open
      BY <1>1, CancelOpsFacts
    <3>3. p.open = c.open /\ (c.open => "shutdown" \in p.pending)
      BY <3>2 DEF StartOp, Connections
    <3> QED BY <1>1, <3>1, <3>2, <3>3 DEF OnlyServers, Stopping
  <2>2. CASE ~IsSsl(s)
    <3>1. t = Disconnected(u)
      BY <2>2 DEF Shutdown, IsSsl
    <3>2. t.open => u.open /\ ~t.held
      BY <1>1, <3>1, DisconnectedLeaves DEF OnlyServers
    <3> QED BY <1>1, <3>2 DEF OnlyServers, Stopping
  <2> QED BY <2>1, <2>2
<1>4. Lively(t)
  <2> HIDE DEF t
  <2> QED BY <1>2, <1>3 DEF Lively, NoneAborted, Reading, Writing, Opening
<1> QED BY <1>2, <1>4

LEMMA LivelyForced ==
  ASSUME NEW s \in Connections, OnlyServers(s)
  PROVE  ForcedShutdown(s) \in Connections /\ Lively(ForcedShutdown(s))
<1> DEFINE u == [s EXCEPT !.forced = TRUE]
<1>1. u \in Connections /\ u.open = s.open
  BY DEF Connections
<1> QED BY <1>1, LivelyShutdown DEF ForcedShutdown, OnlyServers

(* A change of none of the fields that the invariant speaks of, or of held *)
(* and of errs in the direction that asks for less.                        *)
LEMMA LivelySame ==
  ASSUME NEW s \in Connections, NEW t \in Connections, Lively(s),
         t.open => s.open,
         t.pending = s.pending, t.done = s.done, t.frame = s.frame,
         t.shutdown_sent = s.shutdown_sent, t.connected = s.connected,
         t.transmitting = s.transmitting, t.started = s.started,
         t.errs = 0 => s.errs = 0, t.held => s.held
  PROVE  Lively(t)
BY DEF Lively, NoneAborted, Reading, Writing, Opening, Stopping, Busy

(* An error that is reported or that ends the connection.                  *)
LEMMA LivelySignal ==
  ASSUME NEW s \in Connections, NEW e, OnlyServers(s), s.frame = "none",
         s.open => NoneAborted(s) /\ Stopping(s)
  PROVE  LET t == Reap(SignalErrorOrDisconnect(e, s))
         IN  t \in Connections /\ Lively(t) /\ Held(t)
<1> DEFINE u == [s EXCEPT !.errs = @ + 1]
<1>1. CASE SignalErrorOrDisconnect(e, s) = ForcedShutdown(s)
  BY <1>1, LivelyForced, LivelyReap
<1>2. CASE SignalErrorOrDisconnect(e, s) = Disconnected(s)
  BY <1>2, DisconnectedGone, DisconnectedFacts, ReapFacts DEF Lively, Held
<1>3. CASE SignalErrorOrDisconnect(e, s) = u
  <2>1. /\ u \in Connections /\ u.open = s.open /\ u.errs = s.errs + 1 /\ s.errs \in Nat
        /\ u.pending = s.pending /\ u.done = s.done /\ u.held = s.held
        /\ u.shutdown_sent = s.shutdown_sent
    BY DEF Connections
  <2>2. u.errs # 0
    BY <2>1
  <2>3. Lively(u)
    <3> HIDE DEF u
    <3> QED BY <2>1, <2>2 DEF OnlyServers, Lively, NoneAborted, Reading, Writing,
                              Opening, Stopping
  <2> QED BY <1>3, <2>1, <2>3, LivelyReap
<1> QED BY <1>1, <1>2, <1>3 DEF SignalErrorOrDisconnect

-----------------------------------------------------------------------------
(* The calls of the owner and of the application.                          *)

LEMMA StartOpFields ==
  ASSUME NEW s \in Connections, NEW k \in Kinds, s.open
  PROVE  LET t == StartOp(k, s)
         IN  /\ t \in Connections
             /\ t.pending = s.pending \cup {k}
             /\ t = [s EXCEPT !.pending = t.pending, !.overlap = t.overlap]
<1> DEFINE t == StartOp(k, s)
<1>1. t \in Connections
  BY StartOpFacts
<1>2. t = [s EXCEPT !.pending = @ \cup {k}, !.overlap = @ \cup (s.pending \cap {k})]
  BY DEF StartOp
<1> QED BY <1>1, <1>2 DEF Connections

LEMMA StartOpClosed ==
  ASSUME NEW s \in Connections, NEW k \in Kinds, ~s.open
  PROVE  StartOp(k, s) \in Connections /\ ~StartOp(k, s).open
<1>1. StartOp(k, s) \in Connections
  BY StartOpFacts
<1>2. StartOp(k, s) = [s EXCEPT !.done[k] = Append(@, "disc")]
  BY DEF StartOp
<1> QED BY <1>1, <1>2 DEF Connections

(* Starting an operation loses none; what asks for it is asked of others.  *)
LEMMA LivelyStartOp ==
  ASSUME NEW s \in Connections, NEW k \in Kinds,
         s.open => /\ Owner = "server" /\ NoneAborted(s) /\ Stopping(s)
                   /\ k # "read" => Reading(s)
                   /\ k # "write" => Writing(s)
                   /\ k # "handshake" => Opening(s)
  PROVE  LET t == StartOp(k, s)
         IN  /\ t \in Connections /\ Lively(t)
             /\ t.open => t.held = s.held /\ t.frame = s.frame
<1> DEFINE t == StartOp(k, s)
<1>1. CASE s.open
  <2>1. t \in Connections /\ t.pending = s.pending \cup {k}
        /\ t = [s EXCEPT !.pending = t.pending, !.overlap = t.overlap]
    BY <1>1, StartOpFields
  <2>2. /\ t.open = s.open /\ t.done = s.done /\ t.frame = s.frame /\ t.held = s.held
        /\ t.shutdown_sent = s.shutdown_sent /\ t.connected = s.connected
        /\ t.transmitting = s.transmitting /\ t.started = s.started /\ t.errs = s.errs
    BY <2>1 DEF Connections
  <2>3. Lively(t)
    <3> HIDE DEF t
    <3> QED BY <1>1, <2>1, <2>2 DEF Lively, NoneAborted, Reading, Writing, Opening,
                                    Stopping, Busy
  <2> QED BY <2>1, <2>2, <2>3
<1>2. CASE ~s.open
  BY <1>2, StartOpClosed DEF Lively
<1> QED BY <1>1, <1>2

(* Before its event a connection that comes up needs no reader: the event  *)
(* starts it.                                                              *)
LEMMA LivelyHandshakeOk ==
  ASSUME NEW s \in Connections,
         s.open => /\ Owner = "server" /\ NoneAborted(s) /\ Writing(s) /\ Stopping(s)
  PROVE  LET t == HandshakeOk(s)
         IN  t \in Connections /\ Lively(t) /\ Held(t)
<1> DEFINE t == [s EXCEPT !.connected = TRUE, !.ups = @ + 1, !.frame = "connected"]
<1>1. "connected" \in Frames /\ s.ups + 1 \in Nat
  BY DEF Frames, Connections
<1>2. t \in Connections
  BY <1>1 DEF Connections
<1>3. /\ t.connected /\ t.frame = "connected" /\ t.open = s.open
      /\ t.pending = s.pending /\ t.done = s.done /\ t.held = s.held
      /\ t.shutdown_sent = s.shutdown_sent /\ t.transmitting = s.transmitting
      /\ t.errs = s.errs
  BY DEF Connections
<1>4. Lively(t) /\ Held(t)
  <2> HIDE DEF t
  <2> QED BY <1>3 DEF Lively, Held, Alive, NoneAborted, Reading, Writing, Opening,
                      Stopping, Busy
<1> QED BY <1>2, <1>4 DEF HandshakeOk

LEMMA StartKeeps ==
  ASSUME PInv, Start
  PROVE  PInv'
<1> DEFINE u == [conn EXCEPT !.started = TRUE]
<1>1. /\ u \in Connections /\ u.open = conn.open /\ u.held
      /\ u.pending = conn.pending /\ u.done = conn.done /\ u.frame = conn.frame
      /\ u.shutdown_sent = conn.shutdown_sent /\ u.connected = conn.connected
      /\ u.transmitting = conn.transmitting /\ u.errs = conn.errs
      /\ u.held = conn.held
  BY DEF PInv, Connections, Start
<1>2. u.open => Owner = "server" /\ NoneAborted(u) /\ Reading(u) /\ Writing(u) /\ Stopping(u)
  <2> HIDE DEF u
  <2> QED BY <1>1 DEF PInv, Lively, NoneAborted, Reading, Writing, Stopping, Busy
<1> DEFINE h == StartOp("handshake", u)
<1>3. h \in Connections /\ Lively(h) /\ (h.open => h.held)
  BY <1>1, <1>2, LivelyStartOp DEF Kinds
<1>4. conn' \in {h, HandshakeOk(u)}
  BY DEF Start, Handshake
<1> HIDE DEF u
<1> QED BY <1>1, <1>2, <1>3, <1>4, LivelyHandshakeOk DEF PInv, Held, Alive

LEMMA CallSendKeeps ==
  ASSUME PInv, CallSend
  PROVE  PInv'
<1> DEFINE s == [conn EXCEPT !.transmitting = TRUE]
           t == StartOp("write", s)
<1>1. /\ s \in Connections /\ s.open = conn.open /\ s.held = conn.held
      /\ s.pending = conn.pending /\ s.done = conn.done /\ s.frame = conn.frame
      /\ s.shutdown_sent = conn.shutdown_sent /\ s.connected = conn.connected
      /\ s.started = conn.started /\ s.errs = conn.errs
  BY DEF PInv, Connections
<1>2. s.open => /\ Owner = "server" /\ NoneAborted(s) /\ Reading(s) /\ Opening(s)
                /\ Stopping(s)
  <2> HIDE DEF s
  <2> QED BY <1>1 DEF PInv, Lively, NoneAborted, Reading, Opening, Stopping, Busy
<1>3. /\ t \in Connections /\ Lively(t)
      /\ t.open => t.held = s.held /\ t.frame = s.frame
  BY <1>1, <1>2, LivelyStartOp DEF Kinds
<1>4. conn' = t /\ Alive(conn)
  BY DEF CallSend, Call, SendData, WriteData, MayCall
<1> QED BY <1>1, <1>3, <1>4 DEF PInv, Held, Alive

LEMMA CallDisconnectKeeps ==
  ASSUME PInv, CallDisconnect
  PROVE  PInv'
<1> DEFINE u == [conn EXCEPT !.disconnect_pending = TRUE]
<1>1. conn \in Connections /\ Lively(conn) /\ OnlyServers(conn)
  BY DEF PInv, Lively, OnlyServers
<1>2. /\ u \in Connections /\ u.open = conn.open /\ u.held = conn.held
      /\ u.pending = conn.pending /\ u.done = conn.done /\ u.frame = conn.frame
      /\ u.shutdown_sent = conn.shutdown_sent /\ u.connected = conn.connected
      /\ u.transmitting = conn.transmitting /\ u.started = conn.started
      /\ u.errs = conn.errs
  BY <1>1 DEF Connections
<1>3. Lively(u)
  <2> HIDE DEF u
  <2> QED BY <1>1, <1>2, LivelySame
<1>4. conn' = Reap(u) \/ conn' = Reap(Shutdown(conn))
  BY DEF CallDisconnect, Call, Disconnect
<1> QED BY <1>1, <1>2, <1>3, <1>4, LivelyShutdown, LivelyReap DEF PInv

LEMMA CallShutdownKeeps ==
  ASSUME PInv, CallShutdown
  PROVE  PInv'
<1>1. conn \in Connections /\ OnlyServers(conn)
  BY DEF PInv, Lively, OnlyServers
<1> QED BY <1>1, LivelyForced, LivelyReap DEF CallShutdown, Call, PInv

LEMMA CallCloseKeeps ==
  ASSUME PInv, CallClose
  PROVE  PInv'
BY CloseFacts DEF CallClose, Call, PInv, Lively, Held

LEMMA ReleaseKeeps ==
  ASSUME PInv, Release
  PROVE  PInv'
<1> DEFINE u == [conn EXCEPT !.held = FALSE]
<1>1. /\ u \in Connections /\ u.open = conn.open /\ u.held = FALSE
      /\ u.pending = conn.pending /\ u.done = conn.done /\ u.frame = conn.frame
      /\ u.shutdown_sent = conn.shutdown_sent /\ u.connected = conn.connected
      /\ u.transmitting = conn.transmitting /\ u.started = conn.started
      /\ u.errs = conn.errs
  BY DEF PInv, Connections
<1>2. Lively(u)
  <2> HIDE DEF u
  <2> QED BY <1>1, LivelySame DEF PInv
<1> QED BY <1>1, <1>2, LivelyReap DEF Release, PInv

-----------------------------------------------------------------------------
(* The network: a completion is none that close() or cancel() has made.    *)

LEMMA CompleteKeeps ==
  ASSUME PInv, NEW k \in Kinds, NEW r \in NetworkResults, Complete(k, r)
  PROVE  PInv'
<1> DEFINE d == [conn.done EXCEPT ![k] = Append(@, r)]
           u == [conn EXCEPT !.pending = @ \ {k}, !.done = d]
<1>1. conn.done \in [Kinds -> Seq(Results)] /\ conn.pending \in SUBSET Kinds
  BY FieldTypes DEF PInv
<1>2. r \in Results /\ r # "aborted"
  BY DEF NetworkResults, Results, Errors
<1>3. /\ d \in [Kinds -> Seq(Results)]
      /\ \A j \in Kinds \ {k} : d[j] = conn.done[j]
      /\ d[k] = Append(conn.done[k], r)
  BY <1>1, <1>2
<1>4. /\ d[k] # <<>> /\ DOMAIN d[k] = 1 .. Len(conn.done[k]) + 1
      /\ Len(conn.done[k]) \in Nat /\ DOMAIN conn.done[k] = 1 .. Len(conn.done[k])
      /\ d[k][Len(conn.done[k]) + 1] = r
      /\ \A i \in DOMAIN conn.done[k] : d[k][i] = conn.done[k][i]
  BY <1>1, <1>2, <1>3
<1> HIDE DEF d
<1>5. /\ u \in Connections /\ u.pending = conn.pending \ {k} /\ u.done = d
      /\ u.open = conn.open /\ u.held = conn.held /\ u.frame = conn.frame
      /\ u.shutdown_sent = conn.shutdown_sent /\ u.connected = conn.connected
      /\ u.transmitting = conn.transmitting /\ u.started = conn.started
      /\ u.errs = conn.errs
  BY <1>1, <1>3 DEF PInv, Connections
<1>6. conn' = u
  BY DEF Complete, d
<1> HIDE DEF u
<1>7. \A j \in Kinds : Busy(j, conn) => Busy(j, u)
  BY <1>3, <1>4, <1>5 DEF Busy
<1>8. NoneAborted(conn) => NoneAborted(u)
  <2>1. ASSUME NoneAborted(conn), ~u.shutdown_sent, NEW j \in Kinds, NEW i \in DOMAIN u.done[j]
        PROVE  u.done[j][i] # "aborted"
    <3>1. \A l \in DOMAIN conn.done[j] : conn.done[j][l] # "aborted"
      BY <1>5, <2>1 DEF NoneAborted
    <3>2. CASE j = k
      <4>1. i \in DOMAIN conn.done[k] \/ i = Len(conn.done[k]) + 1
        BY <1>4, <1>5, <2>1, <3>2
      <4> QED BY <1>2, <1>4, <1>5, <3>1, <3>2, <4>1
    <3>3. CASE j # k
      BY <1>3, <1>5, <2>1, <3>1, <3>3
    <3> QED BY <3>2, <3>3
  <2> QED BY <2>1 DEF NoneAborted
<1>9. Stopping(conn) => Stopping(u)
  <2>1. CASE k = "shutdown"
    <3>1. /\ Len(conn.done[k]) + 1 \in DOMAIN u.done["shutdown"]
          /\ u.done["shutdown"][Len(conn.done[k]) + 1] # "aborted"
      BY <1>2, <1>4, <1>5, <2>1
    <3> QED BY <3>1 DEF Stopping
  <2>2. CASE k # "shutdown"
    BY <1>3, <1>5, <2>2 DEF Stopping, Kinds
  <2> QED BY <2>1, <2>2
<1>10. /\ Reading(conn) => Reading(u)
       /\ Writing(conn) => Writing(u)
       /\ Opening(conn) => Opening(u)
  BY <1>5, <1>7 DEF Reading, Writing, Opening, Kinds
<1> QED BY <1>5, <1>6, <1>8, <1>9, <1>10 DEF PInv, Lively, Held, Alive

-----------------------------------------------------------------------------
(* The handlers.  What they take is the first completion of its kind; the  *)
(* others stay.                                                            *)

LEMMA TakenLeaves ==
  ASSUME PInv, NEW k \in Kinds, Queued(k)
  PROVE  LET u == Taken(k)
         IN  /\ u \in Connections
             /\ u.open = conn.open /\ u.held = conn.held /\ u.frame = "none"
             /\ u.shutdown_sent = conn.shutdown_sent /\ u.connected = conn.connected
             /\ u.transmitting = conn.transmitting /\ u.started = conn.started
             /\ u.errs = conn.errs /\ u.disconnect_pending = conn.disconnect_pending
             /\ \A j \in Kinds \ {k} : Busy(j, u) = Busy(j, conn)
             /\ NoneAborted(conn) => NoneAborted(u)
             /\ (k # "shutdown" \/ Result(k) = "aborted") /\ Stopping(conn) => Stopping(u)
<1> DEFINE u == Taken(k)
           d == [conn.done EXCEPT ![k] = Tail(@)]
           q == conn.done[k]
<1>1. conn \in Connections /\ q # <<>> /\ conn.frame = "none"
  BY DEF PInv, Queued
<1>2. conn.done \in [Kinds -> Seq(Results)] /\ conn.pending \in SUBSET Kinds
  BY <1>1, FieldTypes
<1>3. /\ Len(q) \in Nat /\ Len(q) > 0 /\ DOMAIN q = 1 .. Len(q)
      /\ Tail(q) \in Seq(Results) /\ DOMAIN Tail(q) = 1 .. Len(q) - 1
      /\ \A i \in 1 .. Len(q) - 1 : Tail(q)[i] = q[i + 1]
      /\ Head(q) = q[1]
  <2>1. q \in Seq(Results)
    BY <1>2
  <2> HIDE DEF q
  <2> QED BY <1>1, <2>1, HeadTailProperties, EmptySeq, LenProperties
<1>4. /\ d \in [Kinds -> Seq(Results)] /\ d[k] = Tail(q)
      /\ \A j \in Kinds \ {k} : d[j] = conn.done[j]
  BY <1>2, <1>3
<1>5. /\ u \in Connections /\ u.done = d /\ u.pending = conn.pending
      /\ u.open = conn.open /\ u.held = conn.held /\ u.frame = "none"
      /\ u.shutdown_sent = conn.shutdown_sent /\ u.connected = conn.connected
      /\ u.transmitting = conn.transmitting /\ u.started = conn.started
      /\ u.errs = conn.errs /\ u.disconnect_pending = conn.disconnect_pending
  <2> HIDE DEF q
  <2>1. u = [conn EXCEPT !.done = d]
    BY DEF Taken
  <2> HIDE DEF d
  <2> QED BY <1>1, <1>4, <2>1 DEF Connections
<1> HIDE DEF u, d
<1>6. \A j \in Kinds \ {k} : Busy(j, u) = Busy(j, conn)
  BY <1>4, <1>5 DEF Busy
<1>7. \A i \in DOMAIN d[k] : i + 1 \in DOMAIN q /\ d[k][i] = q[i + 1]
  BY <1>3, <1>4
<1>8. NoneAborted(conn) => NoneAborted(u)
  <2>1. ASSUME NoneAborted(conn), ~u.shutdown_sent, NEW j \in Kinds, NEW i \in DOMAIN u.done[j]
        PROVE  u.done[j][i] # "aborted"
    <3>1. \A l \in DOMAIN conn.done[j] : conn.done[j][l] # "aborted"
      BY <1>5, <2>1 DEF NoneAborted
    <3>2. CASE j = k
      BY <1>5, <1>7, <2>1, <3>1, <3>2
    <3>3. CASE j # k
      BY <1>4, <1>5, <2>1, <3>1, <3>3
    <3> QED BY <3>2, <3>3
  <2> QED BY <2>1 DEF NoneAborted
<1>9. (k # "shutdown" \/ Result(k) = "aborted") /\ Stopping(conn) => Stopping(u)
  <2> SUFFICES ASSUME k # "shutdown" \/ Result(k) = "aborted", Stopping(conn)
               PROVE  Stopping(u)
    OBVIOUS
  <2>1. CASE k # "shutdown"
    BY <1>4, <1>5, <2>1 DEF Stopping, Kinds
  <2>2. CASE k = "shutdown" /\ q[1] = "aborted"
    <3>1. ASSUME NEW i \in DOMAIN q, q[i] # "aborted"
          PROVE  i - 1 \in DOMAIN d[k] /\ d[k][i - 1] = q[i]
      <4>1. i - 1 \in 1 .. Len(q) - 1 /\ (i - 1) + 1 = i
        <5> HIDE DEF q
        <5> QED BY <1>3, <2>2, <3>1
      <4>2. Tail(q)[i - 1] = q[i] /\ i - 1 \in DOMAIN Tail(q)
        <5> HIDE DEF q
        <5> QED BY <1>3, <4>1
      <4> QED BY <1>4, <4>2
    <3> QED BY <1>5, <2>2, <3>1 DEF Stopping
  <2> QED BY <1>3, <2>1, <2>2 DEF Result
<1> QED BY <1>5, <1>6, <1>8, <1>9 DEF u

(* What is ignored was aborted, or belongs to a connection that is gone.   *)
LEMMA IgnoredKeeps ==
  ASSUME PInv, NEW k \in Kinds, Ignored(k)
  PROVE  PInv'
<1> DEFINE u == Taken(k)
<1>1. Queued(k) /\ conn' = Reap(u)
  BY DEF Ignored, Next1
<1>2. /\ u \in Connections /\ u.open = conn.open
      /\ u.shutdown_sent = conn.shutdown_sent
      /\ NoneAborted(conn) => NoneAborted(u)
      /\ (k # "shutdown" \/ Result(k) = "aborted") /\ Stopping(conn) => Stopping(u)
  BY <1>1, TakenLeaves
<1>3. conn.open => Result(k) = "aborted" /\ conn.shutdown_sent
  <2>1. ASSUME conn.open PROVE conn.held
    BY <1>1, <2>1 DEF PInv, Held, Alive, Queued
  <2>2. ASSUME conn.open PROVE Result(k) = "aborted"
    BY <1>1, <2>1, <2>2 DEF Ignored, Handles
  <2>3. ASSUME conn.open, ~conn.shutdown_sent PROVE FALSE
    <3>1. 1 \in DOMAIN conn.done[k] /\ conn.done[k][1] = Result(k)
      <4>1. conn.done \in [Kinds -> Seq(Results)] /\ conn.done[k] # <<>>
        BY <1>1, FieldTypes DEF PInv, Queued
      <4>2. conn.done[k] \in Seq(Results)
        BY <4>1
      <4> QED BY <4>1, <4>2, EmptySeq, LenProperties DEF Result
    <3> QED BY <2>2, <2>3, <3>1 DEF PInv, Lively, NoneAborted
  <2> QED BY <2>2, <2>3
<1> HIDE DEF u
<1>4. Lively(u)
  BY <1>2, <1>3 DEF PInv, Lively, NoneAborted, Reading, Writing, Opening
<1> QED BY <1>1, <1>2, <1>4, LivelyReap DEF PInv

LEMMA HandshakeCallbackKeeps ==
  ASSUME PInv, HandshakeCallback
  PROVE  PInv'
<1> DEFINE u == Taken("handshake")
           f == [Close(u) EXCEPT !.errs = @ + 1]
<1>1. Queued("handshake") /\ "handshake" \in Kinds
  BY DEF HandshakeCallback, Handles, Kinds
<1>2. /\ u \in Connections /\ u.open = conn.open
      /\ u.shutdown_sent = conn.shutdown_sent /\ u.transmitting = conn.transmitting
      /\ u.errs = conn.errs
      /\ Busy("write", u) = Busy("write", conn)
      /\ NoneAborted(conn) => NoneAborted(u)
      /\ Stopping(conn) => Stopping(u)
  BY <1>1, TakenLeaves DEF Kinds
<1>3. u.open => Owner = "server" /\ NoneAborted(u) /\ Writing(u) /\ Stopping(u)
  <2> HIDE DEF u
  <2> QED BY <1>2 DEF PInv, Lively, Writing
<1>4. CASE Next1(HandshakeOk(u))
  <2>1. HandshakeOk(u) \in Connections /\ Lively(HandshakeOk(u))
    BY <1>2, <1>3, LivelyHandshakeOk
  <2> QED BY <1>4, <2>1, LivelyReap DEF Next1, PInv
<1>5. CASE Next1(ConnectionFailed(u))
  <2>1. Close(u) \in Connections /\ ~Close(u).open
    BY <1>2, CloseFacts
  <2>2. f \in Connections /\ ~f.open
    BY <2>1 DEF Connections
  <2>3. Lively(f)
    BY <2>2 DEF Lively
  <2> QED BY <1>5, <2>2, <2>3, LivelyReap DEF Next1, ConnectionFailed, PInv
<1> QED BY <1>4, <1>5 DEF HandshakeCallback

LEMMA ReadDataKeeps ==
  ASSUME PInv, ReadData
  PROVE  PInv'
<1> DEFINE u == Taken("read")
           t == [u EXCEPT !.frame = "received"]
<1>1. Queued("read") /\ "read" \in Kinds /\ "received" \in Frames
  BY DEF ReadData, Handles, Kinds, Frames
<1>2. /\ u \in Connections /\ u.open = conn.open
      /\ u.shutdown_sent = conn.shutdown_sent /\ u.transmitting = conn.transmitting
      /\ u.connected = conn.connected /\ u.started = conn.started
      /\ u.errs = conn.errs /\ u.held = conn.held
      /\ Busy("write", u) = Busy("write", conn)
      /\ Busy("handshake", u) = Busy("handshake", conn)
      /\ NoneAborted(conn) => NoneAborted(u)
      /\ Stopping(conn) => Stopping(u)
  BY <1>1, TakenLeaves DEF Kinds
<1> HIDE DEF u
<1>3. /\ t \in Connections /\ t.open = u.open /\ t.frame = "received"
      /\ t.shutdown_sent = u.shutdown_sent /\ t.transmitting = u.transmitting
      /\ t.connected = u.connected /\ t.started = u.started
      /\ t.errs = u.errs /\ t.held = u.held
      /\ t.pending = u.pending /\ t.done = u.done
  BY <1>1, <1>2 DEF Connections
<1> HIDE DEF t
<1>4. /\ NoneAborted(u) => NoneAborted(t)
      /\ Stopping(u) => Stopping(t)
      /\ Busy("write", t) = Busy("write", u)
      /\ Busy("handshake", t) = Busy("handshake", u)
  BY <1>3 DEF NoneAborted, Stopping, Busy
<1>5. Lively(t)
  BY <1>2, <1>3, <1>4 DEF PInv, Lively, Reading, Writing, Opening
<1>6. conn' = Reap(t)
  BY DEF ReadData, Next1, t, u
<1> QED BY <1>3, <1>5, <1>6, LivelyReap DEF PInv

LEMMA ReadErrorKeeps ==
  ASSUME PInv, ReadError
  PROVE  PInv'
<1> DEFINE u == Taken("read")
<1>1. Queued("read") /\ "read" \in Kinds
  BY DEF ReadError, Handles, Kinds
<1>2. /\ u \in Connections /\ u.open = conn.open /\ u.frame = "none"
      /\ NoneAborted(conn) => NoneAborted(u)
      /\ Stopping(conn) => Stopping(u)
  BY <1>1, TakenLeaves
<1>3. OnlyServers(u) /\ (u.open => NoneAborted(u) /\ Stopping(u))
  BY <1>2 DEF PInv, Lively, OnlyServers
<1>4. conn' = Reap(SignalErrorOrDisconnect(Result("read"), u))
  BY DEF ReadError, Next1
<1> QED BY <1>2, <1>3, <1>4, LivelySignal DEF PInv

(* A write that has ended leaves transmitting_ clear, or the socket shut   *)
(* down.                                                                   *)
LEMMA WrittenKeeps ==
  ASSUME PInv, NEW k \in {"write", "shutdown"}, Queued(k), ~conn.shutdown_sent
  PROVE  Written(Taken(k)) \in Connections /\ Lively(Written(Taken(k)))
<1> DEFINE u == Taken(k)
           h == [u EXCEPT !.transmitting = FALSE, !.frame = "sent"]
<1>1. k \in Kinds /\ "read" \in Kinds \ {k} /\ "handshake" \in Kinds \ {k} /\ "sent" \in Frames
      /\ conn.frame = "none"
  BY DEF Kinds, Frames, Queued
<1>2. /\ u \in Connections /\ u.open = conn.open
      /\ u.shutdown_sent = conn.shutdown_sent
      /\ u.connected = conn.connected /\ u.started = conn.started
      /\ u.errs = conn.errs
      /\ Busy("read", u) = Busy("read", conn)
      /\ Busy("handshake", u) = Busy("handshake", conn)
      /\ NoneAborted(conn) => NoneAborted(u)
  BY <1>1, TakenLeaves
<1> HIDE DEF u
<1>3. /\ h \in Connections /\ h.open = u.open /\ h.frame = "sent"
      /\ h.shutdown_sent = u.shutdown_sent /\ h.transmitting = FALSE
      /\ h.connected = u.connected /\ h.started = u.started
      /\ h.errs = u.errs
      /\ h.pending = u.pending /\ h.done = u.done
  BY <1>1, <1>2 DEF Connections
<1> HIDE DEF h
<1>4. /\ NoneAborted(u) => NoneAborted(h)
      /\ Busy("read", h) = Busy("read", u)
      /\ Busy("handshake", h) = Busy("handshake", u)
  BY <1>3 DEF NoneAborted, Busy
<1>5. Lively(h)
  BY <1>1, <1>2, <1>3, <1>4
     DEF PInv, Lively, Reading, Writing, Opening, Stopping
<1>6. Shutdown(u) \in Connections /\ Lively(Shutdown(u))
  BY <1>2, LivelyShutdown DEF PInv, Lively, OnlyServers
<1>7. Written(u) \in {Shutdown(u), h}
  BY DEF Written, WriteHandler, h
<1> QED BY <1>3, <1>5, <1>6, <1>7 DEF u

LEMMA WriteCallbackKeeps ==
  ASSUME PInv, NEW k \in Kinds, WriteCallback(k)
  PROVE  PInv'
<1> DEFINE u == Taken(k)
<1>1. Queued(k) /\ k \in {"write", "shutdown"}
  BY DEF WriteCallback, Handles
<1>2. /\ u \in Connections /\ u.open = conn.open /\ u.frame = "none"
      /\ u.shutdown_sent = conn.shutdown_sent
      /\ NoneAborted(conn) => NoneAborted(u)
  BY <1>1, TakenLeaves
<1>3. OnlyServers(u)
  BY <1>2 DEF PInv, Lively, OnlyServers
<1>4. CASE Next1(Disconnected(u))
  <2>1. ~Reap(Disconnected(u)).open /\ Reap(Disconnected(u)) \in Connections
    BY <1>2, <1>3, DisconnectedGone, DisconnectedFacts, ReapFacts
  <2> QED BY <1>4, <2>1 DEF Next1, PInv, Lively, Held
<1>5. CASE ~conn.shutdown_sent /\ Next1(SignalErrorOrDisconnect(Result(k), u))
  <2>1. u.open => NoneAborted(u) /\ Stopping(u)
    BY <1>2, <1>5 DEF PInv, Lively, Stopping
  <2> QED BY <1>2, <1>3, <1>5, <2>1, LivelySignal DEF Next1, PInv
<1>6. CASE ~conn.shutdown_sent /\ Next1(Written(u))
  BY <1>1, <1>6, WrittenKeeps, LivelyReap DEF Next1, PInv
<1> QED BY <1>4, <1>5, <1>6 DEF WriteCallback

(* The application returns: from CONNECTED and from data to a new read.    *)
LEMMA ReturnsKeeps ==
  ASSUME PInv, Returns
  PROVE  PInv'
<1> DEFINE n(s) == [s EXCEPT !.frame = "none"]
           e == EnableReception(conn)
<1>1. conn \in Connections /\ Lively(conn) /\ "none" \in Frames /\ "read" \in Kinds
  BY DEF PInv, Frames, Kinds
<1>2. ASSUME NEW s \in Connections, Lively(s), s.open => Busy("read", s) \/ s.shutdown_sent
                                                          \/ s.frame \notin {"connected", "received"}
      PROVE  n(s) \in Connections /\ Lively(n(s))
  <2>1. /\ n(s) \in Connections /\ n(s).open = s.open
        /\ n(s).shutdown_sent = s.shutdown_sent /\ n(s).transmitting = s.transmitting
        /\ n(s).connected = s.connected /\ n(s).started = s.started
        /\ n(s).errs = s.errs /\ n(s).held = s.held
        /\ n(s).pending = s.pending /\ n(s).done = s.done
    BY <1>1 DEF Connections
  <2> HIDE DEF n
  <2> QED BY <1>2, <2>1 DEF Lively, NoneAborted, Reading, Writing, Opening, Stopping, Busy
<1>3. e \in Connections /\ Lively(e) /\ (e.open => Busy("read", e))
  <2>1. CASE conn.open
    BY <1>1, <2>1, LivelyStartOp, StartOpFields DEF EnableReception, Lively, Busy
  <2>2. CASE ~conn.open
    BY <1>1, <2>2, StartOpClosed DEF EnableReception, Lively
  <2> QED BY <2>1, <2>2
<1>4. \/ conn' = Reap(n(e))
      \/ /\ conn' = Reap(n(conn))
         /\ conn.open => conn.shutdown_sent \/ conn.frame = "sent"
  BY DEF Returns, ConnectedReturns, ReceivedReturns, SentReturns, ReadAgain, Next1
<1>5. CASE conn' = Reap(n(e))
  <2>1. n(e) \in Connections /\ Lively(n(e))
    BY <1>2, <1>3
  <2> HIDE DEF n, e
  <2> QED BY <1>5, <2>1, LivelyReap DEF PInv
<1>6. CASE conn' = Reap(n(conn)) /\ (conn.open => conn.shutdown_sent \/ conn.frame = "sent")
  <2>1. n(conn) \in Connections /\ Lively(n(conn))
    BY <1>1, <1>2, <1>6
  <2> HIDE DEF n
  <2> QED BY <1>6, <2>1, LivelyReap DEF PInv
<1> QED BY <1>4, <1>5, <1>6

-----------------------------------------------------------------------------
LEMMA ProgressInit == Init => PInv
<1> SUFFICES ASSUME Init PROVE PInv
  OBVIOUS
<1>1. conn \in Connections
  BY InitInv DEF IInv
<1>2. PICK a \in Adaptors : conn = NewConnection(a)
  BY DEF Init
<1>3. /\ conn.open = (Owner = "server") /\ conn.held = TRUE
      /\ conn.connected = FALSE /\ conn.transmitting = FALSE
      /\ conn.started = FALSE /\ conn.shutdown_sent = FALSE
      /\ conn.done = [k \in Kinds |-> <<>>]
  BY <1>2 DEF NewConnection
<1>4. NoneAborted(conn)
  BY <1>3 DEF NoneAborted
<1>5. Reading(conn) /\ Writing(conn) /\ Opening(conn) /\ Stopping(conn)
  BY <1>3 DEF Reading, Writing, Opening, Stopping
<1>6. Held(conn)
  BY <1>3 DEF Held, Alive
<1> QED BY <1>1, <1>3, <1>4, <1>5, <1>6 DEF PInv, Lively

LEMMA ProgressNext == PInv /\ [Next]_vars => PInv'
<1> SUFFICES ASSUME PInv, [Next]_vars PROVE PInv'
  OBVIOUS
<1>1. CASE Start
  BY <1>1, StartKeeps
<1>2. CASE Application
  BY <1>2, CallSendKeeps, CallDisconnectKeeps, CallShutdownKeeps, CallCloseKeeps,
     ReleaseKeeps DEF Application
<1>3. CASE Handlers
  BY <1>3, IgnoredKeeps, WriteCallbackKeeps, HandshakeCallbackKeeps, ReadDataKeeps,
     ReadErrorKeeps DEF Handlers
<1>4. CASE Returns
  BY <1>4, ReturnsKeeps
<1>5. CASE \E k \in Kinds, r \in NetworkResults : Complete(k, r)
  BY <1>5, CompleteKeeps
<1>6. CASE UNCHANGED vars
  BY <1>6 DEF vars, PInv, Lively, Held, Alive, NoneAborted, Reading, Writing,
              Opening, Stopping, Busy
<1> QED BY <1>1, <1>2, <1>3, <1>4, <1>5, <1>6 DEF Next

LEMMA Progress == Spec => []PInv
BY ProgressInit, ProgressNext, PTL DEF Spec

(* An open connection is being read, or its application is in the event    *)
(* that reads again (read_callback, handshake_callback).                   *)
THEOREM ReaderIsKept == Spec => []ReaderAlive
<1>1. PInv => ReaderAlive
  BY DEF PInv, Lively, Reading, ReaderAlive, InProgress, Busy
<1> QED BY <1>1, Progress, PTL

(* transmitting_ is set only while a write is in progress or waits to be   *)
(* handled, so that no later send_data is refused for ever.                *)
THEOREM WriterIsKept == Spec => []TransmittingMeansWriting
<1>1. PInv => TransmittingMeansWriting
  BY DEF PInv, Lively, Writing, TransmittingMeansWriting, InProgress, Busy
<1> QED BY <1>1, Progress, PTL

(* A connection that its owner holds waits for a completion, or an error   *)
(* has been reported: it does not just sit in the server's collection.     *)
THEOREM NeverStuck == Spec => []NeverSilentlyStuck
<1>1. PInv => NeverSilentlyStuck
  <2> SUFFICES ASSUME PInv, conn.held, conn.started, conn.frame = "none", conn.open,
                      ~(conn.errs > 0)
               PROVE  \E k \in Kinds : InProgress(k)
    BY DEF NeverSilentlyStuck
  <2>1. conn.errs = 0
    BY DEF PInv, Connections
  <2>2. CASE conn.shutdown_sent
    <3>1. Busy("shutdown", conn)
      BY <2>2 DEF PInv, Lively, Stopping, Busy
    <3> QED BY <3>1 DEF Busy, InProgress, Kinds
  <2>3. CASE ~conn.shutdown_sent
    <3>1. Busy("read", conn) \/ Busy("handshake", conn)
      BY <2>1, <2>3 DEF PInv, Lively, Opening, Reading
    <3> QED BY <3>1 DEF Busy, InProgress, Kinds
  <2> QED BY <2>2, <2>3
<1> QED BY <1>1, Progress, PTL
=============================================================================
