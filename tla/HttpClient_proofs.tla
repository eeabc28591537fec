-------------------------- MODULE HttpClient_proofs --------------------------
(***************************************************************************)
(* Proofs about HttpClient, for every set of adaptors and any bounds on    *)
(* the calls and on the connections the network lets succeed.              *)
(*                                                                         *)
(* A completion that says operation_aborted is of no use to anybody: what  *)
(* has to be kept is an operation that is live, in progress or completed   *)
(* otherwise.  A client that wants its connection back keeps a live        *)
(* connect, handshake or SSL shutdown, or the timer; a connected socket    *)
(* keeps a live read.                                                      *)
(***************************************************************************)
EXTENDS HttpClient, Connection_proofs

Live(k, s) ==
  k \in s.pending \/ \E i \in DOMAIN s.done[k] : s.done[k][i] # "aborted"

(* A closed socket has nothing in progress, a destroyed client's socket is *)
(* closed, and a live SSL shutdown is one that shutdown() started.         *)
Sound(s) ==
  /\ s \in Connections
  /\ ~s.open => s.pending = {}
  /\ ~s.held => ~s.open
  /\ Live("shutdown", s) => s.shutdown_sent
  /\ "connect" \notin s.overlap

Reader(s) ==
  (s.connected /\ s.open /\ ~s.shutdown_sent /\ s.errs = 0)
    => Live("read", s) \/ s.frame \in {"connected", "received"}

Trying(s) == Live("connect", s) \/ Live("handshake", s) \/ Live("shutdown", s)

Persists ==
  (conn.held /\ period > 0 /\ ~conn.connected /\ conn.errs = 0 /\ ~unresolved)
    => armed \/ expired > 0 \/ Trying(conn)

ClientTypes ==
  /\ calls \in Nat /\ period \in {0, 1}
  /\ armed \in BOOLEAN /\ expired \in Nat /\ unresolved \in BOOLEAN

ClientInv == Sound(conn) /\ Reader(conn) /\ ClientTypes /\ Persists

-----------------------------------------------------------------------------
(* The functions of the class.                                             *)

(* The flags and counts that starting and cancelling operations leave.     *)
SameFlags(s, t) ==
  /\ t.held = s.held /\ t.frame = s.frame /\ t.open = s.open
  /\ t.connected = s.connected /\ t.shutdown_sent = s.shutdown_sent
  /\ t.ups = s.ups /\ t.downs = s.downs /\ t.errs = s.errs

(* Every live operation stays one, and no connect is started.              *)
KeepsLive(s, t) == \A k \in Kinds : Live(k, s) => Live(k, t)

NoConnect(s, t) == "connect" \in t.pending => "connect" \in s.pending

(* What happens in t to the life of the connection: an error is reported,  *)
(* it is down, or an SSL shutdown will bring it down.                      *)
Leaves(s, t) ==
  /\ NoConnect(s, t)
  /\ t.held = s.held /\ t.frame = s.frame /\ t.ups = s.ups /\ (t.open => s.open)
  /\ \/ t.errs = s.errs + 1 /\ t.downs = s.downs
     \/ t.errs = s.errs /\ t.downs = s.downs + 1 /\ ~t.connected
     \/ /\ t.errs = s.errs /\ t.downs = s.downs /\ t.connected = s.connected
        /\ t.shutdown_sent /\ Live("shutdown", t)

LEMMA ClientFields ==
  ASSUME NEW s \in Connections
  PROVE  /\ s.pending \in SUBSET Kinds /\ s.overlap \in SUBSET Kinds
         /\ s.done \in [Kinds -> Seq(Results)]
         /\ s.held \in BOOLEAN /\ s.connected \in BOOLEAN /\ s.open \in BOOLEAN
         /\ s.ups \in Nat /\ s.downs \in Nat /\ s.errs \in Nat
BY DEF Connections

LEMMA LiveAppend ==
  ASSUME NEW d \in Seq(Results), NEW r \in Results
  PROVE  /\ (\E i \in DOMAIN d : d[i] # "aborted")
              => \E i \in DOMAIN Append(d, r) : Append(d, r)[i] # "aborted"
         /\ r # "aborted" => \E i \in DOMAIN Append(d, r) : Append(d, r)[i] # "aborted"
         /\ r = "aborted" /\ (\E i \in DOMAIN Append(d, r) : Append(d, r)[i] # "aborted")
              => \E i \in DOMAIN d : d[i] # "aborted"
<1> DEFINE e == Append(d, r)
<1>1. /\ Len(e) = Len(d) + 1 /\ e[Len(d) + 1] = r
      /\ DOMAIN e = 1 .. Len(d) + 1 /\ DOMAIN d = 1 .. Len(d) /\ Len(d) \in Nat
      /\ \A i \in 1 .. Len(d) : e[i] = d[i]
  OBVIOUS
<1> HIDE DEF e
<1>2. (\E i \in DOMAIN d : d[i] # "aborted") => \E i \in DOMAIN e : e[i] # "aborted"
  BY <1>1
<1>3. r # "aborted" => \E i \in DOMAIN e : e[i] # "aborted"
  <2>1. Len(d) + 1 \in DOMAIN e
    BY <1>1
  <2> QED BY <1>1, <2>1
<1>4. r = "aborted" /\ (\E i \in DOMAIN e : e[i] # "aborted")
        => \E i \in DOMAIN d : d[i] # "aborted"
  <2>1. \A i \in DOMAIN e : i \in DOMAIN d \/ i = Len(d) + 1
    BY <1>1
  <2> QED BY <1>1, <2>1
<1> QED BY <1>2, <1>3, <1>4 DEF e

LEMMA ClientStartOp ==
  ASSUME NEW s, Sound(s), NEW k \in Kinds \ {"connect"},
         k = "shutdown" => s.shutdown_sent
  PROVE  LET t == StartOp(k, s)
         IN  /\ Sound(t) /\ SameFlags(s, t) /\ NoConnect(s, t)
             /\ Live(k, t) /\ KeepsLive(s, t)
             /\ \A j \in Kinds \ {k} : t.done[j] = s.done[j]
<1> DEFINE t == StartOp(k, s)
<1>0. s \in Connections /\ k \in Kinds
  BY DEF Sound
<1>1. t \in Connections
  BY <1>0, StartOpFacts
<1>2. CASE s.open
  <2>1. t = [s EXCEPT !.pending = @ \cup {k}, !.overlap = @ \cup (s.pending \cap {k})]
    BY <1>2 DEF StartOp
  <2>2. /\ t.pending = s.pending \cup {k} /\ t.done = s.done
        /\ t.overlap = s.overlap \cup (s.pending \cap {k}) /\ SameFlags(s, t)
    BY <1>0, <2>1 DEF Connections, SameFlags
  <2> HIDE DEF t
  <2>3. Live(k, t) /\ KeepsLive(s, t) /\ NoConnect(s, t)
    BY <2>2 DEF Live, KeepsLive, NoConnect
  <2>4. Live("shutdown", t) => t.shutdown_sent
    BY <2>2 DEF Live, Sound, SameFlags
  <2>5. Sound(t)
    BY <1>1, <1>2, <2>2, <2>4 DEF Sound, SameFlags
  <2> QED BY <2>2, <2>3, <2>5 DEF t
<1>3. CASE ~s.open
  <2>1. t = [s EXCEPT !.done[k] = Append(@, "disc")]
    BY <1>3 DEF StartOp
  <2>2. /\ t.pending = s.pending /\ t.overlap = s.overlap /\ SameFlags(s, t)
        /\ t.done = [s.done EXCEPT ![k] = Append(@, "disc")]
    BY <1>0, <2>1 DEF Connections, SameFlags
  <2>3. /\ t.done[k] = Append(s.done[k], "disc") /\ s.done[k] \in Seq(Results)
        /\ \A j \in Kinds \ {k} : t.done[j] = s.done[j]
    BY <1>0, <2>2, ClientFields
  <2> HIDE DEF t
  <2>4. "disc" \in Results /\ "disc" # "aborted"
    BY DEF Results, Errors
  <2>5. Live(k, t) /\ (Live(k, s) => Live(k, t))
    BY <2>2, <2>3, <2>4, LiveAppend DEF Live
  <2>6. KeepsLive(s, t) /\ NoConnect(s, t)
    BY <2>2, <2>3, <2>5 DEF Live, KeepsLive, NoConnect
  <2>7. Live("shutdown", t) => t.shutdown_sent
    <3>1. CASE k = "shutdown"
      BY <2>2, <3>1 DEF SameFlags
    <3>2. CASE k # "shutdown"
      BY <2>2, <2>3, <3>2 DEF Live, Sound, SameFlags, Kinds
    <3> QED BY <3>1, <3>2
  <2>8. Sound(t)
    BY <1>1, <2>2, <2>7 DEF Sound, SameFlags
  <2> QED BY <2>2, <2>3, <2>5, <2>6, <2>8 DEF t
<1> QED BY <1>2, <1>3

LEMMA ClientCancelOps ==
  ASSUME NEW s, s \in Connections
  PROVE  LET t == CancelOps(s)
         IN  /\ t \in Connections /\ SameFlags(s, t) /\ t.pending = {}
             /\ t.overlap = s.overlap
             /\ \A k \in Kinds : Live(k, t) => Live(k, s)
<1> DEFINE t == CancelOps(s)
           d == [k \in Kinds |-> IF k \in s.pending
                                 THEN Append(s.done[k], "aborted") ELSE s.done[k]]
<1>1. /\ t \in Connections /\ t.pending = {} /\ t.overlap = s.overlap
      /\ t.open = s.open /\ t.frame = s.frame /\ t.ups = s.ups
      /\ t.shutdown_sent = s.shutdown_sent
  BY CancelOpsFacts DEF SameControl
<1>2. t = [s EXCEPT !.pending = {}, !.done = d]
  BY DEF CancelOps
<1>3. SameFlags(s, t) /\ t.done = d
  BY <1>2 DEF Connections, SameFlags
<1> HIDE DEF t
<1>4. ASSUME NEW k \in Kinds, Live(k, t) PROVE Live(k, s)
  <2>1. CASE k \in s.pending
    BY <2>1 DEF Live
  <2>2. CASE k \notin s.pending
    <3>1. t.done[k] = s.done[k]
      BY <1>3, <2>2
    <3> QED BY <1>1, <1>4, <3>1 DEF Live
  <2> QED BY <2>1, <2>2
<1> QED BY <1>1, <1>3, <1>4 DEF t

LEMMA ClientClosing ==
  ASSUME NEW s, s \in Connections, ~s.open => s.pending = {},
         Live("shutdown", s) => s.shutdown_sent, "connect" \notin s.overlap
  PROVE  LET t == Close(s)
         IN  /\ Sound(t) /\ SameFlags([s EXCEPT !.open = FALSE], t) /\ t.pending = {}
<1> DEFINE u == [s EXCEPT !.open = FALSE]
<1>1. /\ u \in Connections /\ ~u.open /\ u.pending = s.pending /\ u.done = s.done
      /\ u.overlap = s.overlap /\ u.shutdown_sent = s.shutdown_sent
  BY DEF Connections
<1>2. CASE s.open
  <2> DEFINE t == CancelOps(u)
  <2>1. Close(s) = t
    BY <1>2 DEF Close
  <2>2. /\ t \in Connections /\ SameFlags(u, t) /\ t.pending = {} /\ t.overlap = u.overlap
        /\ Live("shutdown", t) => Live("shutdown", u)
    BY <1>1, ClientCancelOps DEF Kinds
  <2> HIDE DEF t, u
  <2>3. Live("shutdown", u) => Live("shutdown", s)
    BY <1>1 DEF Live
  <2>4. ~t.open /\ t.shutdown_sent = u.shutdown_sent
    BY <1>1, <2>2 DEF SameFlags
  <2>5. Sound(t)
    BY <1>1, <2>2, <2>3, <2>4 DEF Sound
  <2> QED BY <2>1, <2>2, <2>5 DEF u
<1>3. CASE ~s.open
  <2>1. Close(s) = s /\ Sound(s)
    BY <1>3 DEF Close, Sound
  <2>2. SameFlags(u, s)
    BY <1>3 DEF SameFlags, Connections
  <2> QED BY <1>3, <2>1, <2>2
<1> QED BY <1>2, <1>3

(* A destroyed client's socket is closed already: there is nothing left    *)
(* for the destructor to close.                                            *)
LEMMA ClientReap ==
  ASSUME NEW s, Sound(s)
  PROVE  Reap(s) = s
BY DEF Reap, Alive, Close, Sound

LEMMA ClientDisconnected ==
  ASSUME NEW s, Sound(s)
  PROVE  LET t == Disconnected(s)
         IN  /\ Sound(t) /\ Leaves(s, t)
             /\ t.downs = s.downs + 1 /\ ~t.connected
<1> DEFINE u == [s EXCEPT !.downs = @ + 1]
           w == [u EXCEPT !.connected = FALSE]
<1>1. /\ s \in Connections /\ s.downs + 1 \in Nat
  BY ClientFields DEF Sound
<1>2. /\ u \in Connections /\ u.pending = s.pending /\ u.done = s.done
      /\ u.overlap = s.overlap /\ u.held = s.held /\ u.frame = s.frame
      /\ u.open = s.open /\ u.connected = s.connected
      /\ u.shutdown_sent = s.shutdown_sent
      /\ u.ups = s.ups /\ u.downs = s.downs + 1 /\ u.errs = s.errs
  BY <1>1 DEF Connections
<1> HIDE DEF u
<1>3. CASE ~s.connected
  <2>1. Disconnected(s) = u
    BY <1>2, <1>3, ClientAssumption DEF Disconnected, OwnerDisconnected, u
  <2>2. Live("shutdown", u) => u.shutdown_sent
    BY <1>2 DEF Sound, Live
  <2>3. Sound(u) /\ Leaves(s, u)
    BY <1>2, <1>3, <2>2 DEF Sound, Leaves, NoConnect
  <2> QED BY <1>2, <1>3, <2>1, <2>3
<1>4. CASE s.connected
  <2> DEFINE t == Close(w)
  <2>1. /\ w \in Connections /\ w.pending = s.pending /\ w.done = s.done
        /\ w.overlap = s.overlap /\ w.held = s.held /\ w.frame = s.frame
        /\ w.open = s.open /\ ~w.connected
        /\ w.shutdown_sent = s.shutdown_sent
        /\ w.ups = s.ups /\ w.downs = s.downs + 1 /\ w.errs = s.errs
    BY <1>2 DEF Connections
  <2> HIDE DEF w
  <2>2. Disconnected(s) = t
    BY <1>2, <1>4, ClientAssumption DEF Disconnected, OwnerDisconnected, u, w
  <2>3. Live("shutdown", w) => w.shutdown_sent
    BY <2>1 DEF Sound, Live
  <2>4. Sound(t) /\ SameFlags([w EXCEPT !.open = FALSE], t) /\ t.pending = {}
    BY <2>1, <2>3, ClientClosing DEF Sound
  <2>5. /\ ~t.open /\ t.held = s.held /\ t.frame = s.frame /\ ~t.connected
        /\ t.ups = s.ups /\ t.downs = s.downs + 1 /\ t.errs = s.errs
    BY <2>1, <2>4 DEF SameFlags, Connections
  <2> HIDE DEF t
  <2>6. Leaves(s, t)
    BY <2>4, <2>5 DEF Leaves, NoConnect
  <2> QED BY <2>2, <2>4, <2>5, <2>6
<1> QED BY <1>3, <1>4

LEMMA ClientShutdown ==
  ASSUME NEW s, Sound(s)
  PROVE  Sound(Shutdown(s)) /\ Leaves(s, Shutdown(s))
<1> DEFINE u == [s EXCEPT !.shutdown_sent = TRUE,
                          !.cut = @ \/ "write" \in s.pending]
           c == CancelOps(u)
           p == StartOp("shutdown", c)
<1>1. s \in Connections
  BY DEF Sound
<1>2. /\ u \in Connections /\ u.pending = s.pending /\ u.overlap = s.overlap
      /\ u.held = s.held /\ u.frame = s.frame /\ u.open = s.open
      /\ u.connected = s.connected /\ u.shutdown_sent
      /\ u.ups = s.ups /\ u.downs = s.downs /\ u.errs = s.errs
  BY <1>1 DEF Connections
<1> HIDE DEF u
<1>3. Sound(u)
  BY <1>2 DEF Sound
<1>4. CASE IsSsl(s)
  <2>1. Shutdown(s) = p
    BY <1>4 DEF Shutdown, IsSsl, u
  <2>2. c \in Connections /\ SameFlags(u, c) /\ c.pending = {} /\ c.overlap = u.overlap
    BY <1>2, ClientCancelOps
  <2> HIDE DEF c
  <2>3. Sound(c) /\ c.shutdown_sent
    BY <1>2, <1>3, <2>2 DEF Sound, SameFlags
  <2>4. Sound(p) /\ SameFlags(c, p) /\ NoConnect(c, p) /\ Live("shutdown", p)
    BY <2>3, ClientStartOp DEF Kinds
  <2> HIDE DEF p
  <2>5. Leaves(s, p)
    BY <1>2, <2>2, <2>4 DEF SameFlags, NoConnect, Leaves
  <2> QED BY <2>1, <2>4, <2>5
<1>5. CASE ~IsSsl(s)
  <2>1. Shutdown(s) = Disconnected(u)
    BY <1>5 DEF Shutdown, IsSsl, u
  <2> DEFINE t == Disconnected(u)
  <2>2. Sound(t) /\ Leaves(u, t) /\ t.downs = u.downs + 1 /\ ~t.connected
    BY <1>3, ClientDisconnected
  <2>3. u.downs \in Nat /\ u.errs \in Nat
    BY <1>2, ClientFields
  <2> HIDE DEF t
  <2>4. t.errs = u.errs
    BY <2>2, <2>3 DEF Leaves
  <2>5. Leaves(s, t)
    BY <1>2, <2>2, <2>4 DEF Leaves, NoConnect
  <2> QED BY <2>1, <2>2, <2>5 DEF t
<1> QED BY <1>4, <1>5

LEMMA ClientForced ==
  ASSUME NEW s, Sound(s)
  PROVE  Sound(ForcedShutdown(s)) /\ Leaves(s, ForcedShutdown(s))
<1> DEFINE u == [s EXCEPT !.forced = TRUE]
           t == Shutdown(u)
<1>1. /\ u \in Connections /\ u.pending = s.pending /\ u.overlap = s.overlap
      /\ u.done = s.done /\ SameFlags(s, u)
  BY DEF Sound, Connections, SameFlags
<1> HIDE DEF u
<1>2. Live("shutdown", u) => Live("shutdown", s)
  BY <1>1 DEF Live
<1>3. Sound(u)
  BY <1>1, <1>2 DEF Sound, SameFlags
<1>4. Sound(t) /\ Leaves(u, t)
  BY <1>3, ClientShutdown
<1> HIDE DEF t
<1>5. Leaves(s, t)
  BY <1>1, <1>4 DEF Leaves, NoConnect, SameFlags
<1> QED BY <1>4, <1>5 DEF ForcedShutdown, t, u

LEMMA ClientSignal ==
  ASSUME NEW s, NEW e, Sound(s)
  PROVE  /\ Sound(SignalErrorOrDisconnect(e, s))
         /\ Leaves(s, SignalErrorOrDisconnect(e, s))
<1> DEFINE u == [s EXCEPT !.errs = @ + 1]
<1>1. s.errs + 1 \in Nat /\ s \in Connections
  BY ClientFields DEF Sound
<1>2. /\ u \in Connections /\ u.pending = s.pending /\ u.overlap = s.overlap
      /\ u.done = s.done /\ u.held = s.held /\ u.frame = s.frame /\ u.open = s.open
      /\ u.shutdown_sent = s.shutdown_sent
      /\ u.ups = s.ups /\ u.downs = s.downs /\ u.errs = s.errs + 1
  BY <1>1 DEF Connections
<1>3. SignalErrorOrDisconnect(e, s) \in {ForcedShutdown(s), Disconnected(s), u}
  BY DEF SignalErrorOrDisconnect
<1> HIDE DEF u
<1>4. Live("shutdown", u) => Live("shutdown", s)
  BY <1>2 DEF Live
<1>5. Sound(u) /\ Leaves(s, u)
  BY <1>2, <1>4 DEF Sound, Leaves, NoConnect
<1> QED BY <1>3, <1>5, ClientForced, ClientDisconnected

-----------------------------------------------------------------------------
(* The handlers.                                                           *)

(* Taking a completion leaves the other kinds alone, and an aborted one is *)
(* no loss.                                                                *)
LEMMA ClientTaken ==
  ASSUME Sound(conn), NEW k \in Kinds, conn.done[k] # <<>>
  PROVE  LET u == Taken(k)
         IN  /\ Sound(u) /\ SameFlags(conn, u) /\ u.pending = conn.pending
             /\ u.disconnect_pending = conn.disconnect_pending
             /\ u.adaptor = conn.adaptor
             /\ \A j \in Kinds \ {k} : Live(j, conn) => Live(j, u)
             /\ Result(k) = "aborted" => KeepsLive(conn, u)
             /\ Result(k) # "aborted" => Live(k, conn)
<1> DEFINE q == conn.done[k]
           d == [conn.done EXCEPT ![k] = Tail(@)]
           u == Taken(k)
<1>1. conn \in Connections /\ conn.done \in [Kinds -> Seq(Results)] /\ q \in Seq(Results)
  BY ClientFields DEF Sound
<1>2. /\ Tail(q) \in Seq(Results) /\ Len(q) \in Nat \ {0}
      /\ Len(Tail(q)) = Len(q) - 1
      /\ \A i \in 1 .. Len(q) - 1 : Tail(q)[i] = q[i + 1]
      /\ Head(q) = q[1] /\ DOMAIN q = 1 .. Len(q) /\ DOMAIN Tail(q) = 1 .. Len(q) - 1
  BY <1>1, EmptySeq, LenProperties, HeadTailProperties
<1>3. d \in [Kinds -> Seq(Results)]
  BY <1>1, <1>2
<1>4. u = [conn EXCEPT !.done = d]
  BY DEF Taken
<1>5. /\ u \in Connections /\ u.pending = conn.pending /\ u.overlap = conn.overlap
      /\ u.done = d /\ SameFlags(conn, u)
      /\ u.disconnect_pending = conn.disconnect_pending /\ u.adaptor = conn.adaptor
  BY <1>1, <1>3, <1>4 DEF Connections, SameFlags
<1>6. d[k] = Tail(q) /\ \A j \in Kinds \ {k} : d[j] = conn.done[j]
  BY <1>1
<1> HIDE DEF u, d, q
<1>7. \A j \in Kinds \ {k} : Live(j, u) <=> Live(j, conn)
  BY <1>5, <1>6 DEF Live
<1>8. Live(k, u) => Live(k, conn)
  <2>1. ASSUME NEW i \in DOMAIN Tail(q), Tail(q)[i] # "aborted"
        PROVE  i + 1 \in DOMAIN q /\ q[i + 1] # "aborted"
    BY <1>2, <2>1
  <2> QED BY <1>5, <1>6, <2>1 DEF Live, q
<1>9. Result(k) # "aborted" => Live(k, conn)
  <2>1. 1 \in DOMAIN q
    BY <1>2
  <2> QED BY <1>2, <2>1 DEF Live, Result, q
<1>10. ASSUME Result(k) = "aborted", Live(k, conn) PROVE Live(k, u)
  <2>1. CASE k \in conn.pending
    BY <1>5, <2>1 DEF Live
  <2>2. CASE k \notin conn.pending
    <3>1. PICK i \in DOMAIN q : q[i] # "aborted"
      BY <1>10, <2>2 DEF Live, q
    <3>2. i # 1
      BY <1>2, <1>10, <3>1 DEF Result, q
    <3>3. i - 1 \in DOMAIN Tail(q) /\ Tail(q)[i - 1] = q[i]
      <4>1. i - 1 \in 1 .. Len(q) - 1 /\ (i - 1) + 1 = i
        BY <1>2, <3>2
      <4> QED BY <1>2, <4>1
    <3> QED BY <1>5, <1>6, <3>1, <3>3 DEF Live
  <2> QED BY <2>1, <2>2
<1>11. Live("shutdown", u) => u.shutdown_sent
  BY <1>5, <1>7, <1>8 DEF Sound, SameFlags, Kinds
<1>12. Sound(u)
  BY <1>5, <1>11 DEF Sound, SameFlags
<1> QED BY <1>5, <1>7, <1>9, <1>10, <1>12 DEF KeepsLive, u

-----------------------------------------------------------------------------
(* What every step of the connection does to the client.                   *)

(* A connection that the client still wants back either goes down in the   *)
(* step, which sets the timer, or was not there before it, and no live     *)
(* attempt is lost.                                                        *)
Kept(s, t) ==
  (t.held /\ ~t.connected /\ t.errs = 0)
    => \/ t.downs > s.downs
       \/ t.ups = s.ups /\ ~s.connected /\ s.errs = 0 /\ (Trying(s) => Trying(t))

Silent(s, t) ==
  ~s.held => /\ t.ups = s.ups /\ t.downs = s.downs /\ t.errs = s.errs
             /\ t.frame \in {s.frame, "none"}

Goes(s, t) ==
  /\ Sound(t) /\ Reader(t) /\ NoConnect(s, t)
  /\ t.held = s.held /\ Kept(s, t) /\ Silent(s, t)
  /\ t.ups > s.ups => t.connected
  /\ t.downs > s.downs => t.ups = s.ups

LEMMA LeavingGoes ==
  ASSUME NEW s \in Connections, NEW u, NEW t, s.held, SameFlags(s, u), NoConnect(s, u),
         Sound(t), Leaves(u, t)
  PROVE  Goes(s, t)
<1>1. s.errs \in Nat /\ s.downs \in Nat /\ s.ups \in Nat
  BY ClientFields
<1>2. NoConnect(s, t)
  BY DEF NoConnect, Leaves
<1>3. t.held = s.held /\ Silent(s, t)
  BY DEF SameFlags, Leaves, Silent
<1>4. \/ t.errs # 0 /\ t.downs = s.downs
      \/ t.downs > s.downs /\ ~t.connected
      \/ /\ t.errs = s.errs /\ t.downs = s.downs /\ t.connected = s.connected
         /\ t.shutdown_sent /\ Live("shutdown", t)
  BY <1>1 DEF SameFlags, Leaves
<1>5. t.ups = s.ups
  BY DEF SameFlags, Leaves
<1>6. Reader(t)
  <2>1. ~t.connected \/ t.shutdown_sent \/ t.errs # 0
    BY <1>4
  <2> QED BY <2>1 DEF Reader
<1>7. Kept(s, t)
  BY <1>4, <1>5 DEF Kept, Trying
<1> QED BY <1>1, <1>2, <1>3, <1>5, <1>6, <1>7 DEF Goes

(* The flags stay and what is live stays live, reads in an event excepted. *)
LEMMA StayingGoes ==
  ASSUME NEW s, NEW t, Sound(t), Reader(t), s \in Connections, NoConnect(s, t),
         t.held = s.held, t.connected = s.connected,
         t.ups = s.ups, t.downs = s.downs, t.errs = s.errs,
         s.held \/ t.frame \in {s.frame, "none"},
         \A k \in {"connect", "handshake", "shutdown"} : Live(k, s) => Live(k, t)
  PROVE  Goes(s, t)
<1>1. s.downs \in Nat /\ s.ups \in Nat
  BY ClientFields
<1>2. Trying(s) => Trying(t)
  BY DEF Trying
<1>3. Kept(s, t) /\ Silent(s, t)
  BY <1>2 DEF Kept, Silent
<1> QED BY <1>1, <1>3 DEF Goes

(* Coming up, or failing to.                                               *)
LEMMA ComingUpGoes ==
  ASSUME NEW s \in Connections, NEW u, s.held, Sound(u), SameFlags(s, u), NoConnect(s, u)
  PROVE  Goes(s, HandshakeOk(u))
<1> DEFINE t == [u EXCEPT !.connected = TRUE, !.ups = @ + 1, !.frame = "connected"]
<1>1. u \in Connections /\ u.ups + 1 \in Nat /\ "connected" \in Frames
  BY ClientFields DEF Sound, Frames
<1>2. /\ t \in Connections /\ t.pending = u.pending /\ t.done = u.done
      /\ t.overlap = u.overlap /\ t.held = u.held /\ t.open = u.open
      /\ t.shutdown_sent = u.shutdown_sent /\ t.connected /\ t.frame = "connected"
      /\ t.downs = u.downs
  BY <1>1 DEF Connections
<1>3. HandshakeOk(u) = t
  BY DEF HandshakeOk
<1>4. s.downs \in Nat
  BY ClientFields
<1> HIDE DEF t
<1>5. Sound(t)
  <2>1. Live("shutdown", t) => Live("shutdown", u)
    BY <1>2 DEF Live
  <2> QED BY <1>2, <2>1 DEF Sound
<1>6. Reader(t) /\ Kept(s, t) /\ Silent(s, t) /\ NoConnect(s, t) /\ t.held = s.held
  BY <1>2 DEF Reader, Kept, Silent, NoConnect, SameFlags
<1>7. ~(t.downs > s.downs)
  BY <1>2, <1>4 DEF SameFlags
<1> QED BY <1>2, <1>3, <1>5, <1>6, <1>7 DEF Goes

LEMMA FailingGoes ==
  ASSUME NEW s \in Connections, NEW u, s.held, Sound(u), SameFlags(s, u), NoConnect(s, u)
  PROVE  Goes(s, ConnectionFailed(u))
<1> DEFINE c == Close(u)
           t == [c EXCEPT !.errs = @ + 1]
<1>1. /\ Sound(c) /\ SameFlags([u EXCEPT !.open = FALSE], c) /\ c.pending = {}
  BY ClientClosing DEF Sound
<1>2. /\ c.held = u.held /\ c.ups = u.ups /\ c.downs = u.downs /\ c.errs = u.errs /\ ~c.open
  BY <1>1 DEF Sound, SameFlags, Connections
<1> HIDE DEF c
<1>3. c.errs + 1 \in Nat /\ c.errs + 1 # 0 /\ c \in Connections
  <2>1. c \in Connections
    BY <1>1 DEF Sound
  <2> QED BY <2>1, ClientFields
<1>4. /\ t \in Connections /\ t.pending = {} /\ t.done = c.done
      /\ t.overlap = c.overlap /\ t.held = c.held /\ ~t.open
      /\ t.shutdown_sent = c.shutdown_sent /\ t.errs # 0
      /\ t.ups = s.ups /\ t.downs = s.downs
  BY <1>1, <1>2, <1>3 DEF Connections, SameFlags
<1>5. ConnectionFailed(u) = t
  BY DEF ConnectionFailed, c
<1>6. s.downs \in Nat /\ s.ups \in Nat
  BY ClientFields
<1> HIDE DEF t
<1>7. Sound(t)
  <2>1. Live("shutdown", t) => Live("shutdown", c)
    BY <1>4 DEF Live
  <2> QED BY <1>1, <1>4, <2>1 DEF Sound
<1>8. Reader(t) /\ Kept(s, t) /\ Silent(s, t) /\ NoConnect(s, t) /\ t.held = s.held
  BY <1>2, <1>4 DEF Reader, Kept, Silent, NoConnect, SameFlags
<1>9. ~(t.ups > s.ups) /\ ~(t.downs > s.downs)
  BY <1>4, <1>6
<1>10. Goes(s, t)
  BY <1>7, <1>8, <1>9 DEF Goes
<1> QED BY <1>5, <1>10

(* Only the frame changes, as an event begins or ends.                     *)
LEMMA FrameSound ==
  ASSUME NEW s, Sound(s), NEW f \in Frames
  PROVE  LET t == [s EXCEPT !.frame = f]
         IN  /\ Sound(t) /\ t.pending = s.pending /\ t.done = s.done /\ t.frame = f
             /\ t.held = s.held /\ t.open = s.open /\ t.connected = s.connected
             /\ t.shutdown_sent = s.shutdown_sent
             /\ t.ups = s.ups /\ t.downs = s.downs /\ t.errs = s.errs
<1> DEFINE t == [s EXCEPT !.frame = f]
<1>1. /\ t \in Connections /\ t.pending = s.pending /\ t.done = s.done /\ t.frame = f
      /\ t.held = s.held /\ t.open = s.open /\ t.connected = s.connected
      /\ t.shutdown_sent = s.shutdown_sent /\ t.overlap = s.overlap
      /\ t.ups = s.ups /\ t.downs = s.downs /\ t.errs = s.errs
  BY DEF Sound, Connections
<1> HIDE DEF t
<1>2. Live("shutdown", t) => Live("shutdown", s)
  BY <1>1 DEF Live
<1>3. Sound(t)
  BY <1>1, <1>2 DEF Sound
<1> QED BY <1>1, <1>3 DEF SameFlags, t

-----------------------------------------------------------------------------
(* The calls, the network and the handlers, one by one.                    *)

LEMMA SendGoes ==
  ASSUME Sound(conn), Reader(conn), conn.held
  PROVE  Goes(conn, SendData(conn))
<1> DEFINE u == [conn EXCEPT !.transmitting = TRUE]
           t == StartOp("write", u)
<1>1. conn \in Connections
  BY DEF Sound
<1>2. /\ u \in Connections /\ u.pending = conn.pending /\ u.done = conn.done
      /\ u.overlap = conn.overlap /\ SameFlags(conn, u)
  BY <1>1 DEF Connections, SameFlags
<1>3. SendData(conn) = t
  BY DEF SendData, WriteData
<1> HIDE DEF u
<1>4. \A k \in Kinds : Live(k, u) <=> Live(k, conn)
  BY <1>2 DEF Live
<1>5. Sound(u)
  BY <1>2, <1>4 DEF Sound, SameFlags, Kinds
<1>6. Sound(t) /\ SameFlags(u, t) /\ NoConnect(u, t) /\ KeepsLive(u, t)
  BY <1>5, ClientStartOp DEF Kinds
<1> HIDE DEF t
<1>7. \A k \in {"connect", "handshake", "shutdown", "read"} : Live(k, conn) => Live(k, t)
  BY <1>4, <1>6 DEF KeepsLive, Kinds
<1>8. Reader(t) /\ NoConnect(conn, t)
  BY <1>2, <1>6, <1>7 DEF Reader, SameFlags, NoConnect
<1>9. Goes(conn, t)
  BY <1>1, <1>2, <1>6, <1>7, <1>8, StayingGoes DEF SameFlags
<1> QED BY <1>3, <1>9

LEMMA ShutdownGoes ==
  ASSUME Sound(conn), conn.held
  PROVE  Goes(conn, Reap(ForcedShutdown(conn)))
<1> DEFINE t == ForcedShutdown(conn)
<1>1. Sound(t) /\ Leaves(conn, t) /\ conn \in Connections
  BY ClientForced DEF Sound
<1>2. Reap(t) = t
  BY <1>1, ClientReap
<1>3. SameFlags(conn, conn) /\ NoConnect(conn, conn)
  BY DEF SameFlags, NoConnect
<1> QED BY <1>1, <1>2, <1>3, LeavingGoes

LEMMA CompleteGoes ==
  ASSUME Sound(conn), Reader(conn), NEW k \in Kinds, NEW r \in NetworkResults, Complete(k, r)
  PROVE  Goes(conn, conn')
<1> DEFINE d == [conn.done EXCEPT ![k] = Append(@, r)]
           p == conn.pending \ {k}
           t == conn'
<1>1. /\ conn \in Connections /\ conn.done \in [Kinds -> Seq(Results)]
      /\ conn.done[k] \in Seq(Results) /\ conn.pending \in SUBSET Kinds
  BY ClientFields DEF Sound
<1>2. r \in Results /\ r # "aborted"
  BY DEF NetworkResults, Results, Errors
<1>3. d \in [Kinds -> Seq(Results)] /\ p \in SUBSET Kinds
  BY <1>1, <1>2
<1>4. conn' = [conn EXCEPT !.pending = p, !.done = d]
  BY DEF Complete
<1>5. /\ t \in Connections /\ t.pending = p /\ t.done = d /\ SameFlags(conn, t)
      /\ t.overlap = conn.overlap
  BY <1>1, <1>3, <1>4 DEF Connections, SameFlags
<1>6. d[k] = Append(conn.done[k], r) /\ \A j \in Kinds \ {k} : d[j] = conn.done[j]
  BY <1>1
<1>7. k \in conn.pending
  BY DEF Complete
<1> HIDE DEF d, p
<1>8. Live(k, conn) /\ Live(k, t)
  <2>1. \E i \in DOMAIN d[k] : d[k][i] # "aborted"
    BY <1>1, <1>2, <1>6, LiveAppend
  <2> QED BY <1>5, <1>7, <2>1 DEF Live
<1>9. \A j \in Kinds : Live(j, conn) <=> Live(j, t)
  <2>1. \A j \in Kinds \ {k} : Live(j, conn) <=> Live(j, t)
    BY <1>5, <1>6 DEF Live, p
  <2> QED BY <1>8, <2>1
<1>10. Sound(t)
  BY <1>5, <1>9 DEF Sound, SameFlags, Kinds, p
<1>11. Reader(t) /\ NoConnect(conn, t)
  BY <1>5, <1>9 DEF Reader, SameFlags, NoConnect, Kinds, p
<1>12. \A j \in {"connect", "handshake", "shutdown"} : Live(j, conn) => Live(j, t)
  BY <1>9 DEF Kinds
<1> QED BY <1>1, <1>5, <1>10, <1>11, <1>12, StayingGoes DEF SameFlags

LEMMA IgnoredGoes ==
  ASSUME Sound(conn), Reader(conn), NEW k \in Kinds, Ignored(k)
  PROVE  Goes(conn, conn')
<1> DEFINE u == Taken(k)
<1>1. /\ Sound(u) /\ SameFlags(conn, u) /\ u.pending = conn.pending
      /\ Result(k) = "aborted" => KeepsLive(conn, u)
      /\ \A j \in Kinds \ {k} : Live(j, conn) => Live(j, u)
  BY ClientTaken DEF Ignored, Queued
<1>2. conn' = u
  BY <1>1, ClientReap DEF Ignored, Next1
<1>3. conn \in Connections /\ NoConnect(conn, u)
  BY <1>1 DEF Sound, NoConnect
<1> HIDE DEF u
<1>4. CASE Result(k) = "aborted"
  <2>1. Reader(u)
    BY <1>1, <1>4 DEF Reader, SameFlags, KeepsLive, Kinds
  <2>2. \A j \in {"connect", "handshake", "shutdown"} : Live(j, conn) => Live(j, u)
    BY <1>1, <1>4 DEF KeepsLive, Kinds
  <2> QED BY <1>1, <1>2, <1>3, <2>1, <2>2, StayingGoes DEF SameFlags
<1>5. CASE Result(k) # "aborted"
  <2>1. ~conn.held
    BY <1>5 DEF Ignored, Handles
  <2>2. ~u.held /\ ~u.open
    BY <1>1, <2>1 DEF SameFlags, Sound
  <2>3. Reader(u) /\ Kept(conn, u) /\ Silent(conn, u)
    BY <1>1, <2>1, <2>2 DEF Reader, Kept, Silent, SameFlags
  <2>4. ~(u.downs > conn.downs) /\ ~(u.ups > conn.ups) /\ u.held = conn.held
    BY <1>1, <1>3, ClientFields DEF SameFlags
  <2> QED BY <1>1, <1>2, <1>3, <2>3, <2>4 DEF Goes
<1> QED BY <1>4, <1>5

LEMMA HandledTaken ==
  ASSUME Sound(conn), NEW k \in Kinds, Handles(k)
  PROVE  LET u == Taken(k)
         IN  /\ Sound(u) /\ SameFlags(conn, u) /\ u.pending = conn.pending
             /\ NoConnect(conn, u) /\ conn.held /\ conn \in Connections
             /\ conn.frame = "none" /\ Live(k, conn)
             /\ u.disconnect_pending = conn.disconnect_pending
             /\ \A j \in Kinds \ {k} : Live(j, conn) => Live(j, u)
BY ClientTaken DEF Handles, Queued, NoConnect, Sound

LEMMA ConnectCallbackGoes ==
  ASSUME Sound(conn), Reader(conn), ConnectCallback
  PROVE  Goes(conn, conn')
<1> DEFINE u == Taken("connect")
           t == StartOp("handshake", u)
<1>1. /\ Sound(u) /\ SameFlags(conn, u) /\ u.pending = conn.pending
      /\ NoConnect(conn, u) /\ conn.held /\ conn \in Connections
      /\ \A j \in Kinds \ {"connect"} : Live(j, conn) => Live(j, u)
  BY HandledTaken DEF ConnectCallback, Kinds
<1>2. Goes(conn, HandshakeOk(u)) /\ Goes(conn, ConnectionFailed(u))
  BY <1>1, ComingUpGoes, FailingGoes
<1> HIDE DEF u
<1>3. Sound(t) /\ SameFlags(u, t) /\ NoConnect(u, t) /\ Live("handshake", t) /\ KeepsLive(u, t)
  BY <1>1, ClientStartOp DEF Kinds
<1> HIDE DEF t
<1>4. Live("read", conn) => Live("read", t)
  BY <1>1, <1>3 DEF KeepsLive, Kinds
<1>5. Reader(t) /\ NoConnect(conn, t) /\ Trying(t) /\ t.held = conn.held
  BY <1>1, <1>3, <1>4 DEF Reader, SameFlags, NoConnect, Trying
<1>6. Kept(conn, t) /\ Silent(conn, t)
  BY <1>1, <1>3, <1>5 DEF Kept, Silent, SameFlags
<1>7. ~(t.ups > conn.ups) /\ ~(t.downs > conn.downs)
  BY <1>1, <1>3, ClientFields DEF SameFlags
<1>8. Goes(conn, t)
  BY <1>3, <1>5, <1>6, <1>7 DEF Goes
<1>9. \E n \in {t, HandshakeOk(u), ConnectionFailed(u)} : conn' = Reap(n)
  BY DEF ConnectCallback, Handshake, Next1, t, u
<1> QED BY <1>2, <1>8, <1>9, ClientReap DEF Goes

LEMMA HandshakeCallbackGoes ==
  ASSUME Sound(conn), HandshakeCallback
  PROVE  Goes(conn, conn')
<1> DEFINE u == Taken("handshake")
<1>1. /\ Sound(u) /\ SameFlags(conn, u)
      /\ NoConnect(conn, u) /\ conn.held /\ conn \in Connections
  BY HandledTaken DEF HandshakeCallback, Kinds
<1>2. Goes(conn, HandshakeOk(u)) /\ Goes(conn, ConnectionFailed(u))
  BY <1>1, ComingUpGoes, FailingGoes
<1>3. \E n \in {HandshakeOk(u), ConnectionFailed(u)} : conn' = Reap(n)
  BY DEF HandshakeCallback, Next1
<1> QED BY <1>2, <1>3, ClientReap DEF Goes

LEMMA ReadDataGoes ==
  ASSUME Sound(conn), Reader(conn), ReadData
  PROVE  Goes(conn, conn')
<1> DEFINE u == Taken("read")
           t == [u EXCEPT !.frame = "received"]
<1>1. /\ Sound(u) /\ SameFlags(conn, u) /\ u.pending = conn.pending
      /\ NoConnect(conn, u) /\ conn.held /\ conn \in Connections
      /\ \A j \in Kinds \ {"read"} : Live(j, conn) => Live(j, u)
  BY HandledTaken DEF ReadData, Kinds
<1> HIDE DEF u
<1>2. /\ Sound(t) /\ t.pending = u.pending /\ t.done = u.done /\ t.frame = "received"
      /\ t.held = u.held /\ t.connected = u.connected
      /\ t.ups = u.ups /\ t.downs = u.downs /\ t.errs = u.errs
  BY <1>1, FrameSound DEF Frames
<1>3. conn' = Reap(t)
  BY DEF ReadData, Next1, u
<1> HIDE DEF t
<1>4. conn' = t
  BY <1>2, <1>3, ClientReap
<1>5. \A j \in {"connect", "handshake", "shutdown"} : Live(j, conn) => Live(j, t)
  <2>1. \A j \in Kinds : Live(j, u) <=> Live(j, t)
    BY <1>2 DEF Live
  <2> QED BY <1>1, <2>1 DEF Kinds
<1>6. Reader(t) /\ NoConnect(conn, t)
  BY <1>1, <1>2 DEF Reader, NoConnect
<1> QED BY <1>1, <1>2, <1>4, <1>5, <1>6, StayingGoes DEF SameFlags

LEMMA ReadErrorGoes ==
  ASSUME Sound(conn), ReadError
  PROVE  Goes(conn, conn')
<1> DEFINE u == Taken("read")
           t == SignalErrorOrDisconnect(Result("read"), u)
<1>1. /\ Sound(u) /\ SameFlags(conn, u)
      /\ NoConnect(conn, u) /\ conn.held /\ conn \in Connections
  BY HandledTaken DEF ReadError, Kinds
<1>2. Sound(t) /\ Leaves(u, t)
  BY <1>1, ClientSignal
<1>3. conn' = t
  BY <1>2, ClientReap DEF ReadError, Next1
<1> QED BY <1>1, <1>2, <1>3, LeavingGoes

LEMMA WriteCallbackGoes ==
  ASSUME Sound(conn), Reader(conn), NEW k \in Kinds, WriteCallback(k)
  PROVE  Goes(conn, conn')
<1> DEFINE u == Taken(k)
           w == [u EXCEPT !.transmitting = FALSE]
           t == [w EXCEPT !.frame = "sent"]
<1>1. /\ Sound(u) /\ SameFlags(conn, u) /\ u.pending = conn.pending
      /\ NoConnect(conn, u) /\ conn.held /\ conn \in Connections
      /\ conn.frame = "none" /\ Live(k, conn)
      /\ \A j \in Kinds \ {k} : Live(j, conn) => Live(j, u)
  BY HandledTaken DEF WriteCallback
<1>2. \A v : Sound(v) /\ Leaves(u, v) => Reap(v) = v /\ Goes(conn, v)
  BY <1>1, LeavingGoes, ClientReap
<1>3. /\ Sound(Disconnected(u)) /\ Leaves(u, Disconnected(u))
      /\ Sound(Shutdown(u)) /\ Leaves(u, Shutdown(u))
      /\ Sound(SignalErrorOrDisconnect(Result(k), u))
      /\ Leaves(u, SignalErrorOrDisconnect(Result(k), u))
  BY <1>1, ClientDisconnected, ClientShutdown, ClientSignal
<1>4. ASSUME ~conn.shutdown_sent, conn' = Reap(WriteHandler(u))
      PROVE  Goes(conn, conn')
  <2>1. k = "write"
    BY <1>1, <1>4 DEF Sound, WriteCallback
  <2> HIDE DEF u
  <2>2. /\ w \in Connections /\ w.pending = u.pending /\ w.done = u.done
        /\ w.overlap = u.overlap /\ SameFlags(u, w)
    BY <1>1 DEF Sound, Connections, SameFlags
  <2> HIDE DEF w
  <2>3. \A j \in Kinds : Live(j, w) <=> Live(j, u)
    BY <2>2 DEF Live
  <2>4. Sound(w)
    BY <1>1, <2>2, <2>3 DEF Sound, SameFlags, Kinds
  <2>5. /\ Sound(t) /\ t.pending = w.pending /\ t.done = w.done
        /\ t.held = w.held /\ t.connected = w.connected /\ t.open = w.open
        /\ t.shutdown_sent = w.shutdown_sent
        /\ t.ups = w.ups /\ t.downs = w.downs /\ t.errs = w.errs
    BY <2>4, FrameSound DEF Frames
  <2>6. WriteHandler(u) = t
    BY <1>1 DEF WriteHandler, w, Sound, Connections
  <2> HIDE DEF t
  <2>7. conn' = t
    BY <1>4, <2>5, <2>6, ClientReap
  <2>8. \A j \in Kinds \ {"write"} : Live(j, conn) => Live(j, t)
    <3>1. \A j \in Kinds : Live(j, w) <=> Live(j, t)
      BY <2>5 DEF Live
    <3> QED BY <1>1, <2>1, <2>3, <3>1
  <2>9. Reader(t) /\ NoConnect(conn, t)
    BY <1>1, <2>2, <2>5, <2>8 DEF Reader, NoConnect, SameFlags, Kinds
  <2>10. \A j \in {"connect", "handshake", "shutdown"} : Live(j, conn) => Live(j, t)
    BY <2>8 DEF Kinds
  <2> QED BY <1>1, <2>2, <2>5, <2>7, <2>9, <2>10, StayingGoes DEF SameFlags
<1>5. \/ ~conn.shutdown_sent /\ conn' = Reap(WriteHandler(u))
      \/ \E v \in {Disconnected(u), Shutdown(u), SignalErrorOrDisconnect(Result(k), u)} :
           conn' = Reap(v)
  BY DEF WriteCallback, Next1, Written
<1> HIDE DEF u
<1> QED BY <1>2, <1>3, <1>4, <1>5

LEMMA ReturnsGoes ==
  ASSUME Sound(conn), Reader(conn), Returns
  PROVE  Goes(conn, conn')
<1> DEFINE r == EnableReception(conn)
           t(s) == [s EXCEPT !.frame = "none"]
<1>1. conn \in Connections
  BY DEF Sound
<1>2. Sound(r) /\ SameFlags(conn, r) /\ NoConnect(conn, r) /\ Live("read", r) /\ KeepsLive(conn, r)
  BY ClientStartOp DEF EnableReception, Kinds
<1>3. /\ SameFlags(conn, conn) /\ NoConnect(conn, conn) /\ KeepsLive(conn, conn)
  BY DEF SameFlags, NoConnect, KeepsLive
<1> HIDE DEF r
<1>4. ASSUME NEW s, Sound(s), SameFlags(conn, s), NoConnect(conn, s), KeepsLive(conn, s),
             conn.open /\ ~conn.shutdown_sent /\ conn.frame # "sent" => Live("read", s),
             conn.frame # "none"
      PROVE  Reap(t(s)) = t(s) /\ Goes(conn, t(s))
  <2> DEFINE v == t(s)
  <2>1. /\ Sound(v) /\ v.pending = s.pending /\ v.done = s.done /\ v.frame = "none"
        /\ v.held = s.held /\ v.open = s.open /\ v.connected = s.connected
        /\ v.shutdown_sent = s.shutdown_sent
        /\ v.ups = s.ups /\ v.downs = s.downs /\ v.errs = s.errs
    BY <1>4, FrameSound DEF Frames
  <2> HIDE DEF v
  <2>2. \A j \in Kinds : Live(j, s) <=> Live(j, v)
    BY <2>1 DEF Live
  <2>3. conn.frame = "sent" /\ Live("read", conn) => Live("read", v)
    BY <1>4, <2>2 DEF KeepsLive, Kinds
  <2>4. conn.open /\ ~conn.shutdown_sent /\ conn.frame # "sent" => Live("read", v)
    BY <1>4, <2>2 DEF Kinds
  <2>5. Reader(v)
    BY <1>4, <2>1, <2>3, <2>4 DEF Reader, SameFlags
  <2>6. \A j \in {"connect", "handshake", "shutdown"} : Live(j, conn) => Live(j, v)
    BY <1>4, <2>2 DEF KeepsLive, Kinds
  <2>7. NoConnect(conn, v)
    BY <1>4, <2>1 DEF NoConnect
  <2>8. Goes(conn, v)
    BY <1>1, <1>4, <2>1, <2>5, <2>6, <2>7, StayingGoes DEF SameFlags
  <2> QED BY <2>1, <2>8, ClientReap DEF v
<1>5. CASE ConnectedReturns /\ conn.open
  <2>1. conn' = Reap(t(r)) /\ conn.frame = "connected"
    BY <1>5 DEF ConnectedReturns, Next1, r
  <2> QED BY <1>2, <1>4, <2>1
<1>6. CASE ConnectedReturns /\ ~conn.open
  <2>1. conn' = Reap(t(conn)) /\ conn.frame = "connected"
    BY <1>6 DEF ConnectedReturns, Next1
  <2> QED BY <1>3, <1>4, <1>6, <2>1
<1>7. CASE ReceivedReturns
  <2>1. CASE conn.shutdown_sent
    <3>1. conn' = Reap(t(conn)) /\ conn.frame = "received"
      BY <1>7, <2>1 DEF ReceivedReturns, Next1, ReadAgain
    <3> QED BY <1>3, <1>4, <2>1, <3>1
  <2>2. CASE ~conn.shutdown_sent
    <3>1. conn' = Reap(t(r)) /\ conn.frame = "received"
      BY <1>7, <2>2 DEF ReceivedReturns, Next1, ReadAgain, r
    <3> QED BY <1>2, <1>4, <3>1
  <2> QED BY <2>1, <2>2
<1>8. CASE SentReturns
  <2>1. conn' = Reap(t(conn)) /\ conn.frame = "sent"
    BY <1>8 DEF SentReturns, Next1
  <2> QED BY <1>3, <1>4, <2>1
<1> QED BY <1>5, <1>6, <1>7, <1>8 DEF Returns

-----------------------------------------------------------------------------
(* The steps of the client.                                                *)

StaysSilent ==
  ~conn.held =>
    /\ ~conn'.open
    /\ conn'.ups = conn.ups /\ conn'.downs = conn.downs /\ conn'.errs = conn.errs
    /\ conn'.frame \in {conn.frame, "none"}

Preserved == ClientInv' /\ StaysSilent

(* The timer after an event: set by a DISCONNECTED that the client has a   *)
(* period for, cancelled by CONNECTED.                                     *)
LEMMA EventPreserves ==
  ASSUME ClientInv, Goes(conn, conn'), TimerAfterEvent, calls' \in Nat,
         UNCHANGED <<period, expired, unresolved>>
  PROVE  Preserved
<1>1. /\ conn \in Connections /\ conn' \in Connections
      /\ Sound(conn') /\ Reader(conn') /\ NoConnect(conn, conn')
      /\ conn'.held = conn.held /\ Kept(conn, conn') /\ Silent(conn, conn')
      /\ conn'.ups > conn.ups => conn'.connected
      /\ conn'.downs > conn.downs => conn'.ups = conn.ups
  BY DEF Goes, ClientInv, Sound
<1>2. StaysSilent
  BY <1>1 DEF StaysSilent, NoConnect, Silent, Sound
<1>3. /\ conn.ups \in Nat /\ conn'.ups \in Nat /\ period \in {0, 1} /\ armed \in BOOLEAN
  BY <1>1, ClientFields DEF ClientInv, ClientTypes
<1>4. /\ conn'.downs > conn.downs /\ period > 0 => armed' = TRUE
      /\ ~(conn'.downs > conn.downs /\ period > 0) /\ conn'.ups > conn.ups => armed' = FALSE
      /\ ~(conn'.downs > conn.downs /\ period > 0) /\ ~(conn'.ups > conn.ups) => armed' = armed
  <2> DEFINE down == conn'.downs > conn.downs /\ period > 0
             up == conn'.ups > conn.ups
  <2>1. armed' = CASE down -> TRUE [] up -> FALSE [] OTHER -> armed
    BY DEF TimerAfterEvent
  <2>2. ~(down /\ up)
    BY <1>1, <1>3
  <2> HIDE DEF down, up
  <2>3. /\ down => armed' = TRUE
        /\ ~down /\ up => armed' = FALSE
        /\ ~down /\ ~up => armed' = armed
    BY <2>1, <2>2
  <2> QED BY <2>3 DEF down, up
<1>5. ClientTypes'
  BY <1>3, <1>4 DEF ClientInv, ClientTypes
<1>6. ASSUME conn'.held, period' > 0, ~conn'.connected, conn'.errs = 0, ~unresolved'
      PROVE  armed' \/ expired' > 0 \/ Trying(conn')
  <2>1. CASE conn'.downs > conn.downs
    BY <1>4, <1>6, <2>1
  <2>2. CASE ~(conn'.downs > conn.downs)
    <3>1. conn'.ups = conn.ups /\ ~conn.connected /\ conn.errs = 0
          /\ (Trying(conn) => Trying(conn'))
      BY <1>1, <1>6, <2>2 DEF Kept
    <3>2. armed' = armed
      BY <1>1, <1>3, <1>4, <1>6, <2>2
    <3>3. armed \/ expired > 0 \/ Trying(conn)
      BY <1>1, <1>6, <3>1 DEF ClientInv, Persists
    <3> QED BY <3>1, <3>2, <3>3
  <2> QED BY <2>1, <2>2
<1>7. Persists'
  BY <1>6 DEF Persists
<1> QED BY <1>1, <1>2, <1>5, <1>7 DEF Preserved, ClientInv

(* The second attempt on a socket closes it first.                         *)
LEMMA ReopenIsSound ==
  ASSUME NEW s, Sound(s), s.held
  PROVE  LET t == Reopen(s)
         IN  Sound(t) /\ t.held /\ t.connected = s.connected /\ Live("connect", t)
<1> DEFINE c == Close(s)
           u == [c EXCEPT !.open = TRUE]
           t == [u EXCEPT !.pending = @ \cup {"connect"},
                          !.overlap = @ \cup (u.pending \cap {"connect"})]
<1>1. Sound(c) /\ SameFlags([s EXCEPT !.open = FALSE], c) /\ c.pending = {}
  BY ClientClosing DEF Sound
<1>2. c.held = s.held /\ c.connected = s.connected
  BY <1>1 DEF SameFlags, Sound, Connections
<1> HIDE DEF c
<1>3. /\ u \in Connections /\ u.pending = {} /\ u.overlap = c.overlap /\ u.done = c.done
      /\ u.open /\ u.held = s.held /\ u.connected = s.connected
      /\ u.shutdown_sent = c.shutdown_sent
  BY <1>1, <1>2 DEF Sound, Connections
<1>4. Reopen(s) = StartOp("connect", u)
  BY DEF Reopen, c
<1> HIDE DEF u
<1>5. Reopen(s) = t /\ t \in Connections
  <2>1. StartOp("connect", u) \in Connections
    BY <1>3, StartOpFacts DEF Kinds
  <2> QED BY <1>3, <1>4, <2>1 DEF StartOp
<1>6. /\ t.pending = {"connect"} /\ t.overlap = c.overlap /\ t.done = c.done
      /\ t.open /\ t.held /\ t.connected = s.connected
      /\ t.shutdown_sent = c.shutdown_sent
  BY <1>3 DEF Connections
<1> HIDE DEF t
<1>7. Live("connect", t) /\ (Live("shutdown", t) => Live("shutdown", c))
  BY <1>6 DEF Live
<1>8. Sound(t)
  BY <1>1, <1>5, <1>6, <1>7 DEF Sound
<1> QED BY <1>5, <1>6, <1>7, <1>8

LEMMA TryPreserves ==
  ASSUME ClientInv, conn.held, NEW found \in BOOLEAN, TryConnect(found),
         calls' \in Nat, period' \in {0, 1}, armed' = armed, expired' \in Nat
  PROVE  Preserved
<1>1. Sound(conn) /\ Reader(conn) /\ ClientTypes /\ Persists
  BY DEF ClientInv
<1>2. CASE conn.connected
  <2>1. conn' = conn /\ unresolved' = unresolved
    BY <1>2 DEF TryConnect
  <2>2. ClientInv'
    BY <1>1, <1>2, <2>1 DEF ClientInv, ClientTypes, Persists, Sound, Reader, Live
  <2> QED BY <1>1, <2>1, <2>2 DEF Preserved, StaysSilent, Sound
<1>3. CASE ~conn.connected /\ found
  <2>1. conn' = Reopen(conn) /\ unresolved' \in BOOLEAN
    BY <1>1, <1>3 DEF TryConnect, ClientTypes
  <2>2. /\ Sound(conn') /\ conn'.held /\ ~conn'.connected /\ Live("connect", conn')
    BY <1>1, <1>3, <2>1, ReopenIsSound
  <2>3. Reader(conn') /\ Trying(conn')
    BY <2>2 DEF Reader, Trying
  <2>4. ClientTypes' /\ Persists'
    BY <1>1, <2>1, <2>3 DEF ClientTypes, Persists
  <2> QED BY <1>3, <2>2, <2>3, <2>4 DEF Preserved, ClientInv, StaysSilent
<1>4. CASE ~conn.connected /\ ~found
  <2>1. conn' = conn /\ unresolved' = TRUE
    BY <1>4 DEF TryConnect
  <2>2. ClientInv'
    BY <1>1, <2>1 DEF ClientInv, ClientTypes, Persists, Sound, Reader, Live
  <2> QED BY <1>1, <2>1, <2>2 DEF Preserved, StaysSilent, Sound
<1> QED BY <1>2, <1>3, <1>4

(* A client that is closed forgets its period: it wants nothing back.      *)
LEMMA ClosePreserves ==
  ASSUME ClientInv, conn.held, NEW s, s \in Connections,
         s.pending = conn.pending, s.overlap = conn.overlap, s.done = conn.done,
         s.open = conn.open, s.shutdown_sent = conn.shutdown_sent,
         conn' = Close(s), period' = 0, armed' = FALSE, calls' \in Nat,
         UNCHANGED <<expired, unresolved>>
  PROVE  Preserved
<1>1. Live("shutdown", s) => s.shutdown_sent
  BY DEF ClientInv, Sound, Live
<1>2. Sound(conn') /\ SameFlags([s EXCEPT !.open = FALSE], conn') /\ conn'.pending = {}
  BY <1>1, ClientClosing DEF ClientInv, Sound
<1>3. ~conn'.open
  BY <1>2 DEF SameFlags, Connections
<1>4. Reader(conn') /\ StaysSilent
  BY <1>2, <1>3 DEF Reader, StaysSilent
<1>5. ClientTypes'
  BY DEF ClientInv, ClientTypes
<1>6. Persists'
  <2>1. ~(period' > 0)
    OBVIOUS
  <2> QED BY <2>1 DEF Persists
<1> QED BY <1>2, <1>4, <1>5, <1>6 DEF Preserved, ClientInv

LEMMA TimerPreserves ==
  ASSUME ClientInv, TimerExpires \/ TimeoutHandler
  PROVE  Preserved
<1>1. Sound(conn) /\ Reader(conn) /\ ClientTypes /\ Persists
  BY DEF ClientInv
<1>2. CASE TimerExpires
  <2>1. /\ conn' = conn /\ calls' = calls /\ period' = period
        /\ armed' = FALSE /\ expired' = expired + 1 /\ unresolved' = unresolved
    BY <1>2 DEF TimerExpires
  <2>2. Sound(conn') /\ Reader(conn')
    BY <1>1, <2>1
  <2>3. expired' \in Nat /\ expired' > 0
    BY <1>1, <2>1 DEF ClientTypes
  <2>4. ClientTypes' /\ Persists'
    <3>1. armed' \in BOOLEAN
      BY <2>1
    <3> QED BY <1>1, <2>1, <2>3, <3>1 DEF ClientTypes, Persists
  <2> QED BY <1>1, <2>1, <2>2, <2>3, <2>4
          DEF Preserved, ClientInv, StaysSilent, Sound
<1>3. CASE TimeoutHandler /\ conn.held
  <2>1. PICK found \in BOOLEAN : TryConnect(found)
    BY <1>3 DEF TimeoutHandler
  <2>2. /\ calls' = calls /\ period' = period /\ armed' = armed
        /\ expired > 0 /\ expired' = expired - 1
    BY <1>3 DEF TimeoutHandler
  <2>3. expired' \in Nat /\ calls' \in Nat /\ period' \in {0, 1}
    BY <1>1, <2>2 DEF ClientTypes
  <2> QED BY <1>3, <2>1, <2>2, <2>3, TryPreserves
<1>4. CASE TimeoutHandler /\ ~conn.held
  <2>1. /\ conn' = conn /\ unresolved' = unresolved
        /\ calls' = calls /\ period' = period /\ armed' = armed
        /\ expired > 0 /\ expired' = expired - 1
    BY <1>4 DEF TimeoutHandler
  <2>2. Sound(conn') /\ Reader(conn')
    BY <1>1, <2>1
  <2>3. ClientTypes' /\ ~conn'.held
    BY <1>1, <1>4, <2>1 DEF ClientTypes
  <2>4. Persists'
    BY <2>3 DEF Persists
  <2> QED BY <1>1, <2>1, <2>2, <2>3, <2>4
          DEF Preserved, ClientInv, StaysSilent, Sound
<1> QED BY <1>2, <1>3, <1>4

LEMMA CallPreserves ==
  ASSUME ClientInv,
         ClientConnect \/ ClientSend \/ ClientDisconnect \/ ClientClose \/ ClientDestroy
  PROVE  Preserved
<1>1. Sound(conn) /\ Reader(conn) /\ ClientTypes /\ conn \in Connections
  BY DEF ClientInv, Sound
<1>2. calls \in Nat /\ calls + 1 \in Nat /\ expired \in Nat
  BY <1>1 DEF ClientTypes
<1>3. CASE ClientConnect
  <2>1. PICK p \in {0, 1}, found \in BOOLEAN : period' = p /\ TryConnect(found)
    BY <1>3 DEF ClientConnect
  <2>2. conn.held /\ calls' \in Nat /\ armed' = armed /\ expired' \in Nat
    BY <1>2, <1>3 DEF ClientConnect, timer
  <2> QED BY <2>1, <2>2, TryPreserves
<1>4. CASE ClientSend
  <2>1. conn.held /\ conn' = SendData(conn) /\ calls' \in Nat
    BY <1>2, <1>4 DEF ClientSend, Delivered, CallSend, Call
  <2>2. Goes(conn, conn')
    BY <1>1, <2>1, SendGoes
  <2> QED BY <1>4, <2>1, <2>2, EventPreserves DEF ClientSend, Delivered
<1>5. CASE ClientDisconnect
  <2>1. conn.held /\ conn' = Reap(ForcedShutdown(conn)) /\ calls' \in Nat
    BY <1>2, <1>5 DEF ClientDisconnect, Delivered, CallShutdown, Call
  <2>2. Goes(conn, conn')
    BY <1>1, <2>1, ShutdownGoes
  <2> QED BY <1>5, <2>1, <2>2, EventPreserves DEF ClientDisconnect, Delivered
<1>6. CASE ClientClose
  <2>1. conn.held /\ conn' = Close(conn) /\ calls' \in Nat
    BY <1>2, <1>6 DEF ClientClose, CallClose, Call
  <2>2. period' = 0 /\ armed' = FALSE /\ UNCHANGED <<expired, unresolved>>
    BY <1>6 DEF ClientClose
  <2> QED BY <1>1, <2>1, <2>2, ClosePreserves
<1>7. CASE ClientDestroy
  <2> DEFINE s == [conn EXCEPT !.held = FALSE]
  <2>1. /\ s \in Connections
        /\ s.pending = conn.pending /\ s.overlap = conn.overlap /\ s.done = conn.done
        /\ s.open = conn.open /\ s.shutdown_sent = conn.shutdown_sent
    BY <1>1 DEF Connections
  <2>2. conn.held /\ conn' = Close(s) /\ calls' \in Nat
    BY <1>2, <1>7 DEF ClientDestroy
  <2>3. period' = 0 /\ armed' = FALSE /\ UNCHANGED <<expired, unresolved>>
    BY <1>7 DEF ClientDestroy
  <2> HIDE DEF s
  <2> QED BY <2>1, <2>2, <2>3, ClosePreserves
<1> QED BY <1>3, <1>4, <1>5, <1>6, <1>7

LEMMA HandlerPreserves ==
  ASSUME ClientInv, ClientNetwork \/ ClientHandlers \/ ClientReturns
  PROVE  Preserved
<1>1. Sound(conn) /\ Reader(conn) /\ calls \in Nat
  BY DEF ClientInv, ClientTypes
<1>2. CASE ClientNetwork
  <2>1. PICK k \in Kinds, r \in NetworkResults : Delivered(Complete(k, r))
    BY <1>2 DEF ClientNetwork
  <2>2. Complete(k, r) /\ calls' = calls
    BY <2>1 DEF Delivered, Complete
  <2>3. Goes(conn, conn')
    BY <1>1, <2>2, CompleteGoes
  <2> QED BY <1>1, <2>1, <2>2, <2>3, EventPreserves DEF Delivered
<1>3. CASE ClientHandlers
  <2>1. Handlers \/ ConnectCallback
    BY <1>3 DEF ClientHandlers, Delivered
  <2>2. calls' = calls
    BY <2>1 DEF Handlers, Ignored, WriteCallback, HandshakeCallback, ReadData, ReadError,
                ConnectCallback, Next1
  <2>3. Goes(conn, conn')
    <3>1. CASE \E k \in Kinds : Ignored(k) \/ WriteCallback(k)
      BY <1>1, <3>1, IgnoredGoes, WriteCallbackGoes
    <3>2. CASE HandshakeCallback
      BY <1>1, <3>2, HandshakeCallbackGoes
    <3>3. CASE ReadData
      BY <1>1, <3>3, ReadDataGoes
    <3>4. CASE ReadError
      BY <1>1, <3>4, ReadErrorGoes
    <3>5. CASE ConnectCallback
      BY <1>1, <3>5, ConnectCallbackGoes
    <3> QED BY <2>1, <3>1, <3>2, <3>3, <3>4, <3>5 DEF Handlers
  <2> QED BY <1>1, <1>3, <2>2, <2>3, EventPreserves DEF ClientHandlers, Delivered
<1>4. CASE ClientReturns
  <2>1. Returns
    BY <1>4 DEF ClientReturns, Delivered
  <2>2. calls' = calls
    BY <2>1 DEF Returns, ConnectedReturns, ReceivedReturns, SentReturns, Next1
  <2>3. Goes(conn, conn')
    BY <1>1, <2>1, ReturnsGoes
  <2> QED BY <1>1, <1>4, <2>2, <2>3, EventPreserves DEF ClientReturns, Delivered
<1> QED BY <1>2, <1>3, <1>4

LEMMA ClientNextPreserves ==
  ASSUME ClientInv, [ClientNext]_clientVars
  PROVE  Preserved
<1>1. CASE UNCHANGED clientVars
  <2>1. /\ conn' = conn /\ calls' = calls /\ period' = period
        /\ armed' = armed /\ expired' = expired /\ unresolved' = unresolved
    BY <1>1 DEF clientVars
  <2>2. ClientInv'
    BY <2>1 DEF ClientInv, ClientTypes, Persists
  <2> QED BY <2>1, <2>2 DEF ClientInv, Preserved, StaysSilent, Sound
<1>2. CASE ClientNext
  BY <1>2, TimerPreserves, CallPreserves, HandlerPreserves DEF ClientNext
<1> QED BY <1>1, <1>2

LEMMA ClientInitInv == ClientInit => ClientInv
<1> SUFFICES ASSUME ClientInit PROVE ClientInv
  OBVIOUS
<1>1. PICK a \in Adaptors : conn = NewConnection(a)
  BY DEF ClientInit, Init
<1>2. conn \in Connections
  BY <1>1 DEF NewConnection, Connections, Frames
<1>3. /\ conn.pending = {} /\ conn.overlap = {} /\ conn.held /\ ~conn.connected
      /\ conn.done = [k \in Kinds |-> <<>>]
  BY <1>1 DEF NewConnection
<1>4. ~Live("shutdown", conn)
  BY <1>3 DEF Live, Kinds
<1>5. Sound(conn) /\ Reader(conn)
  BY <1>2, <1>3, <1>4 DEF Sound, Reader
<1>6. ClientTypes /\ Persists
  BY DEF ClientInit, Init, ClientTypes, Persists
<1> QED BY <1>5, <1>6 DEF ClientInv

LEMMA ClientInvariance == ClientSpec => []ClientInv
<1>1. ClientInv /\ [ClientNext]_clientVars => ClientInv'
  BY ClientNextPreserves DEF Preserved
<1> QED BY ClientInitInv, <1>1, PTL DEF ClientSpec

-----------------------------------------------------------------------------
(* Every variable of the client has its type, and two attempts to connect  *)
(* one socket are never in progress at once: connect() closes the socket   *)
(* first, and a closed socket has nothing in progress.                     *)
THEOREM ClientTypeCorrect == ClientSpec => []ClientTypeOK
<1>1. ClientInv => ClientTypeOK
  BY DEF ClientInv, ClientTypes, ClientTypeOK, Sound
<1> QED BY ClientInvariance, <1>1, PTL

(* A live operation has not been handled yet.                              *)
LEMMA LiveInProgress ==
  ASSUME NEW k, Live(k, conn)
  PROVE  InProgress(k)
BY DEF Live, InProgress

(* A client that was given a period and lost its connection is waiting for *)
(* the timer or connecting, unless an attempt has failed: the CONNECTED    *)
(* event that cancels the timer, the timeout that finds the client         *)
(* connected and the completions that close() aborts lose no attempt.      *)
THEOREM ClientPersists == ClientSpec => []NeverGivesUp
<1>1. ClientInv => NeverGivesUp
  BY LiveInProgress
     DEF ClientInv, Persists, NeverGivesUp, Trying, Connecting, Leaving
<1> QED BY ClientInvariance, <1>1, PTL

(* Until disconnect() is called for the first time (or a peer's SSL        *)
(* shutdown is answered) and while no error is reported, the connected     *)
(* socket of a client is being read, through any number of losses and      *)
(* reconnections and whatever the sockets before it left in the queue.     *)
(* After that the theorem says nothing: connect() does not reset           *)
(* shutdown_sent_, and read_callback then stops reading the new socket.    *)
THEOREM ClientReaderIsKept == ClientSpec => []ReaderAlive
<1>1. ClientInv => ReaderAlive
  BY LiveInProgress DEF ClientInv, Reader, ReaderAlive
<1> QED BY ClientInvariance, <1>1, PTL

(* A destroyed client is told nothing, and nothing that was queued before  *)
(* brings its socket back.                                                 *)
THEOREM DestroyedStaysSilent == ClientSpec => DestroyedIsSilent
<1>1. ClientInv /\ [ClientNext]_clientVars =>
        [ ~conn.held =>
            /\ ~conn'.open
            /\ conn'.ups = conn.ups /\ conn'.downs = conn.downs /\ conn'.errs = conn.errs
            /\ conn'.frame \in {conn.frame, "none"} ]_clientVars
  BY ClientNextPreserves DEF Preserved, StaysSilent
<1> QED BY ClientInvariance, <1>1, PTL DEF ClientSpec, DestroyedIsSilent
=============================================================================
