------------------------- MODULE HttpServer_proofs -------------------------
(***************************************************************************)
(* Proofs about HttpServer, for any connections, builds and acceptors and  *)
(* for any number of calls.                                                *)
(***************************************************************************)
EXTENDS HttpServer, FiniteSetTheorems, TLAPS

-----------------------------------------------------------------------------
(* The helpers take servers to servers.                                    *)

LEMMA StartAcceptType ==
  ASSUME NEW s \in Servers
  PROVE  StartAccept(s) \in Servers
<1>1. [f \in Families |-> s.waiting[f] + (IF f \in s.open THEN 1 ELSE 0)]
        \in [Families -> Nat]
  BY DEF Servers
<1> QED
  BY <1>1 DEF StartAccept, Servers

LEMMA AcceptedType ==
  ASSUME NEW s \in Servers
  PROVE  Accepted(s) \in Servers
<1>1. s.handled + 1 \in Nat
  BY DEF Servers
<1>2. [s EXCEPT !.handled = s.handled + 1] \in Servers
  BY <1>1 DEF Servers
<1> QED
  BY <1>2, StartAcceptType DEF Accepted

LEMMA CloseServerType ==
  ASSUME NEW s \in Servers
  PROVE  CloseServer(s) \in Servers
  BY DEF CloseServer, Servers

LEMMA CloseServerFields ==
  ASSUME NEW s \in Servers
  PROVE  LET n == CloseServer(s)
         IN  /\ n.comms = {} /\ n.open = {} /\ n.ending = s.ending
             /\ n.waiting = [f \in Families |-> 0]
             /\ n.failures = s.failures /\ n.handled = s.handled
             /\ n.frame = s.frame /\ n.thrown = s.thrown
             /\ n.build = s.build /\ n.http = s.http /\ n.ups = s.ups
             /\ n.phase = s.phase /\ n.told = s.told
             /\ n.asked = s.asked /\ n.shutting_down = s.shutting_down
             /\ n.walk = s.walk /\ n.seen = s.seen
  BY DEF CloseServer, Servers

LEMMA ErasuresType ==
  ASSUME NEW s, NEW keys \in SUBSET Conns, NEW c \in Conns, NEW e \in Erasures(c, keys, s)
  PROVE  e \in SUBSET keys
  BY DEF Erasures

(* A thread goes on to the next stage of handling DISCONNECTED.            *)
LEMMA ToFacts ==
  ASSUME NEW s \in Servers, NEW c \in Conns, NEW r \in Runners, NEW stage \in Stages
  PROVE  LET n == To(c, r, stage, s)
         IN  /\ n \in Servers
             /\ n.build = s.build /\ n.open = s.open /\ n.waiting = s.waiting
             /\ n.failures = s.failures /\ n.handled = s.handled
             /\ n.http = s.http /\ n.comms = s.comms /\ n.phase = s.phase
             /\ n.frame = s.frame /\ n.ups = s.ups /\ n.told = s.told
             /\ n.asked = s.asked /\ n.shutting_down = s.shutting_down
             /\ n.walk = s.walk /\ n.seen = s.seen /\ n.thrown = s.thrown
             /\ \A d \in Conns, q \in Runners :
                  n.ending[d][q] = IF d = c /\ q = r THEN stage ELSE s.ending[d][q]
<1>1. [s.ending EXCEPT ![c][r] = stage] \in [Conns -> [Runners -> Stages]]
  BY DEF Servers
<1>2. \A d \in Conns, q \in Runners :
        [s.ending EXCEPT ![c][r] = stage][d][q]
          = IF d = c /\ q = r THEN stage ELSE s.ending[d][q]
  BY DEF Servers
<1> QED
  BY <1>1, <1>2 DEF To, Servers

LEMMA FindsType ==
  ASSUME NEW s \in Servers, NEW c \in Conns, NEW r \in Runners
  PROVE  Finds(c, r, s) \in Servers
  BY ToFacts DEF Finds, Stages

LEMMA TellAndEraseType ==
  ASSUME NEW s \in Servers, NEW c \in Conns
  PROVE  TellAndErase(c, s) \in Servers
<1>1. /\ [s.told EXCEPT ![c] = @ + 1] \in [Conns -> Nat]
      /\ s.http \ {c} \in SUBSET Conns
  BY DEF Servers
<1> QED
  BY <1>1 DEF TellAndErase, Servers

LEMMA DisconnectionsType ==
  ASSUME NEW s \in Servers, NEW c \in Conns, NEW n \in DisconnectionsAtOnce(c, s)
  PROVE  n \in Servers
<1> DEFINE t == IF c \in s.http THEN TellAndErase(c, s) ELSE s
           u == IF c \in s.http /\ LastGone(t) THEN CloseServer(t) ELSE t
<1>1. t \in Servers
  BY TellAndEraseType
<1>2. u \in Servers
  BY <1>1, CloseServerType
<1>3. PICK e \in Erasures(c, u.comms, u) : n = [u EXCEPT !.comms = e]
  BY DEF DisconnectionsAtOnce
<1> HIDE DEF t, u
<1>4. e \in SUBSET Conns
  BY <1>2, <1>3, ErasuresType DEF Servers
<1> QED
  BY <1>2, <1>3, <1>4 DEF Servers

LEMMA ReapType ==
  ASSUME NEW s \in Servers
  PROVE  Reap(s) \in Servers
<1>1. [c \in Conns |-> IF c \in Destroyed(s) THEN "over" ELSE s.phase[c]]
        \in [Conns -> Phases]
  BY DEF Servers, Phases
<1>2. /\ s.busy \ Destroyed(s) \in SUBSET Conns
      /\ s.leaving \ Destroyed(s) \in SUBSET Conns
      /\ s.shut \ Destroyed(s) \in SUBSET Conns
  BY DEF Servers
<1> QED
  BY <1>1, <1>2 DEF Reap, Servers

-----------------------------------------------------------------------------
(* The inductive invariant, of a server s after k calls.                   *)

(* The two collections, in the build "map".                                *)
Agreeing(s) ==
  ~Threads(s) => /\ \A c \in Conns, r \in Runners : s.ending[c][r] = "none"
                 /\ s.http = {c \in s.comms : s.phase[c] = "up" /\ c \in s.ups}

(* A connection in http_connections_ has been up and its end is told by    *)
(* threads that are about to erase it; one that is not there any more is   *)
(* told of, until the server closes.  The threads that handle one end      *)
(* count; one that finds its entry gone has told what another has told.    *)
Ends(s) ==
  /\ \A c \in Conns :
       /\ c \in s.http => c \in s.ups
       /\ c \notin s.ups => s.told[c] = 0
       /\ s.phase[c] \in {"none", "queued", "handshake"} => c \notin s.ups
       /\ s.told[c] > 1 => Threads(s)
       /\ c \in s.http /\ s.told[c] > 0 => \E r \in Runners : s.ending[c][r] = "told"
       /\ s.open # {} /\ c \in s.ups /\ c \notin s.http
            => s.told[c] > 0 \/ \E d \in Conns : s.told[d] > 1
  /\ \A c \in Conns, r \in Runners :
       /\ s.ending[c][r] \in {"found", "told"} => c \in s.ups
       /\ s.ending[c][r] = "told" => s.told[c] > 0
       /\ s.open # {} /\ c \notin s.http /\ s.ending[c][r] = "told"
            => \E d \in Conns : s.told[d] > 1
       /\ \A q \in Runners :
            q # r /\ s.ending[c][q] = "told" /\ s.ending[c][r] = "told" => s.told[c] > 1
  /\ s.open = {} => s.comms = {}

(* A thread between its erase and the server's close.                      *)
Testing(s) == \E c \in Conns, r \in Runners : s.ending[c][r] \in {"erased", "closing"}

(* What shutdown() has found, it notes; what it has seen when it starts to *)
(* walk, in the build "map" what it has found, closes with the last.       *)
Closes(s) ==
  /\ s.asked => s.shutting_down \/ s.walk = "checked"
  /\ s.walk # "idle" => s.asked
  /\ ~Threads(s) /\ s.walk \in {"checked", "noted"} => s.http # {}
  /\ s.asked /\ s.walk \notin {"checked", "noted"} /\ s.http = {}
       => s.open = {} \/ Testing(s) \/ (Threads(s) /\ s.seen = {})
  /\ \A c \in Conns, r \in Runners : s.ending[c][r] = "closing" => s.shutting_down

Queued(s)    == {c \in Conns : s.phase[c] = "queued"}
Accepting(s) == {c \in Conns : s.frame[c] = "accepting"}

Accepts(s) ==
  s.waiting["v6"] + s.waiting["v4"] + s.failures
    + Cardinality(Queued(s)) + Cardinality(Accepting(s))

Accounted(s) ==
  (s.open # {} /\ ~s.thrown) =>
    Accepts(s) = Cardinality(s.open) + s.handled * (Cardinality(s.open) - 1)

(* Before accept_connections; a server that was closed has been called.    *)
Fresh(s, k) ==
  /\ k = 0 /\ s.open = {} =>
       /\ s.ups = {} /\ s.waiting = [f \in Families |-> 0]
       /\ s.failures = 0 /\ s.handled = 0
       /\ Queued(s) = {} /\ Accepting(s) = {}
  /\ s.shutting_down \/ s.walk # "idle" => k > 0

Inv(s, k) ==
  s \in Servers /\ Agreeing(s) /\ Ends(s) /\ Closes(s) /\ Accounted(s) /\ Fresh(s, k)

(* The invariant depends on some of the fields only ...                    *)
SameCore(n, s) ==
  /\ n.build = s.build /\ n.open = s.open /\ n.waiting = s.waiting
  /\ n.failures = s.failures /\ n.handled = s.handled
  /\ n.http = s.http /\ n.comms = s.comms /\ n.phase = s.phase /\ n.frame = s.frame
  /\ n.ending = s.ending /\ n.ups = s.ups /\ n.told = s.told
  /\ n.asked = s.asked /\ n.shutting_down = s.shutting_down
  /\ n.walk = s.walk /\ n.seen = s.seen
  /\ n.thrown = s.thrown

LEMMA CoreInv ==
  ASSUME NEW k \in Nat, NEW s, Inv(s, k), NEW n \in Servers, SameCore(n, s)
  PROVE  Inv(n, k)
<1>1. Agreeing(n)
  BY DEF Inv, SameCore, Agreeing, Threads
<1>2. Ends(n)
  BY DEF Inv, SameCore, Ends, Threads
<1>3. Closes(n)
  BY DEF Inv, SameCore, Closes, Threads, Testing
<1>4. Accounted(n)
  BY DEF Inv, SameCore, Accounted, Accepts, Queued, Accepting
<1>5. Fresh(n, k)
  BY DEF Inv, SameCore, Fresh, Queued, Accepting
<1> QED
  BY <1>1, <1>2, <1>3, <1>4, <1>5 DEF Inv

(* ... and a further call does not disturb it.                             *)
LEMMA CalledInv ==
  ASSUME NEW k \in Nat, NEW s, Inv(s, k)
  PROVE  Inv(s, k + 1)
  BY DEF Inv, Fresh

(* Destroying connections that nothing holds.                              *)
LEMMA ReapInv ==
  ASSUME NEW k \in Nat, NEW s, Inv(s, k)
  PROVE  Inv(Reap(s), k)
<1> DEFINE r == Reap(s)
<1>1. s \in Servers
  BY DEF Inv
<1>2. /\ r \in Servers
      /\ r.build = s.build /\ r.open = s.open /\ r.waiting = s.waiting
      /\ r.failures = s.failures /\ r.handled = s.handled
      /\ r.http = s.http /\ r.comms = s.comms /\ r.frame = s.frame
      /\ r.ending = s.ending /\ r.ups = s.ups /\ r.told = s.told
      /\ r.asked = s.asked /\ r.shutting_down = s.shutting_down
      /\ r.walk = s.walk /\ r.seen = s.seen
      /\ r.thrown = s.thrown
  <2>1. r \in Servers
    BY <1>1, ReapType
  <2>2. PICK p, b, l, h : r = [s EXCEPT !.phase = p, !.busy = b, !.leaving = l, !.shut = h]
    BY Zenon DEF Reap
  <2> HIDE DEF r
  <2> QED
    BY <1>1, <2>1, <2>2 DEF Servers
<1>3. \A c \in Conns : \/ r.phase[c] = s.phase[c]
                       \/ /\ s.phase[c] \in {"handshake", "up"} /\ c \notin s.comms
                          /\ r.phase[c] = "over"
  BY <1>1 DEF Reap, Destroyed, Servers, Alive
<1> HIDE DEF r
<1>4. Queued(r) = Queued(s) /\ Accepting(r) = Accepting(s)
  BY <1>2, <1>3 DEF Queued, Accepting
<1>5. Agreeing(r)
  BY <1>1, <1>2, <1>3 DEF Inv, Agreeing, Threads, Servers
<1>6. Ends(r)
  BY <1>2, <1>3 DEF Inv, Ends, Threads
<1>7. Closes(r)
  BY <1>2 DEF Inv, Closes, Threads, Testing
<1>8. Accounted(r)
  BY <1>2, <1>4 DEF Inv, Accounted, Accepts
<1>9. Fresh(r, k)
  BY <1>2, <1>4 DEF Inv, Fresh
<1> QED
  BY <1>2, <1>5, <1>6, <1>7, <1>8, <1>9 DEF Inv, r

-----------------------------------------------------------------------------
(* DISCONNECTED: what it does to the collections, to the application's     *)
(* count and to the acceptors.                                             *)
Others(n, s) ==
  /\ n.build = s.build /\ n.failures = s.failures /\ n.handled = s.handled
  /\ n.phase = s.phase /\ n.frame = s.frame /\ n.ending = s.ending /\ n.ups = s.ups
  /\ n.asked = s.asked /\ n.shutting_down = s.shutting_down
  /\ n.walk = s.walk /\ n.seen = s.seen
  /\ n.thrown = s.thrown

Told(c, n, s) ==
  /\ n.http = s.http \ {c}
  /\ n.told = IF c \in s.http THEN [s.told EXCEPT ![c] = @ + 1] ELSE s.told

(* The server's close comes now (third case), or is still to come.         *)
IsLast(c, s) == s.shutting_down /\ s.http = {c}

LEMMA DisconnectionsFacts ==
  ASSUME NEW s \in Servers, NEW c \in Conns, NEW n \in DisconnectionsAtOnce(c, s), ~Threads(s)
  PROVE  /\ n \in Servers /\ Others(n, s) /\ Told(c, n, s)
         /\ \/ /\ IsLast(c, s)
               /\ n.open = {} /\ n.waiting = [f \in Families |-> 0] /\ n.comms = {}
            \/ /\ ~IsLast(c, s)
               /\ n.open = s.open /\ n.waiting = s.waiting /\ n.comms = s.comms \ {c}
<1> DEFINE t == IF c \in s.http THEN TellAndErase(c, s) ELSE s
           u == IF c \in s.http /\ LastGone(t) THEN CloseServer(t) ELSE t
<1>1. t \in Servers
  BY TellAndEraseType
<1>2. /\ Others(t, s) /\ Told(c, t, s)
      /\ t.open = s.open /\ t.waiting = s.waiting /\ t.comms = s.comms
  BY DEF TellAndErase, Others, Told, Servers
<1>3. c \in s.http /\ LastGone(t) <=> IsLast(c, s)
  BY <1>2 DEF LastGone, IsLast, Others, Told
<1>4. PICK e \in Erasures(c, u.comms, u) : n = [u EXCEPT !.comms = e]
  BY DEF DisconnectionsAtOnce
<1>5. n \in Servers
  BY DisconnectionsType
<1> HIDE DEF t
<1>6. u \in Servers /\ Others(u, s) /\ Told(c, u, s)
  <2>1. CloseServer(t) \in Servers /\ Others(CloseServer(t), s) /\ Told(c, CloseServer(t), s)
    BY <1>1, <1>2, CloseServerType, CloseServerFields DEF Others, Told
  <2> QED
    BY <1>1, <1>2, <2>1
<1>7. IF IsLast(c, s)
        THEN u.open = {} /\ u.waiting = [f \in Families |-> 0] /\ u.comms = {}
        ELSE u.open = s.open /\ u.waiting = s.waiting /\ u.comms = s.comms
  BY <1>1, <1>2, <1>3 DEF CloseServer, Servers
<1> HIDE DEF u
<1>8. e = u.comms \ {c}
  BY <1>4, <1>6 DEF Erasures, Threads, Others
<1>9. /\ Others(n, u) /\ n.http = u.http /\ n.told = u.told
      /\ n.open = u.open /\ n.waiting = u.waiting /\ n.comms = e
  BY <1>4, <1>5, <1>6 DEF Others, Servers
<1>10. Others(n, s) /\ Told(c, n, s)
  BY <1>6, <1>9 DEF Others, Told
<1> QED
  BY <1>5, <1>7, <1>8, <1>9, <1>10

LEMMA AtOnceInv ==
  ASSUME NEW k \in Nat, NEW s, Inv(s, k), NEW c \in Conns,
         NEW n \in DisconnectionsAtOnce(c, s), ~Threads(s), s.walk \notin {"checked", "noted"}
  PROVE  Inv(n, k)
<1>1. s \in Servers
  BY DEF Inv
<1>2. /\ n \in Servers /\ Others(n, s) /\ Told(c, n, s)
      /\ \/ /\ IsLast(c, s)
            /\ n.open = {} /\ n.waiting = [f \in Families |-> 0] /\ n.comms = {}
         \/ /\ ~IsLast(c, s)
            /\ n.open = s.open /\ n.waiting = s.waiting /\ n.comms = s.comms \ {c}
  BY <1>1, DisconnectionsFacts
<1>3. n.open = {} \/ (n.open = s.open /\ n.waiting = s.waiting)
  BY <1>2
<1>4. Queued(n) = Queued(s) /\ Accepting(n) = Accepting(s)
  BY <1>2 DEF Others, Queued, Accepting
<1>10. /\ \A d \in Conns, r \in Runners : s.ending[d][r] = "none"
       /\ s.http = {d \in s.comms : s.phase[d] = "up" /\ d \in s.ups}
  BY DEF Inv, Agreeing
<1>11. n.ending = s.ending /\ Threads(n) = Threads(s)
  BY <1>2 DEF Others, Threads
<1>5. Agreeing(n)
  <2>1. CASE IsLast(c, s)
    <3>1. n.http = {} /\ n.comms = {}
      BY <1>2, <2>1 DEF IsLast, Told
    <3> QED
      BY <1>10, <1>11, <3>1 DEF Agreeing
  <2>2. CASE ~IsLast(c, s)
    BY <1>2, <1>10, <1>11, <2>2 DEF Told, Others, Agreeing
  <2> QED
    BY <2>1, <2>2
<1>6. Ends(n)
  <2>1. \A d \in Conns : d # c => n.told[d] = s.told[d]
    BY <1>1, <1>2 DEF Told, Servers
  <2>2. n.told[c] = IF c \in s.http THEN s.told[c] + 1 ELSE s.told[c]
    BY <1>1, <1>2 DEF Told, Servers
  <2>3. n.http = s.http \ {c} /\ n.ups = s.ups /\ n.phase = s.phase
    BY <1>2 DEF Told, Others
  <2>4. n.open = {} => n.comms = {}
    BY <1>2 DEF Inv, Ends
  <2>5. n.open # {} => s.open # {}
    BY <1>3
  <2>6. \A d \in Conns : s.told[d] \in Nat /\ s.told[d] <= 1 /\ (d \in s.http => s.told[d] = 0)
    BY <1>1, <1>10 DEF Inv, Ends, Servers
  <2>7. \A d \in Conns : n.told[d] <= 1 /\ (d \in n.http => n.told[d] = 0)
    BY <2>1, <2>2, <2>3, <2>6
  <2>8. \A d \in Conns :
          /\ d \in n.http => d \in n.ups
          /\ d \notin n.ups => n.told[d] = 0
          /\ n.phase[d] \in {"none", "queued", "handshake"} => d \notin n.ups
    BY <2>1, <2>2, <2>3 DEF Inv, Ends
  <2>9. \A d \in Conns : n.open # {} /\ d \in n.ups /\ d \notin n.http => n.told[d] > 0
    BY <2>1, <2>2, <2>3, <2>5, <2>6 DEF Inv, Ends
  <2>10. \A d \in Conns, r \in Runners : n.ending[d][r] = "none"
    BY <1>10, <1>11
  <2>11. \A d \in Conns : ~(n.told[d] > 1) /\ ~(d \in n.http /\ n.told[d] > 0)
    BY <2>7, <1>2 DEF Servers
  <2> QED
    BY <2>4, <2>8, <2>9, <2>10, <2>11 DEF Ends
<1>7. Closes(n)
  <2>1. /\ n.asked = s.asked /\ n.seen = s.seen /\ n.shutting_down = s.shutting_down
        /\ n.walk = s.walk /\ n.http = s.http \ {c}
    BY <1>2 DEF Others, Told
  <2>2. ASSUME n.asked, n.walk \notin {"checked", "noted"}, n.http = {}
        PROVE  n.open = {}
    <3>1. s.shutting_down
      BY <2>1, <2>2 DEF Inv, Closes
    <3>2. CASE s.http = {}
      <4>1. ~Testing(s)
        BY <1>10 DEF Testing
      <4>2. s.open = {}
        BY <2>1, <2>2, <3>2, <4>1 DEF Inv, Closes
      <4> QED
        BY <1>3, <4>2
    <3>3. CASE s.http # {}
      <4>1. IsLast(c, s)
        BY <2>1, <2>2, <3>1, <3>3 DEF IsLast
      <4> QED
        BY <1>2, <4>1
    <3> QED
      BY <3>2, <3>3
  <2>3. \A d \in Conns, r \in Runners : n.ending[d][r] # "closing"
    BY <1>10, <1>11
  <2> QED
    BY <2>1, <2>2, <2>3 DEF Inv, Closes
<1>8. Accounted(n)
  <2>1. Accepts(n) = Accepts(s) \/ n.open = {}
    BY <1>2, <1>3, <1>4 DEF Accepts, Others
  <2>2. n.thrown = s.thrown /\ n.handled = s.handled
    BY <1>2 DEF Others
  <2> QED
    BY <1>3, <2>1, <2>2 DEF Inv, Accounted
<1>9. Fresh(n, k)
  <2>1. IsLast(c, s) => k > 0
    BY DEF IsLast, Inv, Closes, Fresh
  <2> QED
    BY <1>2, <1>4, <2>1 DEF Inv, Fresh, Others
<1> QED
  BY <1>2, <1>5, <1>6, <1>7, <1>8, <1>9 DEF Inv

(* A thread starts to handle DISCONNECTED, in the build "hash_map".        *)
LEMMA FindsInv ==
  ASSUME NEW k \in Nat, NEW s, Inv(s, k), NEW c \in Conns, NEW r \in Runners,
         Threads(s), s.ending[c][r] = "none"
  PROVE  Inv(Finds(c, r, s), k)
<1> DEFINE stage == IF c \in s.http THEN "found" ELSE "returned"
           n == To(c, r, stage, s)
<1>1. s \in Servers /\ stage \in Stages /\ n = Finds(c, r, s)
  BY DEF Inv, Stages, Finds
<1>2. /\ n \in Servers
      /\ n.build = s.build /\ n.open = s.open /\ n.waiting = s.waiting
      /\ n.failures = s.failures /\ n.handled = s.handled
      /\ n.http = s.http /\ n.comms = s.comms /\ n.phase = s.phase
      /\ n.frame = s.frame /\ n.ups = s.ups /\ n.told = s.told
      /\ n.asked = s.asked /\ n.shutting_down = s.shutting_down
      /\ n.walk = s.walk /\ n.seen = s.seen /\ n.thrown = s.thrown
      /\ \A d \in Conns, q \in Runners :
           n.ending[d][q] = IF d = c /\ q = r THEN stage ELSE s.ending[d][q]
  BY <1>1, ToFacts
<1>3. /\ stage # "told" /\ stage # "erased" /\ stage # "closing"
      /\ stage = "found" => c \in s.http
  OBVIOUS
<1> HIDE DEF stage, n
<1>4. Queued(n) = Queued(s) /\ Accepting(n) = Accepting(s)
  BY <1>2 DEF Queued, Accepting
<1>5. Agreeing(n)
  BY <1>2 DEF Agreeing, Threads
<1>6. Ends(n)
  <2>1. \A d \in Conns, q \in Runners :
          /\ n.ending[d][q] = "told" <=> s.ending[d][q] = "told"
          /\ n.ending[d][q] = "found" => s.ending[d][q] = "found" \/ d \in s.http
    BY <1>2, <1>3
  <2>2. \A d \in Conns : d \in n.http /\ n.told[d] > 0
                             => \E q \in Runners : n.ending[d][q] = "told"
    BY <1>2, <2>1 DEF Inv, Ends
  <2>3. \A d \in Conns, q \in Runners :
          /\ n.ending[d][q] \in {"found", "told"} => d \in n.ups
          /\ n.ending[d][q] = "told" => n.told[d] > 0
          /\ n.open # {} /\ d \notin n.http /\ n.ending[d][q] = "told"
               => \E e \in Conns : n.told[e] > 1
          /\ \A p \in Runners :
               p # q /\ n.ending[d][p] = "told" /\ n.ending[d][q] = "told" => n.told[d] > 1
    BY <1>2, <2>1 DEF Inv, Ends
  <2>4. Threads(n)
    BY <1>2 DEF Threads
  <2> QED
    BY <1>2, <2>2, <2>3, <2>4 DEF Inv, Ends
<1>7. Closes(n)
  <2>1. Testing(s) => Testing(n)
    BY <1>2 DEF Testing
  <2>2. \A d \in Conns, q \in Runners : n.ending[d][q] = "closing" => s.ending[d][q] = "closing"
    BY <1>2, <1>3
  <2> QED
    BY <1>2, <2>1, <2>2 DEF Inv, Closes, Threads
<1>8. Accounted(n)
  BY <1>2, <1>4 DEF Inv, Accounted, Accepts
<1>9. Fresh(n, k)
  BY <1>2, <1>4 DEF Inv, Fresh
<1> QED
  BY <1>1, <1>2, <1>5, <1>6, <1>7, <1>8, <1>9 DEF Inv

(* Thread r can handle DISCONNECTED of c: it is not doing so already, and  *)
(* without other threads shutdown() is not on its way to its loop.         *)
Free(c, r, s) ==
  s.ending[c][r] = "none" /\ (Threads(s) \/ s.walk \notin {"checked", "noted"})

LEMMA DisconnectionsInv ==
  ASSUME NEW k \in Nat, NEW s, Inv(s, k), NEW c \in Conns, NEW r \in Runners,
         Free(c, r, s), NEW n \in Disconnections(c, r, s)
  PROVE  Inv(n, k)
<1>1. CASE Threads(s)
  BY <1>1, FindsInv DEF Disconnections, Free
<1>2. CASE ~Threads(s)
  BY <1>2, AtOnceInv DEF Disconnections, Free
<1> QED
  BY <1>1, <1>2

LEMMA ShutdownsInv ==
  ASSUME NEW k \in Nat, NEW s, Inv(s, k), NEW c \in Conns, NEW r \in Runners,
         Free(c, r, s), NEW n \in Shutdowns(c, r, s)
  PROVE  Inv(n, k)
<1> DEFINE t == [s EXCEPT !.shut = @ \cup {c}]
<1>1. s \in Servers
  BY DEF Inv
<1>2. t \in Servers /\ SameCore(t, s)
  BY <1>1 DEF SameCore, Servers
<1>3. n = t \/ n \in Disconnections(c, r, t)
  BY DEF Shutdowns
<1> HIDE DEF t
<1>4. Inv(t, k)
  BY <1>2, CoreInv
<1>5. Free(c, r, t)
  BY <1>2 DEF SameCore, Free, Threads
<1> QED
  BY <1>3, <1>4, <1>5, DisconnectionsInv

LEMMA DisconnectsInv ==
  ASSUME NEW k \in Nat, NEW s, Inv(s, k), NEW c \in Conns, NEW r \in Runners,
         Free(c, r, s), NEW n \in Disconnects(c, r, s)
  PROVE  Inv(n, k)
<1> DEFINE t == [s EXCEPT !.undefined = TRUE]
           u == [s EXCEPT !.leaving = @ \cup {c}]
<1>1. s \in Servers
  BY DEF Inv
<1>2. t \in Servers /\ SameCore(t, s) /\ u \in Servers /\ SameCore(u, s)
  BY <1>1 DEF SameCore, Servers
<1>3. Inv(t, k) /\ Inv(u, k)
  BY <1>2, CoreInv
<1> QED
  BY <1>3, ShutdownsInv DEF Disconnects

-----------------------------------------------------------------------------
(* Counting accepts.                                                       *)
LEMMA CountFacts ==
  ASSUME NEW s \in Servers
  PROVE  /\ IsFiniteSet(Queued(s)) /\ Cardinality(Queued(s)) \in Nat
         /\ IsFiniteSet(Accepting(s)) /\ Cardinality(Accepting(s)) \in Nat
         /\ s.waiting["v6"] \in Nat /\ s.waiting["v4"] \in Nat
         /\ s.failures \in Nat /\ s.handled \in Nat
<1>1. Queued(s) \subseteq Conns /\ Accepting(s) \subseteq Conns
  BY DEF Queued, Accepting
<1>2. IsFiniteSet(Queued(s)) /\ IsFiniteSet(Accepting(s))
  BY <1>1, ConnsAssumption, FS_Subset
<1> QED
  BY <1>2, FS_CardinalityType DEF Servers, Families

LEMMA OpenFacts ==
  ASSUME NEW S \in SUBSET Families
  PROVE  Cardinality(S) = (IF "v6" \in S THEN 1 ELSE 0) + (IF "v4" \in S THEN 1 ELSE 0)
<1>1. \/ S = {} \/ S = {"v6"} \/ S = {"v4"} \/ S = {"v6", "v4"}
  BY DEF Families
<1>2. Cardinality({}) = 0
  BY FS_EmptySet
<1>3. Cardinality({"v6"}) = 1 /\ Cardinality({"v4"}) = 1
  BY FS_Singleton
<1>4. {"v6", "v4"} = {"v6"} \cup {"v4"} /\ "v4" \notin {"v6"} /\ IsFiniteSet({"v6"})
  BY FS_Singleton
<1>5. Cardinality({"v6", "v4"}) = 2
  BY <1>3, <1>4, FS_AddElement
<1>6. CASE S = {}
  BY <1>2, <1>6
<1>7. CASE S = {"v6"}
  BY <1>3, <1>7
<1>8. CASE S = {"v4"}
  BY <1>3, <1>8
<1>9. CASE S = {"v6", "v4"}
  BY <1>5, <1>9
<1> QED
  BY <1>1, <1>6, <1>7, <1>8, <1>9

(* One accept short: a client has come through, start_accept is due.       *)
Owing(s) ==
  (s.open # {} /\ ~s.thrown) =>
    Accepts(s) + 1 = Cardinality(s.open) + s.handled * (Cardinality(s.open) - 1)

LEMMA AcceptedInv ==
  ASSUME NEW k \in Nat, NEW s \in Servers,
         Agreeing(s), Ends(s), Closes(s), Owing(s), Fresh(s, k), s.open = {} => k > 0
  PROVE  Inv(Accepted(s), k)
<1> DEFINE n == Accepted(s)
<1>1. /\ n \in Servers /\ n.handled = s.handled + 1
      /\ n.waiting = [f \in Families |-> s.waiting[f] + (IF f \in s.open THEN 1 ELSE 0)]
      /\ n.build = s.build /\ n.open = s.open /\ n.failures = s.failures
      /\ n.http = s.http /\ n.comms = s.comms /\ n.phase = s.phase /\ n.frame = s.frame
      /\ n.ending = s.ending /\ n.ups = s.ups /\ n.told = s.told
      /\ n.asked = s.asked /\ n.shutting_down = s.shutting_down
      /\ n.walk = s.walk /\ n.seen = s.seen
      /\ n.thrown = s.thrown
  <2> DEFINE t == [s EXCEPT !.handled = @ + 1]
  <2>1. /\ t \in Servers /\ t.handled = s.handled + 1 /\ t.waiting = s.waiting
        /\ t.build = s.build /\ t.open = s.open /\ t.failures = s.failures
        /\ t.http = s.http /\ t.comms = s.comms /\ t.phase = s.phase /\ t.frame = s.frame
        /\ t.ending = s.ending /\ t.ups = s.ups /\ t.told = s.told
        /\ t.asked = s.asked /\ t.shutting_down = s.shutting_down
        /\ t.walk = s.walk /\ t.seen = s.seen
        /\ t.thrown = s.thrown
    <3>1. s.handled + 1 \in Nat
      BY DEF Servers
    <3> QED
      BY <3>1 DEF Servers
  <2>2. n = [t EXCEPT !.waiting = [f \in Families |->
                 @[f] + (IF f \in t.open THEN 1 ELSE 0)]]
    BY DEF Accepted, StartAccept
  <2>3. n \in Servers
    BY AcceptedType
  <2> HIDE DEF t, n
  <2>4. n.waiting = [f \in Families |-> s.waiting[f] + (IF f \in s.open THEN 1 ELSE 0)]
    BY <2>1, <2>2 DEF Servers
  <2>5. /\ n.handled = t.handled /\ n.build = t.build /\ n.open = t.open
        /\ n.failures = t.failures /\ n.http = t.http /\ n.comms = t.comms
        /\ n.phase = t.phase /\ n.frame = t.frame /\ n.ending = t.ending
        /\ n.ups = t.ups /\ n.told = t.told /\ n.asked = t.asked
        /\ n.shutting_down = t.shutting_down /\ n.walk = t.walk /\ n.seen = t.seen
        /\ n.thrown = t.thrown
    BY <2>1, <2>2 DEF Servers
  <2> QED
    BY <2>1, <2>3, <2>4, <2>5
<1> HIDE DEF n
<1>2. Queued(n) = Queued(s) /\ Accepting(n) = Accepting(s)
  BY <1>1 DEF Queued, Accepting
<1>3. s.open \in SUBSET Families
  BY DEF Servers
<1>4. n.waiting["v6"] + n.waiting["v4"]
        = s.waiting["v6"] + s.waiting["v4"] + Cardinality(s.open)
  <2>1. /\ n.waiting["v6"] = s.waiting["v6"] + (IF "v6" \in s.open THEN 1 ELSE 0)
        /\ n.waiting["v4"] = s.waiting["v4"] + (IF "v4" \in s.open THEN 1 ELSE 0)
    BY <1>1 DEF Families
  <2> QED
    BY <2>1, <1>3, OpenFacts, CountFacts
<1>5. Accounted(n)
  <2>1. SUFFICES ASSUME s.open # {}, ~s.thrown
                 PROVE  Accepts(n) = Cardinality(s.open)
                                       + (s.handled + 1) * (Cardinality(s.open) - 1)
    BY <1>1 DEF Accounted
  <2>2. Cardinality(s.open) \in {1, 2}
    BY <1>3, <2>1, OpenFacts DEF Families
  <2>3. Accepts(n) = Accepts(s) + Cardinality(s.open)
    BY <1>1, <1>2, <1>4, <2>2, CountFacts DEF Accepts
  <2>4. Accepts(s) \in Nat /\ s.handled \in Nat
    BY CountFacts DEF Accepts
  <2>5. Accepts(s) + 1 = Cardinality(s.open) + s.handled * (Cardinality(s.open) - 1)
    BY <2>1 DEF Owing
  <2> HIDE DEF n
  <2>6. CASE Cardinality(s.open) = 1
    BY <2>3, <2>4, <2>5, <2>6
  <2>7. CASE Cardinality(s.open) = 2
    BY <2>3, <2>4, <2>5, <2>7
  <2> QED
    BY <2>2, <2>6, <2>7
<1>6. Agreeing(n)
  BY <1>1 DEF Agreeing, Threads
<1>7. Ends(n)
  BY <1>1 DEF Ends, Threads
<1>8. Closes(n)
  BY <1>1 DEF Closes, Threads, Testing
<1>9. Fresh(n, k)
  BY <1>1 DEF Fresh
<1> QED
  BY <1>1, <1>5, <1>6, <1>7, <1>8, <1>9 DEF Inv, n

(* A handler of c starts a callback that is not part of an accept, or      *)
(* leaves one.                                                             *)
SameButFrame(c, n, s) ==
  /\ \A d \in Conns : d # c => n.frame[d] = s.frame[d]
  /\ n.build = s.build /\ n.open = s.open /\ n.waiting = s.waiting
  /\ n.failures = s.failures /\ n.handled = s.handled
  /\ n.http = s.http /\ n.comms = s.comms /\ n.phase = s.phase
  /\ n.ending = s.ending /\ n.ups = s.ups /\ n.told = s.told
  /\ n.asked = s.asked /\ n.shutting_down = s.shutting_down
  /\ n.walk = s.walk /\ n.seen = s.seen
  /\ n.thrown = s.thrown

LEMMA FrameInv ==
  ASSUME NEW k \in Nat, NEW s, Inv(s, k), NEW c \in Conns, NEW n \in Servers,
         s.frame[c] # "accepting", n.frame[c] # "accepting", SameButFrame(c, n, s)
  PROVE  Inv(n, k)
<1>2. Queued(n) = Queued(s) /\ Accepting(n) = Accepting(s)
  BY DEF Queued, Accepting, SameButFrame
<1>3. Agreeing(n)
  BY DEF Inv, Agreeing, Threads, SameButFrame
<1>4. Ends(n)
  BY DEF Inv, Ends, SameButFrame, Threads
<1>5. Closes(n)
  BY DEF Inv, Closes, SameButFrame, Threads, Testing
<1>6. Accounted(n)
  BY <1>2 DEF Inv, Accounted, Accepts, SameButFrame
<1>7. Fresh(n, k)
  BY <1>2 DEF Inv, Fresh, SameButFrame
<1> QED
  BY <1>3, <1>4, <1>5, <1>6, <1>7 DEF Inv

-----------------------------------------------------------------------------
(* The actions.                                                            *)
LEMMA AcceptConnectionsStep ==
  ASSUME calls \in Nat, Inv(srv, calls), NEW fams \in Acceptors, AcceptConnections(fams)
  PROVE  Inv(srv', calls')
<1>1. /\ fams \in SUBSET Families /\ fams # {}
      /\ srv \in Servers /\ srv.open = {} /\ calls = 0 /\ calls' = 0
  BY AcceptorsAssumption DEF AcceptConnections, Does, Inv
<1>2. [srv EXCEPT !.open = fams] \in Servers
  BY <1>1 DEF Servers
<1>3. srv' \in Servers
  BY <1>2, StartAcceptType DEF AcceptConnections, Does
<1>10. /\ srv'.open = fams
       /\ srv'.waiting = [f \in Families |-> srv.waiting[f] + (IF f \in fams THEN 1 ELSE 0)]
  <2>1. srv' = StartAccept([srv EXCEPT !.open = fams])
    BY DEF AcceptConnections, Does
  <2> QED
    BY <1>1, <1>2, <2>1 DEF StartAccept, Servers
<1>11. /\ srv'.build = srv.build /\ srv'.failures = srv.failures
       /\ srv'.handled = srv.handled /\ srv'.http = srv.http /\ srv'.comms = srv.comms
       /\ srv'.phase = srv.phase /\ srv'.frame = srv.frame /\ srv'.ending = srv.ending
       /\ srv'.ups = srv.ups /\ srv'.told = srv.told
       /\ srv'.asked = srv.asked /\ srv'.shutting_down = srv.shutting_down
       /\ srv'.walk = srv.walk
       /\ srv'.seen = srv.seen
  BY <1>1, <1>2 DEF AcceptConnections, Does, StartAccept, Servers
<1>4. /\ srv.ups = {} /\ srv.waiting = [f \in Families |-> 0]
      /\ srv.failures = 0 /\ srv.handled = 0 /\ Queued(srv) = {} /\ Accepting(srv) = {}
      /\ ~srv.shutting_down /\ srv.walk = "idle"
  BY <1>1 DEF Inv, Fresh
<1>5. Accounted(srv')
  <2>1. Queued(srv') = {} /\ Accepting(srv') = {}
    BY <1>3, <1>10, <1>11, <1>4 DEF Queued, Accepting
  <2>2. Cardinality({}) = 0
    BY FS_EmptySet
  <2>3. srv'.waiting["v6"] + srv'.waiting["v4"] = Cardinality(fams) /\ Cardinality(fams) \in Nat
    BY <1>1, <1>3, <1>10, <1>11, <1>4, OpenFacts DEF Families
  <2>4. Accepts(srv') = Cardinality(fams)
    BY <1>3, <1>10, <1>11, <1>4, <2>1, <2>2, <2>3 DEF Accepts
  <2> QED
    BY <1>3, <1>10, <1>11, <1>4, <2>3, <2>4 DEF Accounted
<1>6. Agreeing(srv')
  BY <1>3, <1>10, <1>11 DEF Inv, Agreeing, Threads
<1>7. Ends(srv')
  BY <1>1, <1>3, <1>10, <1>11, <1>4 DEF Inv, Ends
<1>8. Closes(srv')
  BY <1>3, <1>10, <1>11, <1>4 DEF Inv, Closes
<1>9. Fresh(srv', calls')
  BY <1>1, <1>3, <1>10, <1>11, <1>4 DEF Fresh
<1> QED
  BY <1>3, <1>10, <1>11, <1>5, <1>6, <1>7, <1>8, <1>9 DEF Inv

LEMMA ArrivesStep ==
  ASSUME calls \in Nat, Inv(srv, calls),
         NEW f \in Families, NEW c \in Conns, Arrives(f, c)
  PROVE  Inv(srv', calls')
<1>1. /\ srv \in Servers /\ srv.waiting[f] > 0 /\ srv.phase[c] = "none" /\ calls' = calls
      /\ srv' = [srv EXCEPT !.waiting[f] = @ - 1, !.phase[c] = "queued"]
  BY DEF Arrives, Does, Inv
<1>2. /\ [srv.waiting EXCEPT ![f] = @ - 1] \in [Families -> Nat]
      /\ [srv.phase EXCEPT ![c] = "queued"] \in [Conns -> Phases]
  BY <1>1 DEF Servers, Phases
<1>3. /\ srv' \in Servers
      /\ srv'.waiting = [srv.waiting EXCEPT ![f] = @ - 1]
      /\ srv'.phase = [srv.phase EXCEPT ![c] = "queued"]
      /\ srv'.open = srv.open /\ srv'.build = srv.build /\ srv'.failures = srv.failures
      /\ srv'.handled = srv.handled /\ srv'.http = srv.http /\ srv'.comms = srv.comms
      /\ srv'.frame = srv.frame /\ srv'.ending = srv.ending
      /\ srv'.ups = srv.ups /\ srv'.told = srv.told
      /\ srv'.asked = srv.asked /\ srv'.shutting_down = srv.shutting_down
      /\ srv'.walk = srv.walk
      /\ srv'.seen = srv.seen /\ srv'.thrown = srv.thrown
  BY <1>1, <1>2 DEF Servers
<1>4. /\ \A d \in Conns : srv'.phase[d] = IF d = c THEN "queued" ELSE srv.phase[d]
      /\ \A g \in Families : srv'.waiting[g] = IF g = f THEN srv.waiting[g] - 1
                                               ELSE srv.waiting[g]
  BY <1>1, <1>3 DEF Servers
<1>5. Queued(srv') = Queued(srv) \cup {c} /\ c \notin Queued(srv)
      /\ Accepting(srv') = Accepting(srv)
  BY <1>1, <1>3, <1>4 DEF Queued, Accepting
<1>6. Accounted(srv')
  <2>1. Cardinality(Queued(srv')) = Cardinality(Queued(srv)) + 1
    BY <1>1, <1>5, CountFacts, FS_AddElement
  <2>2. srv'.waiting["v6"] + srv'.waiting["v4"] = srv.waiting["v6"] + srv.waiting["v4"] - 1
    BY <1>1, <1>4, CountFacts DEF Families
  <2>3. /\ Cardinality(Queued(srv)) \in Nat /\ Cardinality(Accepting(srv)) \in Nat
        /\ srv.waiting["v6"] \in Nat /\ srv.waiting["v4"] \in Nat /\ srv.failures \in Nat
    BY <1>1, CountFacts
  <2>4. /\ srv'.waiting["v6"] \in Nat /\ srv'.waiting["v4"] \in Nat
    BY <1>3, CountFacts
  <2>5. Accepts(srv') = Accepts(srv)
    BY <1>3, <1>5, <2>1, <2>2, <2>3, <2>4 DEF Accepts
  <2> QED
    BY <1>3, <2>5 DEF Inv, Accounted
<1>7. Agreeing(srv')
  BY <1>1, <1>3, <1>4 DEF Inv, Agreeing, Threads, Servers
<1>8. Ends(srv')
  BY <1>1, <1>3, <1>4 DEF Inv, Ends, Threads
<1>9. Closes(srv')
  BY <1>3 DEF Inv, Closes, Threads, Testing
<1>10. Fresh(srv', calls')
  BY <1>1, <1>3 DEF Inv, Fresh
<1> QED
  BY <1>3, <1>6, <1>7, <1>8, <1>9, <1>10 DEF Inv

LEMMA AcceptFailsStep ==
  ASSUME calls \in Nat, Inv(srv, calls), NEW f \in Families, AcceptFails(f)
  PROVE  Inv(srv', calls')
<1>1. /\ srv \in Servers /\ srv.waiting[f] > 0 /\ calls' = calls + 1
      /\ srv' = [srv EXCEPT !.waiting[f] = @ - 1, !.failures = @ + 1]
  BY DEF AcceptFails, Called, Inv
<1>2. [srv.waiting EXCEPT ![f] = @ - 1] \in [Families -> Nat] /\ srv.failures + 1 \in Nat
  BY <1>1 DEF Servers
<1>3. /\ srv' \in Servers
      /\ srv'.waiting = [srv.waiting EXCEPT ![f] = @ - 1]
      /\ srv'.failures = srv.failures + 1 /\ srv'.phase = srv.phase
      /\ srv'.open = srv.open /\ srv'.build = srv.build
      /\ srv'.handled = srv.handled /\ srv'.http = srv.http /\ srv'.comms = srv.comms
      /\ srv'.frame = srv.frame /\ srv'.ending = srv.ending
      /\ srv'.ups = srv.ups /\ srv'.told = srv.told
      /\ srv'.asked = srv.asked /\ srv'.shutting_down = srv.shutting_down
      /\ srv'.walk = srv.walk
      /\ srv'.seen = srv.seen /\ srv'.thrown = srv.thrown
  BY <1>1, <1>2 DEF Servers
<1>4. Queued(srv') = Queued(srv) /\ Accepting(srv') = Accepting(srv)
  BY <1>3 DEF Queued, Accepting
<1>5. Accounted(srv')
  <2>1. \A g \in Families : srv'.waiting[g] = IF g = f THEN srv.waiting[g] - 1
                                               ELSE srv.waiting[g]
    BY <1>1, <1>3 DEF Servers
  <2>2. srv'.waiting["v6"] + srv'.waiting["v4"] = srv.waiting["v6"] + srv.waiting["v4"] - 1
    BY <1>1, <2>1, CountFacts DEF Families
  <2>3. /\ Cardinality(Queued(srv)) \in Nat /\ Cardinality(Accepting(srv)) \in Nat
        /\ srv.waiting["v6"] \in Nat /\ srv.waiting["v4"] \in Nat /\ srv.failures \in Nat
        /\ srv'.waiting["v6"] \in Nat /\ srv'.waiting["v4"] \in Nat
    BY <1>1, <1>3, CountFacts
  <2>4. Accepts(srv') = Accepts(srv)
    BY <1>3, <1>4, <2>2, <2>3 DEF Accepts
  <2> QED
    BY <1>3, <2>4 DEF Inv, Accounted
<1>6. Agreeing(srv')
  BY <1>3 DEF Inv, Agreeing, Threads
<1>7. Ends(srv')
  BY <1>3 DEF Inv, Ends, Threads
<1>8. Closes(srv')
  BY <1>3 DEF Inv, Closes, Threads, Testing
<1>9. Fresh(srv', calls')
  BY <1>1 DEF Fresh
<1> QED
  BY <1>3, <1>5, <1>6, <1>7, <1>8, <1>9 DEF Inv

LEMMA AcceptErrorStep ==
  ASSUME calls \in Nat, Inv(srv, calls), AcceptError
  PROVE  Inv(srv', calls')
<1> DEFINE s == [srv EXCEPT !.failures = @ - 1]
<1>0. \A a \in Nat : a > 0 => a - 1 \in Nat
  OBVIOUS
<1>1. /\ srv \in Servers /\ srv.failures > 0 /\ srv.failures - 1 \in Nat /\ calls' = calls
      /\ srv' = (IF s.open = {} THEN s ELSE Accepted(s))
  BY <1>0 DEF AcceptError, Does, Inv, IgnoredAfterClose, Servers
<1>2. /\ s \in Servers /\ s.failures = srv.failures - 1
      /\ s.build = srv.build /\ s.open = srv.open /\ s.waiting = srv.waiting
      /\ s.handled = srv.handled /\ s.http = srv.http /\ s.comms = srv.comms
      /\ s.phase = srv.phase /\ s.frame = srv.frame /\ s.ending = srv.ending
      /\ s.ups = srv.ups /\ s.told = srv.told
      /\ s.asked = srv.asked /\ s.shutting_down = srv.shutting_down
      /\ s.walk = srv.walk
      /\ s.seen = srv.seen /\ s.thrown = srv.thrown
  BY <1>1 DEF Servers
<1> HIDE DEF s
<1>3. Agreeing(s)
  BY <1>2 DEF Inv, Agreeing, Threads
<1>4. Ends(s)
  BY <1>2 DEF Inv, Ends, Threads
<1>5. Closes(s)
  BY <1>2 DEF Inv, Closes, Threads, Testing
<1>6. s.open = {} => calls > 0
  BY <1>1, <1>2 DEF Inv, Fresh
<1>7. Fresh(s, calls)
  BY <1>2, <1>6 DEF Inv, Fresh
<1>8. Owing(s)
  <2>1. Queued(s) = Queued(srv) /\ Accepting(s) = Accepting(srv)
    BY <1>2 DEF Queued, Accepting
  <2>2. Accepts(s) + 1 = Accepts(srv)
    BY <1>1, <1>2, <2>1, CountFacts DEF Accepts
  <2> QED
    BY <1>2, <2>2 DEF Inv, Accounted, Owing
<1>9. CASE s.open = {}
  BY <1>1, <1>2, <1>3, <1>4, <1>5, <1>7, <1>9 DEF Inv, Accounted
<1>10. CASE s.open # {}
  BY <1>1, <1>2, <1>3, <1>4, <1>5, <1>6, <1>7, <1>8, <1>10, AcceptedInv
<1> QED
  BY <1>9, <1>10

LeavesQueue(c, n, s) ==
  /\ s.phase[c] = "queued" /\ n.phase[c] # "queued"
  /\ \A d \in Conns : d # c => n.phase[d] = s.phase[d]
  /\ n.failures = s.failures /\ n.waiting = s.waiting

(* What a connection leaves when its accept handler takes it from the      *)
(* queue: the counts are one short, and nobody has been told of it.        *)
LEMMA FromQueue ==
  ASSUME NEW k \in Nat, NEW s, Inv(s, k), NEW c \in Conns, NEW n \in Servers,
         LeavesQueue(c, n, s)
  PROVE  /\ Queued(n) = Queued(s) \ {c}
         /\ Accepting(n) = Accepting(s) => Accepts(n) + 1 = Accepts(s)
         /\ Accepting(n) = Accepting(s) \cup {c} /\ c \notin Accepting(s)
              => Accepts(n) = Accepts(s)
         /\ c \notin s.http /\ c \notin s.ups /\ s.told[c] = 0
         /\ s.open = {} => k > 0
<1>1. s \in Servers
  BY DEF Inv
<1>2. Queued(n) = Queued(s) \ {c} /\ c \in Queued(s)
  BY DEF Queued, LeavesQueue
<1>3. Cardinality(Queued(n)) = Cardinality(Queued(s)) - 1
  <2>1. IsFiniteSet(Queued(s))
    BY <1>1, CountFacts
  <2> QED
    BY <1>2, <2>1, FS_RemoveElement
<1>4. /\ IsFiniteSet(Accepting(s))
      /\ Cardinality(Queued(s)) \in Nat /\ Cardinality(Accepting(s)) \in Nat
      /\ s.waiting["v6"] \in Nat /\ s.waiting["v4"] \in Nat /\ s.failures \in Nat
  BY <1>1, CountFacts
<1>5. Accepting(n) = Accepting(s) => Accepts(n) + 1 = Accepts(s)
  BY <1>3, <1>4 DEF Accepts, LeavesQueue
<1>6. Accepting(n) = Accepting(s) \cup {c} /\ c \notin Accepting(s)
        => Accepts(n) = Accepts(s)
  <2> SUFFICES ASSUME Accepting(n) = Accepting(s) \cup {c}, c \notin Accepting(s)
               PROVE  Accepts(n) = Accepts(s)
    OBVIOUS
  <2>1. Cardinality(Accepting(n)) = Cardinality(Accepting(s)) + 1
    BY <1>4, FS_AddElement
  <2>2. Accepts(n) = s.waiting["v6"] + s.waiting["v4"] + s.failures
                       + (Cardinality(Queued(s)) - 1) + (Cardinality(Accepting(s)) + 1)
    BY <1>3, <2>1 DEF Accepts, LeavesQueue
  <2> QED
    BY <1>4, <2>2 DEF Accepts
<1>7. c \notin s.http /\ c \notin s.ups /\ s.told[c] = 0
  BY DEF Inv, Ends, LeavesQueue
<1>8. s.open = {} => k > 0
  BY <1>2 DEF Inv, Fresh
<1> QED
  BY <1>2, <1>5, <1>6, <1>7, <1>8

LEMMA AcceptRefusedStep ==
  ASSUME calls \in Nat, Inv(srv, calls), NEW c \in Conns, AcceptRefused(c)
  PROVE  Inv(srv', calls')
<1> DEFINE s == [srv EXCEPT !.phase[c] = "over"]
<1>1. /\ srv \in Servers /\ srv.phase[c] = "queued" /\ calls' = calls
      /\ srv' = (IF s.open = {} THEN s ELSE Accepted(s))
  BY DEF AcceptRefused, Does, Inv, IgnoredAfterClose
<1>2. [srv.phase EXCEPT ![c] = "over"] \in [Conns -> Phases]
  BY <1>1 DEF Servers, Phases
<1>3. /\ s \in Servers /\ s.phase = [srv.phase EXCEPT ![c] = "over"]
      /\ s.failures = srv.failures
      /\ s.build = srv.build /\ s.open = srv.open /\ s.waiting = srv.waiting
      /\ s.handled = srv.handled /\ s.http = srv.http /\ s.comms = srv.comms
      /\ s.frame = srv.frame /\ s.ending = srv.ending
      /\ s.ups = srv.ups /\ s.told = srv.told
      /\ s.asked = srv.asked /\ s.shutting_down = srv.shutting_down
      /\ s.walk = srv.walk
      /\ s.seen = srv.seen /\ s.thrown = srv.thrown
  BY <1>1, <1>2 DEF Servers
<1>4. \A d \in Conns : s.phase[d] = IF d = c THEN "over" ELSE srv.phase[d]
  BY <1>1, <1>3 DEF Servers
<1> HIDE DEF s
<1>5. Accepting(s) = Accepting(srv)
  BY <1>3 DEF Accepting
<1>6. /\ Queued(s) = Queued(srv) \ {c} /\ Accepts(s) + 1 = Accepts(srv)
      /\ c \notin srv.ups /\ (srv.open = {} => calls > 0)
  <2>1. LeavesQueue(c, s, srv)
    BY <1>1, <1>3, <1>4 DEF LeavesQueue
  <2> QED
    BY <1>1, <1>3, <1>5, <2>1, FromQueue
<1>7. Agreeing(s)
  BY <1>1, <1>3, <1>4 DEF Inv, Agreeing, Threads, Servers
<1>8. Ends(s)
  BY <1>3, <1>4 DEF Inv, Ends, Threads
<1>9. Closes(s)
  BY <1>3 DEF Inv, Closes, Threads, Testing
<1>10. Fresh(s, calls)
  BY <1>3, <1>6 DEF Inv, Fresh
<1>11. Owing(s)
  BY <1>3, <1>6 DEF Inv, Accounted, Owing
<1>12. CASE s.open = {}
  BY <1>1, <1>3, <1>7, <1>8, <1>9, <1>10, <1>12 DEF Inv, Accounted
<1>13. CASE s.open # {}
  BY <1>1, <1>3, <1>7, <1>8, <1>9, <1>10, <1>11, <1>13, AcceptedInv
<1> QED
  BY <1>12, <1>13

LEMMA CollectedFacts ==
  ASSUME NEW s \in Servers, NEW c \in Conns
  PROVE  LET n == Collected(c, s)
         IN  /\ n \in Servers /\ n.comms = s.comms \cup {c}
             /\ n.phase = [s.phase EXCEPT ![c] = "handshake"]
             /\ n.failures = s.failures
             /\ n.build = s.build /\ n.open = s.open /\ n.waiting = s.waiting
             /\ n.handled = s.handled /\ n.http = s.http
             /\ n.frame = s.frame /\ n.ending = s.ending
             /\ n.ups = s.ups /\ n.told = s.told
             /\ n.asked = s.asked /\ n.shutting_down = s.shutting_down
             /\ n.walk = s.walk
             /\ n.seen = s.seen /\ n.thrown = s.thrown
             /\ \A d \in Conns : n.phase[d] = IF d = c THEN "handshake" ELSE s.phase[d]
<1>1. [s.phase EXCEPT ![c] = "handshake"] \in [Conns -> Phases]
  BY DEF Servers, Phases
<1> QED
  BY <1>1 DEF Collected, Servers

LEMMA ConnectedFacts ==
  ASSUME NEW s \in Servers, NEW c \in Conns
  PROVE  LET n == Connected(c, s)
         IN  /\ n \in Servers /\ n.comms = s.comms
             /\ n.http = s.http \cup {c} /\ n.ups = s.ups \cup {c}
             /\ n.failures = s.failures
             /\ n.build = s.build /\ n.open = s.open /\ n.waiting = s.waiting
             /\ n.handled = s.handled /\ n.ending = s.ending /\ n.told = s.told
             /\ n.asked = s.asked /\ n.shutting_down = s.shutting_down
             /\ n.walk = s.walk
             /\ n.seen = s.seen /\ n.thrown = s.thrown
             /\ \A d \in Conns : n.phase[d] = IF d = c THEN "up" ELSE s.phase[d]
             /\ \A d \in Conns : n.frame[d] =
                  IF d # c THEN s.frame[d]
                  ELSE IF IsSsl(s) THEN "connected" ELSE "accepting"
<1>1. /\ [s.phase EXCEPT ![c] = "up"] \in [Conns -> Phases]
      /\ [s.frame EXCEPT ![c] = IF IsSsl(s) THEN "connected" ELSE "accepting"]
           \in [Conns -> Frames]
  BY DEF Servers, Phases, Frames
<1> QED
  BY <1>1 DEF Connected, Servers

LEMMA AcceptSslStep ==
  ASSUME calls \in Nat, Inv(srv, calls), NEW c \in Conns, AcceptSsl(c)
  PROVE  Inv(srv', calls')
<1> DEFINE s == Collected(c, srv)
<1>1. /\ srv \in Servers /\ srv.phase[c] = "queued" /\ srv.open # {}
      /\ calls' = calls /\ srv' = Accepted(s)
  BY DEF AcceptSsl, Does, Inv, IgnoredAfterClose
<1>2. /\ s \in Servers /\ s.comms = srv.comms \cup {c}
      /\ s.failures = srv.failures
      /\ s.build = srv.build /\ s.open = srv.open /\ s.waiting = srv.waiting
      /\ s.handled = srv.handled /\ s.http = srv.http
      /\ s.frame = srv.frame /\ s.ending = srv.ending
      /\ s.ups = srv.ups /\ s.told = srv.told
      /\ s.asked = srv.asked /\ s.shutting_down = srv.shutting_down
      /\ s.walk = srv.walk
      /\ s.seen = srv.seen /\ s.thrown = srv.thrown
      /\ \A d \in Conns : s.phase[d] = IF d = c THEN "handshake" ELSE srv.phase[d]
  BY <1>1, CollectedFacts
<1> HIDE DEF s
<1>3. Accepting(s) = Accepting(srv)
  BY <1>2 DEF Accepting
<1>4. Queued(s) = Queued(srv) \ {c} /\ Accepts(s) + 1 = Accepts(srv) /\ c \notin srv.ups
  <2>1. LeavesQueue(c, s, srv)
    BY <1>1, <1>2 DEF LeavesQueue
  <2> QED
    BY <1>2, <1>3, <2>1, FromQueue
<1>5. Agreeing(s)
  <2>1. srv.comms \subseteq Conns
    BY <1>1 DEF Servers
  <2> QED
    BY <1>1, <1>2, <1>4, <2>1 DEF Inv, Agreeing, Threads
<1>6. Ends(s)
  BY <1>1, <1>2, <1>4 DEF Inv, Ends, Threads
<1>7. Closes(s)
  BY <1>2 DEF Inv, Closes, Threads, Testing
<1>8. Fresh(s, calls)
  BY <1>1, <1>2 DEF Inv, Fresh
<1>9. Owing(s)
  BY <1>2, <1>4 DEF Inv, Accounted, Owing
<1> QED
  BY <1>1, <1>2, <1>5, <1>6, <1>7, <1>8, <1>9, AcceptedInv

LEMMA AcceptTcpStep ==
  ASSUME calls \in Nat, Inv(srv, calls), NEW c \in Conns, AcceptTcp(c)
  PROVE  Inv(srv', calls')
<1> DEFINE s == Collected(c, srv)
<1>1. /\ srv \in Servers /\ srv.phase[c] = "queued" /\ srv.open # {} /\ ~IsSsl(srv)
      /\ srv.frame[c] = "none" /\ calls' = calls /\ srv' = Connected(c, s)
  BY DEF AcceptTcp, Does, Inv, IgnoredAfterClose, MayRun
<1>2. /\ s \in Servers /\ s.comms = srv.comms \cup {c}
      /\ s.failures = srv.failures
      /\ s.build = srv.build /\ s.open = srv.open /\ s.waiting = srv.waiting
      /\ s.handled = srv.handled /\ s.http = srv.http
      /\ s.frame = srv.frame /\ s.ending = srv.ending
      /\ s.ups = srv.ups /\ s.told = srv.told
      /\ s.asked = srv.asked /\ s.shutting_down = srv.shutting_down
      /\ s.walk = srv.walk
      /\ s.seen = srv.seen /\ s.thrown = srv.thrown
      /\ \A d \in Conns : s.phase[d] = IF d = c THEN "handshake" ELSE srv.phase[d]
  BY <1>1, CollectedFacts
<1> HIDE DEF s
<1> DEFINE n == Connected(c, s)
<1>3. /\ n \in Servers /\ n.comms = srv.comms \cup {c}
      /\ n.http = srv.http \cup {c} /\ n.ups = srv.ups \cup {c}
      /\ n.failures = srv.failures
      /\ n.build = srv.build /\ n.open = srv.open /\ n.waiting = srv.waiting
      /\ n.handled = srv.handled /\ n.ending = srv.ending /\ n.told = srv.told
      /\ n.asked = srv.asked /\ n.shutting_down = srv.shutting_down
      /\ n.walk = srv.walk
      /\ n.seen = srv.seen /\ n.thrown = srv.thrown
      /\ \A d \in Conns : n.phase[d] = IF d = c THEN "up" ELSE srv.phase[d]
      /\ \A d \in Conns : n.frame[d] = IF d = c THEN "accepting" ELSE srv.frame[d]
  BY <1>1, <1>2, ConnectedFacts DEF IsSsl
<1> HIDE DEF n
<1>4. Accepting(n) = Accepting(srv) \cup {c} /\ c \notin Accepting(srv)
  BY <1>1, <1>3 DEF Accepting
<1>5. /\ Accepts(n) = Accepts(srv)
      /\ c \notin srv.http /\ c \notin srv.ups /\ srv.told[c] = 0
  <2>1. LeavesQueue(c, n, srv)
    BY <1>1, <1>3 DEF LeavesQueue
  <2> QED
    BY <1>3, <1>4, <2>1, FromQueue
<1>6. Agreeing(n)
  <2>1. srv.comms \subseteq Conns
    BY <1>1 DEF Servers
  <2> QED
    BY <1>1, <1>3, <1>5, <2>1 DEF Inv, Agreeing, Threads
<1>7. Ends(n)
  BY <1>1, <1>3, <1>5 DEF Inv, Ends, Threads
<1>8. Closes(n)
  BY <1>1, <1>3 DEF Inv, Closes
<1>9. Fresh(n, calls)
  BY <1>1, <1>3 DEF Inv, Fresh
<1>10. Accounted(n)
  BY <1>3, <1>5 DEF Inv, Accounted
<1> QED
  BY <1>1, <1>3, <1>6, <1>7, <1>8, <1>9, <1>10 DEF Inv, n

LEMMA AcceptThrowsStep ==
  ASSUME calls \in Nat, Inv(srv, calls), NEW c \in Conns, AcceptThrows(c)
  PROVE  Inv(srv', calls')
<1> DEFINE s == Collected(c, srv)
           n == [s EXCEPT !.phase[c] = "over", !.thrown = TRUE]
<1>1. /\ srv \in Servers /\ srv.phase[c] = "queued" /\ srv.open # {}
      /\ calls' = calls /\ srv' = n
  BY DEF AcceptThrows, Does, Inv, IgnoredAfterClose
<1>2. /\ s \in Servers /\ s.comms = srv.comms \cup {c}
      /\ s.failures = srv.failures
      /\ s.build = srv.build /\ s.open = srv.open /\ s.waiting = srv.waiting
      /\ s.handled = srv.handled /\ s.http = srv.http
      /\ s.frame = srv.frame /\ s.ending = srv.ending
      /\ s.ups = srv.ups /\ s.told = srv.told
      /\ s.asked = srv.asked /\ s.shutting_down = srv.shutting_down
      /\ s.walk = srv.walk
      /\ s.seen = srv.seen
      /\ \A d \in Conns : s.phase[d] = IF d = c THEN "handshake" ELSE srv.phase[d]
  BY <1>1, CollectedFacts
<1> HIDE DEF s
<1>3. [s.phase EXCEPT ![c] = "over"] \in [Conns -> Phases]
  BY <1>2 DEF Servers, Phases
<1>4. /\ n \in Servers /\ n.comms = s.comms /\ n.thrown = TRUE
      /\ n.phase = [s.phase EXCEPT ![c] = "over"]
      /\ n.build = s.build /\ n.open = s.open
      /\ n.http = s.http /\ n.ending = s.ending
      /\ n.ups = s.ups /\ n.told = s.told
      /\ n.asked = s.asked /\ n.shutting_down = s.shutting_down
      /\ n.walk = s.walk
      /\ n.seen = s.seen
  BY <1>2, <1>3 DEF Servers
<1>5. \A d \in Conns : n.phase[d] = IF d = c THEN "over" ELSE srv.phase[d]
  BY <1>2, <1>4 DEF Servers
<1> HIDE DEF n
<1>6. c \notin srv.ups
  BY <1>1 DEF Inv, Ends
<1>7. Agreeing(n)
  <2>1. srv.comms \subseteq Conns
    BY <1>1 DEF Servers
  <2> QED
    BY <1>1, <1>2, <1>4, <1>5, <1>6, <2>1 DEF Inv, Agreeing, Threads
<1>8. Ends(n)
  BY <1>1, <1>2, <1>4, <1>5 DEF Inv, Ends, Threads
<1>9. Closes(n)
  BY <1>2, <1>4 DEF Inv, Closes, Threads, Testing
<1>10. Fresh(n, calls)
  BY <1>1, <1>2, <1>4 DEF Inv, Fresh
<1>11. Accounted(n)
  BY <1>4 DEF Accounted
<1> QED
  BY <1>1, <1>4, <1>7, <1>8, <1>9, <1>10, <1>11 DEF Inv

LEMMA HandshakeEndsStep ==
  ASSUME calls \in Nat, Inv(srv, calls), NEW c \in Conns, HandshakeEnds(c)
  PROVE  Inv(srv', calls')
<1> DEFINE n == Connected(c, srv)
           m == [srv EXCEPT !.phase[c] = "over"]
<1>1. /\ srv \in Servers /\ srv.phase[c] = "handshake" /\ c \in srv.comms /\ IsSsl(srv)
      /\ srv.frame[c] = "none" /\ calls' = calls /\ (srv' = n \/ srv' = m)
      /\ (Threads(srv) \/ srv.walk = "idle")
  BY DEF HandshakeEnds, Does, Inv, MayRun, Quiet
<1>2. /\ c \notin srv.ups /\ srv.told[c] = 0 /\ srv.open # {}
  BY <1>1 DEF Inv, Ends
<1>3. CASE srv' = n
  <2>1. /\ n \in Servers /\ n.comms = srv.comms
        /\ n.http = srv.http \cup {c} /\ n.ups = srv.ups \cup {c}
        /\ n.failures = srv.failures
        /\ n.build = srv.build /\ n.open = srv.open /\ n.waiting = srv.waiting
        /\ n.handled = srv.handled /\ n.ending = srv.ending /\ n.told = srv.told
        /\ n.asked = srv.asked /\ n.shutting_down = srv.shutting_down
        /\ n.walk = srv.walk
        /\ n.seen = srv.seen /\ n.thrown = srv.thrown
        /\ \A d \in Conns : n.phase[d] = IF d = c THEN "up" ELSE srv.phase[d]
        /\ \A d \in Conns : n.frame[d] = IF d = c THEN "connected" ELSE srv.frame[d]
    BY <1>1, ConnectedFacts
  <2> HIDE DEF n, m
  <2>2. Queued(n) = Queued(srv) /\ Accepting(n) = Accepting(srv)
    BY <1>1, <2>1 DEF Queued, Accepting
  <2>3. Agreeing(n)
    <3>1. srv.comms \subseteq Conns
      BY <1>1 DEF Servers
    <3> QED
      BY <1>1, <2>1, <3>1 DEF Inv, Agreeing, Threads
  <2>4. Ends(n)
    BY <1>1, <1>2, <2>1 DEF Inv, Ends, Threads
  <2>5. Closes(n)
    BY <1>2, <2>1 DEF Inv, Closes
  <2>6. Accounted(n)
    BY <2>1, <2>2 DEF Inv, Accounted, Accepts
  <2>7. Fresh(n, calls)
    BY <1>2, <2>1 DEF Inv, Fresh
  <2> QED
    BY <1>1, <1>3, <2>1, <2>3, <2>4, <2>5, <2>6, <2>7 DEF Inv
<1>4. CASE srv' = m
  <2>1. [srv.phase EXCEPT ![c] = "over"] \in [Conns -> Phases]
    BY <1>1 DEF Servers, Phases
  <2>2. /\ m \in Servers /\ m.comms = srv.comms
        /\ m.http = srv.http /\ m.ups = srv.ups /\ m.frame = srv.frame
        /\ m.failures = srv.failures
        /\ m.build = srv.build /\ m.open = srv.open /\ m.waiting = srv.waiting
        /\ m.handled = srv.handled /\ m.ending = srv.ending /\ m.told = srv.told
        /\ m.asked = srv.asked /\ m.shutting_down = srv.shutting_down
        /\ m.walk = srv.walk
        /\ m.seen = srv.seen /\ m.thrown = srv.thrown
        /\ m.phase = [srv.phase EXCEPT ![c] = "over"]
    BY <1>1, <2>1 DEF Servers
  <2>3. \A d \in Conns : m.phase[d] = IF d = c THEN "over" ELSE srv.phase[d]
    BY <1>1, <2>2 DEF Servers
  <2> HIDE DEF n, m
  <2>4. Queued(m) = Queued(srv) /\ Accepting(m) = Accepting(srv)
    BY <1>1, <2>2, <2>3 DEF Queued, Accepting
  <2>5. Agreeing(m)
    BY <1>1, <1>2, <2>2, <2>3 DEF Inv, Agreeing, Threads, Servers
  <2>6. Ends(m)
    BY <1>1, <1>2, <2>2, <2>3 DEF Inv, Ends, Threads
  <2>7. Closes(m)
    BY <2>2 DEF Inv, Closes, Threads, Testing
  <2>8. Accounted(m)
    BY <2>2, <2>4 DEF Inv, Accounted, Accepts
  <2>9. Fresh(m, calls)
    BY <1>2, <2>2 DEF Inv, Fresh
  <2> QED
    BY <1>1, <1>4, <2>2, <2>5, <2>6, <2>7, <2>8, <2>9 DEF Inv
<1> QED
  BY <1>1, <1>3, <1>4

LEMMA EventReturnsStep ==
  ASSUME calls \in Nat, Inv(srv, calls), NEW c \in Conns, EventReturns(c)
  PROVE  Inv(srv', calls')
<1> DEFINE s == [srv EXCEPT !.frame[c] = "none"]
           u == [s EXCEPT !.thrown = TRUE]
<1>1. /\ srv \in Servers /\ calls' = calls
      /\ \/ srv.frame[c] # "accepting" /\ srv' = Reap(s)
         \/ srv.frame[c] = "accepting" /\ (srv' = Reap(Accepted(s)) \/ srv' = Reap(u))
  BY DEF EventReturns, Does, Inv, SetSocketOptions
<1>2. [srv.frame EXCEPT ![c] = "none"] \in [Conns -> Frames]
  BY <1>1 DEF Servers, Frames
<1>3. /\ s \in Servers /\ s.comms = srv.comms
      /\ s.http = srv.http /\ s.ups = srv.ups /\ s.phase = srv.phase
      /\ s.failures = srv.failures
      /\ s.build = srv.build /\ s.open = srv.open /\ s.waiting = srv.waiting
      /\ s.handled = srv.handled /\ s.ending = srv.ending /\ s.told = srv.told
      /\ s.asked = srv.asked /\ s.shutting_down = srv.shutting_down
      /\ s.walk = srv.walk
      /\ s.seen = srv.seen /\ s.thrown = srv.thrown
      /\ s.frame = [srv.frame EXCEPT ![c] = "none"]
  BY <1>1, <1>2 DEF Servers
<1>4. \A d \in Conns : s.frame[d] = IF d = c THEN "none" ELSE srv.frame[d]
  BY <1>1, <1>3 DEF Servers
<1>5. CASE srv.frame[c] # "accepting"
  <2>1. SameButFrame(c, s, srv) /\ s.frame[c] = "none"
    BY <1>3, <1>4 DEF SameButFrame
  <2> HIDE DEF s
  <2>2. Inv(s, calls)
    BY <1>3, <1>4, <1>5, <2>1, FrameInv
  <2> QED
    BY <1>1, <1>5, <2>2, ReapInv
<1>6. CASE srv.frame[c] = "accepting"
  <2>1. /\ u \in Servers /\ u.comms = srv.comms
        /\ u.http = srv.http /\ u.ups = srv.ups /\ u.phase = srv.phase
        /\ u.build = srv.build /\ u.open = srv.open
        /\ u.ending = srv.ending /\ u.told = srv.told
        /\ u.asked = srv.asked /\ u.shutting_down = srv.shutting_down
        /\ u.walk = srv.walk
        /\ u.seen = srv.seen /\ u.thrown = TRUE
    BY <1>3 DEF Servers
  <2> HIDE DEF s, u
  <2>2. /\ Accepting(s) = Accepting(srv) \ {c} /\ c \in Accepting(srv)
        /\ Queued(s) = Queued(srv)
    BY <1>3, <1>4, <1>6 DEF Accepting, Queued
  <2>3. Cardinality(Accepting(s)) = Cardinality(Accepting(srv)) - 1
    BY <1>1, <2>2, CountFacts, FS_RemoveElement
  <2>4. Accepts(s) + 1 = Accepts(srv)
    <3>1. /\ Cardinality(Queued(srv)) \in Nat /\ Cardinality(Accepting(srv)) \in Nat
          /\ srv.waiting["v6"] \in Nat /\ srv.waiting["v4"] \in Nat /\ srv.failures \in Nat
      BY <1>1, CountFacts
    <3>2. Accepts(s) = srv.waiting["v6"] + srv.waiting["v4"] + srv.failures
                         + Cardinality(Queued(srv)) + (Cardinality(Accepting(srv)) - 1)
      BY <1>3, <2>2, <2>3 DEF Accepts
    <3> QED
      BY <3>1, <3>2 DEF Accepts
  <2>5. srv.open = {} => calls > 0
    BY <2>2 DEF Inv, Fresh
  <2>6. Agreeing(s) /\ Agreeing(u)
    BY <1>3, <2>1 DEF Inv, Agreeing, Threads
  <2>7. Ends(s) /\ Ends(u)
    BY <1>3, <2>1 DEF Inv, Ends, Threads
  <2>8. Closes(s) /\ Closes(u)
    BY <1>3, <2>1 DEF Inv, Closes, Threads, Testing
  <2>9. Fresh(s, calls) /\ Fresh(u, calls)
    BY <1>3, <2>1, <2>5 DEF Inv, Fresh
  <2>10. Owing(s) /\ Accounted(u)
    BY <1>3, <2>1, <2>4 DEF Inv, Accounted, Owing
  <2>11. Inv(Accepted(s), calls)
    BY <1>3, <2>5, <2>6, <2>7, <2>8, <2>9, <2>10, AcceptedInv
  <2>12. Inv(u, calls)
    BY <2>1, <2>6, <2>7, <2>8, <2>9, <2>10 DEF Inv
  <2> QED
    BY <1>1, <1>6, <2>11, <2>12, ReapInv
<1> QED
  BY <1>5, <1>6

LEMMA ReceivedStep ==
  ASSUME calls \in Nat, Inv(srv, calls), NEW c \in Conns, Received(c)
  PROVE  Inv(srv', calls')
<1>1. /\ srv \in Servers /\ srv.frame[c] = "none" /\ calls' = calls
      /\ srv' = [srv EXCEPT !.frame[c] = "received"]
  BY DEF Received, Does, Inv, MayRun
<1>2. [srv.frame EXCEPT ![c] = "received"] \in [Conns -> Frames]
  BY <1>1 DEF Servers, Frames
<1>3. srv' \in Servers /\ srv'.frame[c] = "received"
  BY <1>1, <1>2 DEF Servers
<1>4. SameButFrame(c, srv', srv)
  BY <1>1, <1>2 DEF SameButFrame, Servers
<1> QED
  BY <1>1, <1>3, <1>4, FrameInv

(* A handler of c and a call of the application can handle DISCONNECTED.   *)
LEMMA OwnFree ==
  ASSUME NEW c \in Conns, MayRun(c)
  PROVE  Free(c, "own", srv)
  BY DEF MayRun, Quiet, Free

LEMMA CallFree ==
  ASSUME NEW c \in Conns, MayDisconnect(c)
  PROVE  Free(c, "call", srv)
  BY DEF MayDisconnect, MayCall, Free

LEMMA WrittenStep ==
  ASSUME calls \in Nat, Inv(srv, calls), NEW c \in Conns, Written(c)
  PROVE  Inv(srv', calls')
<1> DEFINE frame == IF c \in srv.http THEN "sent" ELSE srv.frame[c]
           w == WriteHandler(c, srv)
<1>1. /\ srv \in Servers /\ srv.frame[c] = "none" /\ calls' = calls /\ MayRun(c)
      /\ \E n \in WriteEnds(c, srv) : srv' = Reap(n)
  BY DEF Written, Writing, Does, Inv, MayRun
<1>2. [srv.frame EXCEPT ![c] = frame] \in [Conns -> Frames] /\ frame # "accepting"
  BY <1>1 DEF Servers, Frames
<1>3. w = [srv EXCEPT !.busy = @ \ {c}, !.frame = [srv.frame EXCEPT ![c] = frame]]
  BY DEF WriteHandler
<1> HIDE DEF frame, w
<1>4. w \in Servers /\ w.frame[c] # "accepting" /\ SameButFrame(c, w, srv)
  BY <1>1, <1>2, <1>3 DEF SameButFrame, Servers
<1>5. Inv(w, calls)
  BY <1>1, <1>4, FrameInv
<1>6. ASSUME NEW n \in WriteEnds(c, srv)
      PROVE  Inv(n, calls)
  <2>1. n = w \/ n \in Shutdowns(c, "own", srv)
    BY <1>6 DEF WriteEnds, w
  <2>2. Free(c, "own", srv) /\ "own" \in Runners
    BY <1>1, OwnFree DEF Runners
  <2> QED
    BY <1>5, <2>1, <2>2, ShutdownsInv
<1> QED
  BY <1>1, <1>6, ReapInv

LEMMA WriteFailsStep ==
  ASSUME calls \in Nat, Inv(srv, calls), NEW c \in Conns, WriteFails(c)
  PROVE  Inv(srv', calls')
<1>1. /\ srv \in Servers /\ calls' = calls + 1
      /\ srv' = [srv EXCEPT !.failed = @ \cup {c}]
  BY DEF WriteFails, Called, Inv
<1>2. srv' \in Servers /\ SameCore(srv', srv)
  BY <1>1 DEF SameCore, Servers
<1> QED
  BY <1>1, <1>2, CoreInv, CalledInv

LEMMA LostStep ==
  ASSUME calls \in Nat, Inv(srv, calls), NEW c \in Conns, Lost(c)
  PROVE  Inv(srv', calls')
<1>1. Free(c, "own", srv) /\ "own" \in Runners
  BY OwnFree DEF Lost, Runners
<1> QED
  BY <1>1, DisconnectionsInv, ReapInv DEF Lost, Does

LEMMA PeerLeavesStep ==
  ASSUME calls \in Nat, Inv(srv, calls), NEW c \in Conns, PeerLeaves(c)
  PROVE  Inv(srv', calls')
<1>1. Free(c, "own", srv) /\ "own" \in Runners
  BY OwnFree DEF PeerLeaves, Runners
<1> QED
  BY <1>1, ShutdownsInv DEF PeerLeaves, Does

(* Without other threads nobody is in the middle of DISCONNECTED.          *)
LEMMA MidwayThreads ==
  ASSUME NEW k \in Nat, NEW s, Inv(s, k), NEW c \in Conns, NEW r \in Runners,
         s.ending[c][r] # "none"
  PROVE  Threads(s)
  BY DEF Inv, Agreeing

LEMMA TellsStep ==
  ASSUME calls \in Nat, Inv(srv, calls), NEW c \in Conns, NEW r \in Runners, Tells(c, r)
  PROVE  Inv(srv', calls')
<1> DEFINE t == To(c, r, "told", srv)
           n == [t EXCEPT !.told[c] = @ + 1]
<1>1. /\ srv \in Servers /\ srv.ending[c][r] = "found" /\ calls' = calls /\ srv' = n
      /\ "told" \in Stages
  BY DEF Tells, At, Does, Inv, Stages
<1>2. Threads(srv)
  BY <1>1, MidwayThreads
<1>3. /\ t \in Servers
      /\ t.build = srv.build /\ t.open = srv.open /\ t.waiting = srv.waiting
      /\ t.failures = srv.failures /\ t.handled = srv.handled
      /\ t.http = srv.http /\ t.comms = srv.comms /\ t.phase = srv.phase
      /\ t.frame = srv.frame /\ t.ups = srv.ups /\ t.told = srv.told
      /\ t.asked = srv.asked /\ t.shutting_down = srv.shutting_down
      /\ t.walk = srv.walk /\ t.seen = srv.seen /\ t.thrown = srv.thrown
      /\ \A d \in Conns, q \in Runners :
           t.ending[d][q] = IF d = c /\ q = r THEN "told" ELSE srv.ending[d][q]
  BY <1>1, ToFacts
<1> HIDE DEF t
<1>4. [t.told EXCEPT ![c] = @ + 1] \in [Conns -> Nat]
  BY <1>3 DEF Servers
<1>5. /\ n \in Servers
      /\ n.build = t.build /\ n.open = t.open /\ n.waiting = t.waiting
      /\ n.failures = t.failures /\ n.handled = t.handled
      /\ n.http = t.http /\ n.comms = t.comms /\ n.phase = t.phase
      /\ n.frame = t.frame /\ n.ups = t.ups /\ n.ending = t.ending
      /\ n.asked = t.asked /\ n.shutting_down = t.shutting_down
      /\ n.walk = t.walk /\ n.seen = t.seen /\ n.thrown = t.thrown
      /\ n.told = [t.told EXCEPT ![c] = @ + 1]
  BY <1>3, <1>4 DEF Servers
<1>6. /\ \A d \in Conns : n.told[d] = IF d = c THEN srv.told[c] + 1 ELSE srv.told[d]
      /\ \A d \in Conns : srv.told[d] \in Nat
  BY <1>1, <1>3, <1>5 DEF Servers
<1> HIDE DEF n
<1>7. /\ n.http = srv.http /\ n.ups = srv.ups /\ n.phase = srv.phase /\ n.open = srv.open
      /\ n.comms = srv.comms
      /\ \A d \in Conns, q \in Runners :
           n.ending[d][q] = IF d = c /\ q = r THEN "told" ELSE srv.ending[d][q]
  BY <1>3, <1>5
<1>8. \A d \in Conns : srv.told[d] > 0 => n.told[d] > 0
  BY <1>6
<1>9. \A d \in Conns : srv.told[d] > 1 => n.told[d] > 1
  BY <1>6
<1>10. (\E d \in Conns : srv.told[d] > 1) => \E d \in Conns : n.told[d] > 1
  BY <1>9
<1>11. c \in srv.ups
  BY <1>1 DEF Inv, Ends
<1>12. Ends(n)
  <2>1. ASSUME NEW d \in Conns
        PROVE  /\ d \in n.http => d \in n.ups
               /\ d \notin n.ups => n.told[d] = 0
               /\ n.phase[d] \in {"none", "queued", "handshake"} => d \notin n.ups
               /\ n.told[d] > 1 => Threads(n)
               /\ d \in n.http /\ n.told[d] > 0 => \E q \in Runners : n.ending[d][q] = "told"
               /\ n.open # {} /\ d \in n.ups /\ d \notin n.http
                    => n.told[d] > 0 \/ \E e \in Conns : n.told[e] > 1
    <3>1. /\ d \in n.http => d \in n.ups
          /\ d \notin n.ups => n.told[d] = 0
          /\ n.phase[d] \in {"none", "queued", "handshake"} => d \notin n.ups
      BY <1>6, <1>7, <1>11 DEF Inv, Ends
    <3>2. n.told[d] > 1 => Threads(n)
      BY <1>2, <1>3, <1>5 DEF Threads
    <3>3. d \in n.http /\ n.told[d] > 0 => \E q \in Runners : n.ending[d][q] = "told"
      <4>1. CASE d = c
        BY <1>7, <4>1
      <4>2. CASE d # c
        BY <1>6, <1>7, <4>2 DEF Inv, Ends
      <4> QED
        BY <4>1, <4>2
    <3>4. n.open # {} /\ d \in n.ups /\ d \notin n.http
            => n.told[d] > 0 \/ \E e \in Conns : n.told[e] > 1
      BY <1>7, <1>8, <1>10 DEF Inv, Ends
    <3> QED
      BY <3>1, <3>2, <3>3, <3>4
  <2>2. ASSUME NEW d \in Conns, NEW q \in Runners
        PROVE  /\ n.ending[d][q] \in {"found", "told"} => d \in n.ups
               /\ n.ending[d][q] = "told" => n.told[d] > 0
               /\ n.open # {} /\ d \notin n.http /\ n.ending[d][q] = "told"
                    => \E e \in Conns : n.told[e] > 1
    <3>1. CASE d = c /\ q = r
      <4>1. n.told[c] > 0
        BY <1>6
      <4>2. n.open # {} /\ c \notin n.http => \E e \in Conns : n.told[e] > 1
        <5> SUFFICES ASSUME n.open # {}, c \notin n.http
                     PROVE  \E e \in Conns : n.told[e] > 1
          OBVIOUS
        <5>1. srv.told[c] > 0 \/ \E e \in Conns : srv.told[e] > 1
          BY <1>7, <1>11 DEF Inv, Ends
        <5>2. srv.told[c] > 0 => n.told[c] > 1
          BY <1>6
        <5> QED
          BY <5>1, <5>2, <1>10
      <4> QED
        BY <1>7, <1>11, <3>1, <4>1, <4>2
    <3>2. CASE ~(d = c /\ q = r)
      <4>1. n.ending[d][q] = srv.ending[d][q]
        BY <1>7, <3>2
      <4> QED
        BY <1>7, <1>8, <1>10, <4>1 DEF Inv, Ends
    <3> QED
      BY <3>1, <3>2
  <2>3. ASSUME NEW d \in Conns, NEW q \in Runners, NEW p \in Runners,
               p # q, n.ending[d][p] = "told", n.ending[d][q] = "told"
        PROVE  n.told[d] > 1
    <3>1. CASE d = c /\ (q = r \/ p = r)
      <4>1. PICK x \in {p, q} : x # r
        BY <2>3
      <4>2. srv.ending[c][x] = "told" /\ x \in Runners
        BY <1>7, <2>3, <3>1, <4>1
      <4>3. srv.told[c] > 0
        BY <4>2 DEF Inv, Ends
      <4> QED
        BY <1>6, <3>1, <4>3
    <3>2. CASE ~(d = c /\ (q = r \/ p = r))
      <4>1. srv.ending[d][p] = "told" /\ srv.ending[d][q] = "told"
        BY <1>7, <2>3, <3>2
      <4> QED
        BY <1>9, <2>3, <4>1 DEF Inv, Ends
    <3> QED
      BY <3>1, <3>2
  <2>4. n.open = {} => n.comms = {}
    BY <1>7 DEF Inv, Ends
  <2> QED
    BY <2>1, <2>2, <2>3, <2>4 DEF Ends
<1>13. Agreeing(n)
  BY <1>2, <1>3, <1>5 DEF Agreeing, Threads
<1>14. Closes(n)
  <2>1. Testing(srv) => Testing(n)
    BY <1>1, <1>7 DEF Testing
  <2>2. \A d \in Conns, q \in Runners : n.ending[d][q] = "closing" => srv.ending[d][q] = "closing"
    BY <1>7
  <2> QED
    BY <1>3, <1>5, <2>1, <2>2 DEF Inv, Closes, Threads
<1>15. Queued(n) = Queued(srv) /\ Accepting(n) = Accepting(srv)
  BY <1>3, <1>5 DEF Queued, Accepting
<1>16. Accounted(n)
  BY <1>3, <1>5, <1>15 DEF Inv, Accounted, Accepts
<1>17. Fresh(n, calls)
  BY <1>3, <1>5, <1>15 DEF Inv, Fresh
<1> QED
  BY <1>1, <1>5, <1>12, <1>13, <1>14, <1>16, <1>17 DEF Inv

LEMMA ErasesStep ==
  ASSUME calls \in Nat, Inv(srv, calls), NEW c \in Conns, NEW r \in Runners, Erases(c, r)
  PROVE  Inv(srv', calls')
<1> DEFINE t == To(c, r, "erased", srv)
<1>1. /\ srv \in Servers /\ srv.ending[c][r] = "told" /\ calls' = calls
      /\ "erased" \in Stages
  BY DEF Erases, At, Does, Inv, Stages
<1>2. Threads(srv)
  BY <1>1, MidwayThreads
<1>3. PICK keys \in Erasures(c, srv.http, srv) :
        LET u == [t EXCEPT !.http = keys]
        IN  srv' = [u EXCEPT !.undefined = \E d \in srv.http \ keys : ~Held(d, u) /\ ~Alive(d, u)]
  BY DEF Erases, Does
<1> DEFINE lost == \E d \in srv.http \ keys :
                     ~Held(d, [t EXCEPT !.http = keys]) /\ ~Alive(d, [t EXCEPT !.http = keys])
           n == [[t EXCEPT !.http = keys] EXCEPT !.undefined = lost]
<1>4. srv' = n /\ lost \in BOOLEAN
  BY <1>3
<1>5. /\ t \in Servers
      /\ t.build = srv.build /\ t.open = srv.open /\ t.waiting = srv.waiting
      /\ t.failures = srv.failures /\ t.handled = srv.handled
      /\ t.http = srv.http /\ t.comms = srv.comms /\ t.phase = srv.phase
      /\ t.frame = srv.frame /\ t.ups = srv.ups /\ t.told = srv.told
      /\ t.asked = srv.asked /\ t.shutting_down = srv.shutting_down
      /\ t.walk = srv.walk /\ t.seen = srv.seen /\ t.thrown = srv.thrown
      /\ \A d \in Conns, q \in Runners :
           t.ending[d][q] = IF d = c /\ q = r THEN "erased" ELSE srv.ending[d][q]
  BY <1>1, ToFacts
<1> HIDE DEF lost, t
<1>6. /\ keys \subseteq srv.http /\ c \notin keys /\ keys \subseteq Conns
      /\ c \in srv.http => keys = srv.http \ {c}
  BY <1>1, <1>3 DEF Erasures, Servers
<1>7. /\ n \in Servers /\ n.http = keys
      /\ n.build = t.build /\ n.open = t.open /\ n.waiting = t.waiting
      /\ n.failures = t.failures /\ n.handled = t.handled
      /\ n.told = t.told /\ n.comms = t.comms /\ n.phase = t.phase
      /\ n.frame = t.frame /\ n.ups = t.ups /\ n.ending = t.ending
      /\ n.asked = t.asked /\ n.shutting_down = t.shutting_down
      /\ n.walk = t.walk /\ n.seen = t.seen /\ n.thrown = t.thrown
  BY <1>4, <1>5, <1>6 DEF Servers
<1> HIDE DEF n
<1>8. /\ n.told = srv.told /\ n.ups = srv.ups /\ n.phase = srv.phase /\ n.open = srv.open
      /\ n.comms = srv.comms
      /\ \A d \in Conns, q \in Runners :
           n.ending[d][q] = IF d = c /\ q = r THEN "erased" ELSE srv.ending[d][q]
  BY <1>5, <1>7
<1>9. /\ srv.told[c] > 0
      /\ srv.open # {} /\ c \notin srv.http => \E d \in Conns : srv.told[d] > 1
  BY <1>1 DEF Inv, Ends
<1>10. Ends(n)
  <2>1. ASSUME NEW d \in Conns
        PROVE  /\ d \in n.http => d \in n.ups
               /\ d \notin n.ups => n.told[d] = 0
               /\ n.phase[d] \in {"none", "queued", "handshake"} => d \notin n.ups
               /\ n.told[d] > 1 => Threads(n)
               /\ d \in n.http /\ n.told[d] > 0 => \E q \in Runners : n.ending[d][q] = "told"
               /\ n.open # {} /\ d \in n.ups /\ d \notin n.http
                    => n.told[d] > 0 \/ \E e \in Conns : n.told[e] > 1
    <3>1. /\ d \in n.http => d \in n.ups
          /\ d \notin n.ups => n.told[d] = 0
          /\ n.phase[d] \in {"none", "queued", "handshake"} => d \notin n.ups
      BY <1>6, <1>7, <1>8 DEF Inv, Ends
    <3>2. n.told[d] > 1 => Threads(n)
      BY <1>2, <1>5, <1>7 DEF Threads
    <3>3. d \in n.http /\ n.told[d] > 0 => \E q \in Runners : n.ending[d][q] = "told"
      <4> SUFFICES ASSUME d \in n.http, n.told[d] > 0
                   PROVE  \E q \in Runners : n.ending[d][q] = "told"
        OBVIOUS
      <4>1. d # c /\ d \in srv.http
        BY <1>6, <1>7
      <4>2. PICK q \in Runners : srv.ending[d][q] = "told"
        BY <1>8, <4>1 DEF Inv, Ends
      <4> QED
        BY <1>8, <4>1, <4>2
    <3>4. n.open # {} /\ d \in n.ups /\ d \notin n.http
            => n.told[d] > 0 \/ \E e \in Conns : n.told[e] > 1
      <4>1. CASE d = c
        BY <1>8, <1>9, <4>1
      <4>2. CASE d # c /\ d \notin srv.http
        BY <1>8, <4>2 DEF Inv, Ends
      <4>3. CASE d # c /\ d \in srv.http
        BY <1>6, <1>7, <1>8, <1>9, <4>3
      <4> QED
        BY <4>1, <4>2, <4>3
    <3> QED
      BY <3>1, <3>2, <3>3, <3>4
  <2>2. ASSUME NEW d \in Conns, NEW q \in Runners, n.ending[d][q] \in {"found", "told"}
        PROVE  /\ d \in n.ups
               /\ n.ending[d][q] = "told" => n.told[d] > 0
               /\ n.open # {} /\ d \notin n.http /\ n.ending[d][q] = "told"
                    => \E e \in Conns : n.told[e] > 1
    <3>1. n.ending[d][q] = srv.ending[d][q] /\ ~(d = c /\ q = r)
      BY <1>8, <2>2
    <3>2. d \in n.ups /\ (n.ending[d][q] = "told" => n.told[d] > 0)
      BY <1>8, <2>2, <3>1 DEF Inv, Ends
    <3>3. ASSUME n.open # {}, d \notin n.http, n.ending[d][q] = "told"
          PROVE  \E e \in Conns : n.told[e] > 1
      <4>1. CASE d \notin srv.http
        BY <1>8, <3>1, <3>3, <4>1 DEF Inv, Ends
      <4>2. CASE c \notin srv.http
        BY <1>8, <1>9, <3>3, <4>2
      <4>3. CASE d \in srv.http /\ c \in srv.http
        <5>1. d = c /\ q # r
          BY <1>6, <1>7, <3>1, <3>3, <4>3
        <5>2. srv.told[c] > 1
          BY <1>1, <3>1, <3>3, <5>1 DEF Inv, Ends
        <5> QED
          BY <1>8, <5>2
      <4> QED
        BY <4>1, <4>2, <4>3
    <3> QED
      BY <3>2, <3>3
  <2>3. ASSUME NEW d \in Conns, NEW q \in Runners, NEW p \in Runners,
               p # q, n.ending[d][p] = "told", n.ending[d][q] = "told"
        PROVE  n.told[d] > 1
    <3>1. srv.ending[d][p] = "told" /\ srv.ending[d][q] = "told"
      BY <1>8, <2>3
    <3> QED
      BY <1>8, <2>3, <3>1 DEF Inv, Ends
  <2>4. n.open = {} => n.comms = {}
    BY <1>8 DEF Inv, Ends
  <2> QED
    BY <2>1, <2>2, <2>3, <2>4 DEF Ends
<1>11. Agreeing(n)
  BY <1>2, <1>5, <1>7 DEF Agreeing, Threads
<1>12. Closes(n)
  <2>1. Testing(n)
    BY <1>8 DEF Testing
  <2>2. \A d \in Conns, q \in Runners : n.ending[d][q] = "closing" => srv.ending[d][q] = "closing"
    BY <1>8
  <2>3. Threads(n)
    BY <1>2, <1>5, <1>7 DEF Threads
  <2> QED
    BY <1>5, <1>7, <2>1, <2>2, <2>3 DEF Inv, Closes
<1>13. Queued(n) = Queued(srv) /\ Accepting(n) = Accepting(srv)
  BY <1>5, <1>7 DEF Queued, Accepting
<1>14. Accounted(n)
  BY <1>5, <1>7, <1>13 DEF Inv, Accounted, Accepts
<1>15. Fresh(n, calls)
  BY <1>5, <1>7, <1>13 DEF Inv, Fresh
<1> QED
  BY <1>1, <1>4, <1>7, <1>10, <1>11, <1>12, <1>14, <1>15 DEF Inv

(* The later stages.                                                       *)
LEMMA LaterInv ==
  ASSUME NEW k \in Nat, NEW s, Inv(s, k), NEW c \in Conns, NEW r \in Runners,
         s.ending[c][r] \in {"erased", "closing", "returned"},
         NEW stage \in {"closing", "returned", "none"},
         stage = "closing" => s.shutting_down,
         stage = "closing" \/ s.ending[c][r] = "returned" \/ s.open = {}
           \/ s.http # {} \/ ~s.shutting_down
  PROVE  Inv(To(c, r, stage, s), k)
<1> DEFINE n == To(c, r, stage, s)
<1>1. s \in Servers /\ stage \in Stages /\ Threads(s)
  BY MidwayThreads DEF Inv, Stages
<1>2. /\ n \in Servers
      /\ n.build = s.build /\ n.open = s.open /\ n.waiting = s.waiting
      /\ n.failures = s.failures /\ n.handled = s.handled
      /\ n.http = s.http /\ n.comms = s.comms /\ n.phase = s.phase
      /\ n.frame = s.frame /\ n.ups = s.ups /\ n.told = s.told
      /\ n.asked = s.asked /\ n.shutting_down = s.shutting_down
      /\ n.walk = s.walk /\ n.seen = s.seen /\ n.thrown = s.thrown
      /\ \A d \in Conns, q \in Runners :
           n.ending[d][q] = IF d = c /\ q = r THEN stage ELSE s.ending[d][q]
  BY <1>1, ToFacts
<1> HIDE DEF n
<1>3. \A d \in Conns, q \in Runners :
        /\ n.ending[d][q] = "told" <=> s.ending[d][q] = "told"
        /\ n.ending[d][q] = "found" <=> s.ending[d][q] = "found"
  BY <1>2
<1>4. Ends(n)
  <2>1. \A d \in Conns : d \in n.http /\ n.told[d] > 0
                             => \E q \in Runners : n.ending[d][q] = "told"
    BY <1>2, <1>3 DEF Inv, Ends
  <2>2. \A d \in Conns, q \in Runners :
          /\ n.ending[d][q] \in {"found", "told"} => d \in n.ups
          /\ n.ending[d][q] = "told" => n.told[d] > 0
          /\ n.open # {} /\ d \notin n.http /\ n.ending[d][q] = "told"
               => \E e \in Conns : n.told[e] > 1
          /\ \A p \in Runners :
               p # q /\ n.ending[d][p] = "told" /\ n.ending[d][q] = "told" => n.told[d] > 1
    BY <1>2, <1>3 DEF Inv, Ends
  <2>3. Threads(n)
    BY <1>1, <1>2 DEF Threads
  <2> QED
    BY <1>2, <2>1, <2>2, <2>3 DEF Inv, Ends
<1>5. Closes(n)
  <2>1. ASSUME n.asked, n.walk \notin {"checked", "noted"}, n.http = {}, n.open # {}
        PROVE  Testing(n) \/ n.seen = {}
    <3>1. s.shutting_down
      BY <1>2, <2>1 DEF Inv, Closes
    <3>2. Testing(s) \/ s.seen = {}
      BY <1>2, <2>1 DEF Inv, Closes
    <3>3. CASE stage = "closing"
      BY <1>2, <3>3 DEF Testing
    <3>4. CASE s.ending[c][r] = "returned" /\ Testing(s)
      <4>1. PICK d \in Conns, q \in Runners : s.ending[d][q] \in {"erased", "closing"}
        BY <3>4 DEF Testing
      <4> QED
        BY <1>2, <3>4, <4>1 DEF Testing
    <3> QED
      BY <1>2, <2>1, <3>1, <3>2, <3>3, <3>4
  <2>2. \A d \in Conns, q \in Runners : n.ending[d][q] = "closing" => n.shutting_down
    BY <1>2 DEF Inv, Closes
  <2> QED
    BY <1>1, <1>2, <2>1, <2>2 DEF Inv, Closes, Threads
<1>6. Agreeing(n)
  BY <1>1, <1>2 DEF Agreeing, Threads
<1>7. Queued(n) = Queued(s) /\ Accepting(n) = Accepting(s)
  BY <1>2 DEF Queued, Accepting
<1>8. Accounted(n)
  BY <1>2, <1>7 DEF Inv, Accounted, Accepts
<1>9. Fresh(n, k)
  BY <1>2, <1>7 DEF Inv, Fresh
<1> QED
  BY <1>2, <1>4, <1>5, <1>6, <1>8, <1>9 DEF Inv, n

LEMMA TestsLastStep ==
  ASSUME calls \in Nat, Inv(srv, calls), NEW c \in Conns, NEW r \in Runners, TestsLast(c, r)
  PROVE  Inv(srv', calls')
<1> DEFINE stage == IF LastGone(srv) THEN "closing" ELSE "returned"
<1>1. /\ srv.ending[c][r] = "erased" /\ calls' = calls /\ srv' = To(c, r, stage, srv)
  BY DEF TestsLast, At, Does
<1>2. /\ stage \in {"closing", "returned", "none"}
      /\ stage = "closing" => srv.shutting_down
      /\ stage = "closing" \/ srv.http # {} \/ ~srv.shutting_down
  BY DEF LastGone
<1> HIDE DEF stage
<1> QED
  BY <1>1, <1>2, LaterInv

(* A server that is closed, between handlers or by one.                    *)
LEMMA ClosedInv ==
  ASSUME NEW k \in Nat, NEW s, Inv(s, k), k > 0, s.walk \in Walks,
         Threads(s) \/ s.http = {}, Threads(s) \/ s.walk \notin {"checked", "noted"}
  PROVE  Inv(CloseServer(s), k)
<1> DEFINE n == CloseServer(s)
<1>1. s \in Servers
  BY DEF Inv
<1>2. n \in Servers
  BY <1>1, CloseServerType
<1>3. /\ n.comms = {} /\ n.open = {} /\ n.ending = s.ending
      /\ n.build = s.build /\ n.http = s.http /\ n.ups = s.ups
      /\ n.phase = s.phase /\ n.told = s.told
      /\ n.asked = s.asked /\ n.shutting_down = s.shutting_down
      /\ n.walk = s.walk /\ n.seen = s.seen
  BY <1>1, CloseServerFields
<1> HIDE DEF n
<1>4. Agreeing(n)
  BY <1>3 DEF Inv, Agreeing, Threads
<1>5. Ends(n)
  BY <1>3 DEF Inv, Ends, Threads
<1>6. Closes(n)
  BY <1>3 DEF Inv, Closes, Threads
<1>7. Accounted(n) /\ Fresh(n, k)
  BY <1>3 DEF Accounted, Fresh
<1> QED
  BY <1>2, <1>4, <1>5, <1>6, <1>7 DEF Inv, n

LEMMA ClosesLastStep ==
  ASSUME calls \in Nat, Inv(srv, calls), NEW c \in Conns, NEW r \in Runners, ClosesLast(c, r)
  PROVE  Inv(srv', calls')
<1> DEFINE s == CloseServer(srv)
<1>1. /\ srv \in Servers /\ srv.ending[c][r] = "closing" /\ calls' = calls
      /\ srv' = Reap(To(c, r, "returned", s))
  BY DEF ClosesLast, At, Does, Inv
<1>2. Threads(srv) /\ calls > 0
  <2>1. srv.shutting_down
    BY <1>1 DEF Inv, Closes
  <2> QED
    BY <1>1, <2>1, MidwayThreads DEF Inv, Fresh
<1>3. Inv(s, calls)
  BY <1>1, <1>2, ClosedInv DEF Servers
<1>4. s.open = {} /\ s.ending = srv.ending
  BY <1>1, CloseServerFields
<1> HIDE DEF s
<1>5. Inv(To(c, r, "returned", s), calls)
  BY <1>1, <1>3, <1>4, LaterInv
<1> QED
  BY <1>1, <1>5, ReapInv

LEMMA LeavesStep ==
  ASSUME calls \in Nat, Inv(srv, calls), NEW c \in Conns, NEW r \in Runners, Leaves(c, r)
  PROVE  Inv(srv', calls')
<1> DEFINE t == To(c, r, "none", srv)
<1>1. /\ srv \in Servers /\ srv.ending[c][r] = "returned" /\ calls' = calls
  BY DEF Leaves, At, Does, Inv
<1>2. PICK keys \in Erasures(c, srv.comms, srv) : srv' = Reap([t EXCEPT !.comms = keys])
  BY DEF Leaves, Does
<1>3. keys \subseteq srv.comms /\ keys \subseteq Conns
  BY <1>1, <1>2, ErasuresType DEF Servers
<1>4. Threads(srv)
  BY <1>1, MidwayThreads
<1>5. Inv(t, calls)
  BY <1>1, LaterInv
<1>6. t.comms = srv.comms /\ t.build = srv.build /\ t \in Servers
  BY <1>1, <1>5 DEF Inv, To, Servers
<1> HIDE DEF t
<1> DEFINE n == [t EXCEPT !.comms = keys]
<1>7. /\ n \in Servers /\ n.comms = keys
      /\ n.build = t.build /\ n.open = t.open /\ n.waiting = t.waiting
      /\ n.failures = t.failures /\ n.handled = t.handled
      /\ n.http = t.http /\ n.phase = t.phase
      /\ n.frame = t.frame /\ n.ups = t.ups /\ n.told = t.told /\ n.ending = t.ending
      /\ n.asked = t.asked /\ n.shutting_down = t.shutting_down
      /\ n.walk = t.walk /\ n.seen = t.seen /\ n.thrown = t.thrown
  BY <1>3, <1>6 DEF Servers
<1> HIDE DEF n
<1>8. Agreeing(n)
  BY <1>4, <1>6, <1>7 DEF Agreeing, Threads
<1>9. Ends(n)
  BY <1>3, <1>5, <1>6, <1>7 DEF Inv, Ends, Threads
<1>10. Closes(n)
  <2>1. Testing(n) = Testing(t)
    BY <1>7 DEF Testing
  <2> QED
    BY <1>5, <1>7, <2>1 DEF Inv, Closes, Threads
<1>11. Queued(n) = Queued(t) /\ Accepting(n) = Accepting(t)
  BY <1>7 DEF Queued, Accepting
<1>12. Accounted(n)
  BY <1>5, <1>7, <1>11 DEF Inv, Accounted, Accepts
<1>13. Fresh(n, calls)
  BY <1>5, <1>7, <1>11 DEF Inv, Fresh
<1>14. Inv(n, calls)
  BY <1>7, <1>8, <1>9, <1>10, <1>12, <1>13 DEF Inv
<1> QED
  BY <1>1, <1>2, <1>14, ReapInv DEF n

LEMMA SendStep ==
  ASSUME calls \in Nat, Inv(srv, calls), NEW c \in Conns, Send(c)
  PROVE  Inv(srv', calls')
<1> DEFINE s == [srv EXCEPT !.busy = @ \cup {c}]
<1>1. /\ srv \in Servers /\ MayDisconnect(c)
      /\ \/ calls' = calls /\ srv' = s
         \/ calls' = calls + 1 /\ \E n \in Shutdowns(c, "call", s) : srv' = Reap(n)
  BY DEF Send, Called, Does, Inv
<1>2. s \in Servers /\ SameCore(s, srv)
  BY <1>1 DEF SameCore, Servers
<1> HIDE DEF s
<1>3. Inv(s, calls) /\ Inv(s, calls + 1)
  BY <1>2, CoreInv, CalledInv
<1>4. Free(c, "call", s) /\ "call" \in Runners
  BY <1>1, <1>2, CallFree DEF Runners, Free, SameCore, Threads
<1> QED
  BY <1>1, <1>3, <1>4, ShutdownsInv, ReapInv

LEMMA DropStep ==
  ASSUME calls \in Nat, Inv(srv, calls), NEW c \in Conns, Drop(c)
  PROVE  Inv(srv', calls')
<1>1. /\ calls' = calls + 1 /\ MayDisconnect(c)
      /\ \E n \in Disconnects(c, "call", srv) : srv' = Reap(n)
  BY DEF Drop, Called
<1>2. Inv(srv, calls + 1)
  BY CalledInv
<1>3. Free(c, "call", srv) /\ "call" \in Runners
  BY <1>1, CallFree DEF Runners
<1> QED
  BY <1>1, <1>2, <1>3, DisconnectsInv, ReapInv

(* The steps of shutdown() that only note where it is.                     *)
SameButWalk(n, s) ==
  /\ n.build = s.build /\ n.open = s.open /\ n.waiting = s.waiting
  /\ n.failures = s.failures /\ n.handled = s.handled
  /\ n.http = s.http /\ n.comms = s.comms /\ n.phase = s.phase /\ n.frame = s.frame
  /\ n.ending = s.ending /\ n.ups = s.ups /\ n.told = s.told /\ n.thrown = s.thrown

LEMMA NotingInv ==
  ASSUME NEW k \in Nat, NEW s, Inv(s, k), NEW n \in Servers, SameButWalk(n, s),
         Closes(n), n.shutting_down \/ n.walk # "idle" => k > 0
  PROVE  Inv(n, k)
<1>1. Agreeing(n)
  BY DEF Inv, SameButWalk, Agreeing, Threads
<1>2. Ends(n)
  BY DEF Inv, SameButWalk, Ends, Threads
<1>3. Queued(n) = Queued(s) /\ Accepting(n) = Accepting(s)
  BY DEF Queued, Accepting, SameButWalk
<1>4. Accounted(n)
  BY <1>3 DEF Inv, SameButWalk, Accounted, Accepts
<1>5. Fresh(n, k)
  BY <1>3 DEF Inv, SameButWalk, Fresh
<1> QED
  BY <1>1, <1>2, <1>4, <1>5 DEF Inv

LEMMA ShutdownStep ==
  ASSUME calls \in Nat, Inv(srv, calls), Shutdown
  PROVE  Inv(srv', calls')
<1>1. /\ srv \in Servers /\ calls' = calls + 1 /\ srv.http # {}
      /\ srv' = [srv EXCEPT !.walk = "checked", !.asked = TRUE]
  BY DEF Shutdown, Called, Inv
<1>2. srv' \in Servers /\ SameButWalk(srv', srv) /\ srv'.walk = "checked"
      /\ srv'.asked = TRUE /\ srv'.shutting_down = srv.shutting_down
  BY <1>1 DEF Servers, Walks, SameButWalk
<1>3. Closes(srv')
  BY <1>1, <1>2 DEF Inv, Closes, SameButWalk, Threads
<1> QED
  BY <1>1, <1>2, <1>3, CalledInv, NotingInv

LEMMA NoteShutdownStep ==
  ASSUME calls \in Nat, Inv(srv, calls), NoteShutdown
  PROVE  Inv(srv', calls')
<1>1. /\ srv \in Servers /\ calls' = calls /\ srv.walk = "checked"
      /\ srv' = [srv EXCEPT !.walk = "noted", !.shutting_down = TRUE]
  BY DEF NoteShutdown, Does, Inv, Note
<1>2. srv' \in Servers /\ SameButWalk(srv', srv) /\ srv'.walk = "noted"
      /\ srv'.asked = srv.asked /\ srv'.shutting_down = TRUE
  BY <1>1 DEF Servers, Walks, SameButWalk
<1>3. Closes(srv')
  BY <1>1, <1>2 DEF Inv, Closes, SameButWalk, Threads
<1>4. calls > 0
  BY <1>1 DEF Inv, Fresh
<1> QED
  BY <1>1, <1>2, <1>3, <1>4, NotingInv

LEMMA StartWalkStep ==
  ASSUME calls \in Nat, Inv(srv, calls), StartWalk
  PROVE  Inv(srv', calls')
<1>1. /\ srv \in Servers /\ calls' = calls /\ srv.walk = "noted"
      /\ srv' = [srv EXCEPT !.walk = "walking", !.left = srv.http, !.seen = srv.http]
  BY DEF StartWalk, Does, Inv
<1>2. srv' \in Servers /\ SameButWalk(srv', srv) /\ srv'.walk = "walking"
      /\ srv'.asked = srv.asked /\ srv'.shutting_down = srv.shutting_down
      /\ srv'.seen = srv.http
  BY <1>1 DEF Servers, Walks, SameButWalk
<1>3. Closes(srv')
  BY <1>1, <1>2 DEF Inv, Closes, SameButWalk, Threads
<1>4. calls > 0
  BY <1>1 DEF Inv, Fresh
<1> QED
  BY <1>1, <1>2, <1>3, <1>4, NotingInv

LEMMA WalkStepStep ==
  ASSUME calls \in Nat, Inv(srv, calls), NEW c \in Conns, WalkStep(c)
  PROVE  Inv(srv', calls')
<1>1. PICK n \in Disconnects(c, "walk", srv) :
        LET t == [n EXCEPT !.left = @ \ {c}]
        IN  Does(IF ~Threads(srv) /\ c \notin t.http
                 THEN [t EXCEPT !.undefined = TRUE] ELSE Reap(t))
  BY DEF WalkStep
<1> DEFINE t == [n EXCEPT !.left = @ \ {c}]
           u == [t EXCEPT !.undefined = TRUE]
<1>2. calls' = calls /\ (srv' = u \/ srv' = Reap(t))
  BY <1>1 DEF Does
<1>3. Free(c, "walk", srv) /\ "walk" \in Runners
  BY DEF WalkStep, WalksFreely, Free, Runners
<1>4. Inv(n, calls)
  BY <1>3, DisconnectsInv
<1>5. t \in Servers /\ SameCore(t, n) /\ u \in Servers /\ SameCore(u, n)
  BY <1>4 DEF Inv, SameCore, Servers
<1> HIDE DEF t, u
<1> QED
  BY <1>2, <1>4, <1>5, CoreInv, ReapInv

LEMMA EndWalkStep ==
  ASSUME calls \in Nat, Inv(srv, calls), EndWalk
  PROVE  Inv(srv', calls')
<1> DEFINE lost == \E c \in srv.seen \ srv.http : ~Alive(c, srv)
<1>1. /\ srv \in Servers /\ calls' = calls /\ srv.walk = "walking" /\ lost \in BOOLEAN
      /\ srv' = [srv EXCEPT !.walk = "idle", !.undefined = lost]
  BY DEF EndWalk, Does, Inv
<1> HIDE DEF lost
<1>2. srv' \in Servers /\ SameButWalk(srv', srv) /\ srv'.walk = "idle"
      /\ srv'.asked = srv.asked /\ srv'.shutting_down = srv.shutting_down
      /\ srv'.seen = srv.seen
  BY <1>1 DEF Servers, Walks, SameButWalk
<1>3. Closes(srv')
  <2>1. Testing(srv') = Testing(srv)
    BY <1>2 DEF Testing, SameButWalk
  <2> QED
    BY <1>1, <1>2, <2>1 DEF Inv, Closes, SameButWalk, Threads
<1>4. calls > 0
  BY <1>1 DEF Inv, Fresh
<1> QED
  BY <1>1, <1>2, <1>3, <1>4, NotingInv

LEMMA CloseStep ==
  ASSUME calls \in Nat, Inv(srv, calls), Close
  PROVE  Inv(srv', calls')
<1> DEFINE s == [CloseServer(srv) EXCEPT !.http = {}]
           lost == \E c \in srv.http : ~Alive(c, srv)
           n == [s EXCEPT !.undefined = lost]
<1>1. /\ srv \in Servers /\ calls' = calls + 1 /\ lost \in BOOLEAN /\ srv' = Reap(n)
      /\ (Threads(srv) \/ srv.walk = "idle")
  BY DEF Close, Called, Inv, MayCall
<1>2. CloseServer(srv) \in Servers
  BY <1>1, CloseServerType
<1> HIDE DEF lost
<1>3. /\ n \in Servers /\ n.comms = {} /\ n.open = {} /\ n.http = {}
      /\ n.ending = srv.ending
      /\ n.build = srv.build /\ n.ups = srv.ups
      /\ n.phase = srv.phase /\ n.told = srv.told
      /\ n.asked = srv.asked /\ n.shutting_down = srv.shutting_down
      /\ n.walk = srv.walk /\ n.seen = srv.seen
  <2> DEFINE t == CloseServer(srv)
  <2>1. /\ t.comms = {} /\ t.open = {} /\ t.ending = srv.ending
        /\ t.build = srv.build /\ t.ups = srv.ups
        /\ t.phase = srv.phase /\ t.told = srv.told
        /\ t.asked = srv.asked /\ t.shutting_down = srv.shutting_down
        /\ t.walk = srv.walk /\ t.seen = srv.seen
    BY <1>1, CloseServerFields
  <2>2. t \in Servers /\ n = [[t EXCEPT !.http = {}] EXCEPT !.undefined = lost]
    BY <1>2
  <2> HIDE DEF t, n
  <2> QED
    BY <1>1, <2>1, <2>2 DEF Servers
<1> HIDE DEF n
<1>4. Agreeing(n)
  BY <1>3 DEF Inv, Agreeing, Threads
<1>5. Ends(n)
  BY <1>3 DEF Inv, Ends, Threads
<1>6. Closes(n)
  BY <1>1, <1>3 DEF Inv, Closes, Threads
<1>7. Accounted(n) /\ Fresh(n, calls + 1)
  BY <1>3 DEF Accounted, Fresh
<1>8. Inv(n, calls + 1)
  BY <1>3, <1>4, <1>5, <1>6, <1>7 DEF Inv
<1> QED
  BY <1>1, <1>8, ReapInv

-----------------------------------------------------------------------------
(* Together.                                                               *)
LEMMA InitInv == Init => Inv(srv, calls)
<1> SUFFICES ASSUME Init
             PROVE  Inv(srv, calls)
  OBVIOUS
<1>1. srv \in Servers
  <2>1. /\ [f \in Families |-> 0] \in [Families -> Nat]
        /\ [c \in Conns |-> "none"] \in [Conns -> Phases]
        /\ [c \in Conns |-> "none"] \in [Conns -> Frames]
        /\ [c \in Conns |-> 0] \in [Conns -> Nat]
        /\ [c \in Conns |-> [r \in Runners |-> "none"]] \in [Conns -> [Runners -> Stages]]
        /\ "idle" \in Walks
    BY DEF Phases, Frames, Walks, Stages
  <2>2. PICK b \in Builds :
          srv = [ build |-> b, open |-> {}, waiting |-> [f \in Families |-> 0],
                  failures |-> 0, handled |-> 0, http |-> {}, comms |-> {},
                  phase |-> [c \in Conns |-> "none"],
                  frame |-> [c \in Conns |-> "none"],
                  busy |-> {}, leaving |-> {}, shut |-> {},
                  ending |-> [c \in Conns |-> [r \in Runners |-> "none"]],
                  failed |-> {}, ups |-> {}, told |-> [c \in Conns |-> 0],
                  asked |-> FALSE, shutting_down |-> FALSE,
                  walk |-> "idle", left |-> {}, seen |-> {},
                  thrown |-> FALSE, undefined |-> FALSE ]
    BY DEF Init
  <2> QED
    BY <2>1, <2>2 DEF Servers
<1>2. Agreeing(srv)
  <2>1. \A c \in Conns, r \in Runners : srv.ending[c][r] = "none"
    BY DEF Init
  <2> QED
    BY <2>1 DEF Init, Agreeing, Threads
<1>3. Ends(srv)
  <2>1. \A c \in Conns, r \in Runners : srv.ending[c][r] = "none"
    BY DEF Init
  <2>2. \A c \in Conns : srv.told[c] = 0
    BY DEF Init
  <2> QED
    BY <2>1, <2>2 DEF Init, Ends
<1>4. Closes(srv) /\ Accounted(srv)
  <2>1. \A c \in Conns, r \in Runners : srv.ending[c][r] = "none"
    BY DEF Init
  <2> QED
    BY <2>1 DEF Init, Closes, Accounted
<1>5. Fresh(srv, calls)
  BY DEF Init, Fresh, Queued, Accepting
<1> QED
  BY <1>1, <1>2, <1>3, <1>4, <1>5 DEF Inv

LEMMA NextInv ==
  ASSUME calls \in Nat, Inv(srv, calls), [Next]_vars
  PROVE  Inv(srv', calls')
<1>1. CASE UNCHANGED vars
  BY <1>1 DEF vars
<1>2. CASE Handlers
  <2>1. ASSUME NEW c \in Conns,
               \/ AcceptRefused(c) \/ AcceptSsl(c) \/ AcceptTcp(c)
               \/ AcceptThrows(c) \/ HandshakeEnds(c) \/ EventReturns(c)
        PROVE  Inv(srv', calls')
    BY <2>1, AcceptRefusedStep, AcceptSslStep, AcceptTcpStep, AcceptThrowsStep,
       HandshakeEndsStep, EventReturnsStep
  <2>2. ASSUME NEW c \in Conns,
               \/ Received(c) \/ Written(c) \/ WriteFails(c)
               \/ Lost(c) \/ PeerLeaves(c) \/ WalkStep(c)
        PROVE  Inv(srv', calls')
    BY <2>2, ReceivedStep, WrittenStep, WriteFailsStep, LostStep, PeerLeavesStep,
       WalkStepStep
  <2>3. CASE AcceptError \/ NoteShutdown \/ StartWalk \/ EndWalk
    BY <2>3, AcceptErrorStep, NoteShutdownStep, StartWalkStep, EndWalkStep
  <2>4. ASSUME NEW c \in Conns, NEW r \in Runners, Continues(c, r)
        PROVE  Inv(srv', calls')
    BY <2>4, TellsStep, ErasesStep, TestsLastStep, ClosesLastStep, LeavesStep DEF Continues
  <2> QED
    BY <1>2, <2>1, <2>2, <2>3, <2>4 DEF Handlers
<1>3. CASE Network
  BY <1>3, ArrivesStep, AcceptFailsStep DEF Network
<1>4. CASE Application
  BY <1>4, AcceptConnectionsStep, SendStep, DropStep, ShutdownStep, CloseStep
     DEF Application
<1> QED
  BY <1>1, <1>2, <1>3, <1>4 DEF Next

LEMMA CallsAreCounted ==
  ASSUME calls \in Nat, [Next]_vars
  PROVE  calls' \in Nat
<1>1. calls' = calls \/ calls' = calls + 1
  <2>1. CASE Handlers
    <3>1. ASSUME NEW c \in Conns, NEW r \in Runners, Continues(c, r)
          PROVE  calls' = calls
      BY <3>1 DEF Continues, Tells, Erases, TestsLast, ClosesLast, Leaves, Does
    <3> QED
      BY <2>1, <3>1 DEF Handlers, AcceptError, NoteShutdown, StartWalk, EndWalk,
         AcceptRefused, AcceptSsl, AcceptTcp, AcceptThrows, HandshakeEnds, EventReturns,
         Received, Written, WriteFails, Lost, PeerLeaves, WalkStep, Does, Called
  <2>2. CASE Network
    BY <2>2 DEF Network, Arrives, AcceptFails, Does, Called
  <2>3. CASE Application
    BY <2>3 DEF Application, AcceptConnections, Send, Drop, Shutdown, Close,
       MayDisconnect, Does, Called
  <2> QED
    BY <2>1, <2>2, <2>3 DEF Next, vars
<1> QED
  BY <1>1

IInv == Inv(srv, calls) /\ calls \in Nat

LEMMA Invariance == Spec => []IInv
<1>1. Init => IInv
  BY InitInv DEF Init, IInv
<1>2. IInv /\ [Next]_vars => IInv'
  BY NextInv, CallsAreCounted DEF IInv
<1> QED
  BY <1>1, <1>2, PTL DEF Spec

(* The server's fields keep their types.                                   *)
THEOREM TypeCorrect == Spec => []TypeOK
<1>1. IInv => TypeOK
  BY DEF IInv, Inv, TypeOK
<1> QED
  BY <1>1, Invariance, PTL

(* http_connections_ and connections_ hold the same connections that are   *)
(* up, in the build "map".                                                 *)
THEOREM CollectionsAlwaysAgree == Spec => []CollectionsAgree
<1>1. IInv => CollectionsAgree
  BY DEF IInv, Inv, Agreeing, CollectionsAgree
<1> QED
  BY <1>1, Invariance, PTL

(* The application is told of every connection's end while the server      *)
(* accepts, and in the build "map" once; in the build "hash_map" an end    *)
(* goes untold only when another has been told twice.                      *)
THEOREM EndsAreTold == Spec => []EveryEndIsTold
<1>1. IInv => EveryEndIsTold
  BY DEF IInv, Inv, Servers, Ends, EveryEndIsTold, ToldTwice
<1> QED
  BY <1>1, Invariance, PTL

(* The accepts in progress are those that start_accept's loop accounts     *)
(* for: an open acceptor is never left without one.                        *)
THEOREM AcceptsAlwaysGoOn == Spec => []AcceptsGoOn
<1>1. IInv => AcceptsGoOn
  BY DEF IInv, Inv, Accounted, Accepts, Queued, Accepting, AcceptsGoOn, InProgress
<1> QED
  BY <1>1, Invariance, PTL

(* The last connection to go closes the server that shutdown() is asked    *)
(* to shut down, whatever threads handle the ends, unless all that it      *)
(* found go before it notes that it shuts down (build "hash_map").         *)
THEOREM LastOneAlwaysCloses == Spec => []LastOneCloses
<1>1. IInv => LastOneCloses
  BY DEF IInv, Inv, Closes, Testing, LastOneCloses, ShutdownNoted, GoneUnnoticed
<1> QED
  BY <1>1, Invariance, PTL
=============================================================================
