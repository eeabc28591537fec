----------------------- MODULE HttpReceiverCuts_proofs -----------------------
(***************************************************************************)
(* More proofs about HttpReceiver: for any configuration, limits, messages *)
(* and sizes of the reads, the way in which a stream is cut into reads     *)
(* makes no difference to what is understood of it, but for the cuts that  *)
(* the model names (BadCut).                                               *)
(*                                                                         *)
(* Every parse, then a call of receive, and at last the receive loop is    *)
(* given two buffers, first one after the other and then in one: either    *)
(* the first is enough to end it, and it ends the same with both, or it    *)
(* goes on with the second as if it had not been interrupted.              *)
(***************************************************************************)
EXTENDS HttpReceiver_proofs

-----------------------------------------------------------------------------
(* Two buffers and the two in one.                                        *)

(* What is left of a buffer after its first k tokens.                     *)
LEMMA FromHas ==
  ASSUME NEW buf \in Seq(Tokens), NEW k \in Nat, k <= Len(buf)
  PROVE  /\ From(buf, k + 1) \in Seq(Tokens) /\ Len(From(buf, k + 1)) = Len(buf) - k
         /\ \A i \in 1 .. Len(buf) - k : From(buf, k + 1)[i] = buf[k + i]
<1>1. Len(buf) \in Nat
  BY LenProperties
<1>2. \A i \in k + 1 .. Len(buf) : buf[i] \in Tokens
  BY <1>1, ElementOfSeq
<1>3. /\ From(buf, k + 1) \in Seq(Tokens)
      /\ Len(From(buf, k + 1)) = IF k + 1 <= Len(buf) THEN Len(buf) - (k + 1) + 1 ELSE 0
      /\ \A i \in 1 .. Len(buf) - (k + 1) + 1 : From(buf, k + 1)[i] = buf[k + 1 + i - 1]
  <2>1. k + 1 \in Int /\ Len(buf) \in Int
    BY <1>1
  <2> QED BY <1>2, <2>1, SubSeqProperties DEF From
<1> QED BY <1>1, <1>3

(* Two buffers in one: the tokens of the first, then those of the second. *)
LEMMA JoinedHas ==
  ASSUME NEW a \in Seq(Tokens), NEW b \in Seq(Tokens)
  PROVE  /\ a \o b \in Seq(Tokens) /\ Len(a \o b) = Len(a) + Len(b)
         /\ \A i \in 1 .. Len(a) : (a \o b)[i] = a[i]
         /\ \A i \in 1 .. Len(b) : (a \o b)[Len(a) + i] = b[i]
<1>1. Len(a) \in Nat /\ Len(b) \in Nat
  BY LenProperties
<1>2. /\ a \o b \in Seq(Tokens) /\ Len(a \o b) = Len(a) + Len(b)
      /\ \A i \in 1 .. Len(a) + Len(b) : (a \o b)[i] = IF i <= Len(a) THEN a[i] ELSE b[i - Len(a)]
  BY ConcatProperties
<1>3. \A i \in 1 .. Len(a) : i \in 1 .. Len(a) + Len(b) /\ i <= Len(a)
  BY <1>1
<1>4. \A i \in 1 .. Len(b) : /\ Len(a) + i \in 1 .. Len(a) + Len(b) /\ ~(Len(a) + i <= Len(a))
                             /\ Len(a) + i - Len(a) = i
  BY <1>1
<1> QED BY <1>2, <1>3, <1>4

(* What is left after some tokens of the first buffer: the rest of it,
   and the second. *)
LEMMA FromFirst ==
  ASSUME NEW a \in Seq(Tokens), NEW b \in Seq(Tokens), NEW k \in Nat, k <= Len(a)
  PROVE  From(a \o b, k + 1) = From(a, k + 1) \o b
<1> DEFINE x == From(a, k + 1)
           y == From(a \o b, k + 1)
           z == x \o b
<1>1. Len(a) \in Nat /\ Len(b) \in Nat
  BY LenProperties
<1>2. /\ x \in Seq(Tokens) /\ Len(x) = Len(a) - k
      /\ \A i \in 1 .. Len(a) - k : x[i] = a[k + i]
  BY FromHas
<1>3. /\ a \o b \in Seq(Tokens) /\ Len(a \o b) = Len(a) + Len(b)
      /\ \A i \in 1 .. Len(a) : (a \o b)[i] = a[i]
      /\ \A i \in 1 .. Len(b) : (a \o b)[Len(a) + i] = b[i]
  BY JoinedHas
<1>4. /\ y \in Seq(Tokens) /\ Len(y) = Len(a \o b) - k
      /\ \A i \in 1 .. Len(a \o b) - k : y[i] = (a \o b)[k + i]
  <2>1. k <= Len(a \o b)
    BY <1>1, <1>3
  <2> QED BY <1>3, <2>1, FromHas
<1>5. /\ z \in Seq(Tokens) /\ Len(z) = Len(x) + Len(b)
      /\ \A i \in 1 .. Len(x) : z[i] = x[i]
      /\ \A i \in 1 .. Len(b) : z[Len(x) + i] = b[i]
  BY <1>2, JoinedHas
<1> HIDE DEF x, y, z
<1>6. Len(y) = Len(z)
  BY <1>1, <1>2, <1>3, <1>4, <1>5
<1>7. ASSUME NEW i \in 1 .. Len(y) PROVE y[i] = z[i]
  <2>1. y[i] = (a \o b)[k + i]
    BY <1>4
  <2>2. CASE i <= Len(a) - k
    <3>1. i \in 1 .. Len(a) - k /\ i \in 1 .. Len(x) /\ k + i \in 1 .. Len(a)
      BY <1>1, <1>2, <2>2
    <3> QED BY <1>2, <1>3, <1>5, <2>1, <3>1
  <2>3. CASE ~(i <= Len(a) - k)
    <3> DEFINE j == i - (Len(a) - k)
    <3>1. j \in 1 .. Len(b) /\ Len(x) + j = i /\ Len(a) + j = k + i
      BY <1>1, <1>2, <1>3, <1>4, <2>3
    <3> HIDE DEF j
    <3> QED BY <1>3, <1>5, <2>1, <3>1
  <2> QED BY <2>2, <2>3
<1>8. y = z
  BY <1>4, <1>5, <1>6, <1>7, SeqEqual
<1> QED BY <1>8 DEF x, y, z

(* What is left after the whole first buffer and k tokens of the second.  *)
LEMMA FromSecond ==
  ASSUME NEW a \in Seq(Tokens), NEW b \in Seq(Tokens), NEW k \in Nat, k <= Len(b)
  PROVE  From(a \o b, Len(a) + k + 1) = From(b, k + 1)
<1> DEFINE m == Len(a) + k
           x == From(b, k + 1)
           y == From(a \o b, m + 1)
<1>1. Len(a) \in Nat /\ Len(b) \in Nat /\ m \in Nat
  BY LenProperties
<1>2. /\ x \in Seq(Tokens) /\ Len(x) = Len(b) - k
      /\ \A i \in 1 .. Len(b) - k : x[i] = b[k + i]
  BY FromHas
<1>3. /\ a \o b \in Seq(Tokens) /\ Len(a \o b) = Len(a) + Len(b)
      /\ \A i \in 1 .. Len(b) : (a \o b)[Len(a) + i] = b[i]
  BY JoinedHas
<1> HIDE DEF x
<1>4. /\ y \in Seq(Tokens) /\ Len(y) = Len(a \o b) - m
      /\ \A i \in 1 .. Len(a \o b) - m : y[i] = (a \o b)[m + i]
  <2>1. m <= Len(a \o b)
    BY <1>1, <1>3
  <2> HIDE DEF m
  <2> QED BY <1>1, <1>3, <2>1, FromHas
<1> HIDE DEF y
<1>5. Len(y) = Len(x) /\ Len(y) = Len(b) - k
  BY <1>1, <1>2, <1>3, <1>4
<1>6. ASSUME NEW i \in 1 .. Len(y) PROVE y[i] = x[i]
  <2>1. /\ i \in 1 .. Len(b) - k /\ i \in 1 .. Len(a \o b) - m
        /\ k + i \in 1 .. Len(b) /\ m + i = Len(a) + (k + i)
    BY <1>1, <1>3, <1>5
  <2> HIDE DEF m
  <2> QED BY <1>2, <1>3, <1>4, <2>1
<1>7. x = y
  BY <1>2, <1>4, <1>5, <1>6, SeqEqual
<1>8. m + 1 = Len(a) + k + 1
  OBVIOUS
<1> QED BY <1>7, <1>8 DEF x, y

(* The head and the tail of two buffers in one are those of the first,
   unless it is empty. *)
LEMMA JoinedHead ==
  ASSUME NEW a \in Seq(Tokens), NEW b \in Seq(Tokens)
  PROVE  /\ a \o b \in Seq(Tokens) /\ <<>> \o b = b
         /\ a # <<>> => /\ a \o b # <<>> /\ Head(a \o b) = Head(a)
                        /\ Tail(a \o b) = Tail(a) \o b /\ Tail(a) \in Seq(Tokens)
         /\ b # <<>> => a \o b # <<>>
<1>1. a \o b \in Seq(Tokens) /\ <<>> \o b = b /\ (a \o b = <<>> => a = <<>> /\ b = <<>>)
  BY JoinedHas, ConcatEmptySeq, ConcatEqualIffEmpty
<1>2. ASSUME a # <<>>
      PROVE  Head(a \o b) = Head(a) /\ Tail(a \o b) = Tail(a) \o b /\ Tail(a) \in Seq(Tokens)
  <2>1. Len(a) \in Nat /\ 1 <= Len(a) /\ 1 \in 1 .. Len(a)
    BY <1>2, LenProperties, EmptySeq
  <2>2. (a \o b)[1] = a[1]
    BY <2>1, JoinedHas
  <2>3. From(a \o b, 1 + 1) = From(a, 1 + 1) \o b
    BY <2>1, FromFirst
  <2>4. Tail(a \o b) = From(a \o b, 1 + 1) /\ Tail(a) = From(a, 1 + 1)
    BY <1>1, <1>2, TailIsSubSeq DEF From
  <2>5. Tail(a) \in Seq(Tokens)
    BY <1>2, HeadTailProperties
  <2> QED BY <1>1, <1>2, <2>2, <2>3, <2>4, <2>5
<1> QED BY <1>1, <1>2

-----------------------------------------------------------------------------
(* A line.                                                                *)

\* The result of a parse, when b follows the buffer.
Joined(p, b) == Parsed(p.to, p.rest \o b, p.ok, p.bad)

(* A line parse on two buffers, p for the first and w for both in one.    *)
ScanSplit(line, s, a, b) ==
  LET p == Scan(line, s, a)
      w == Scan(line, s, a \o b)
  IN  /\ p.bad => w = Joined(p, b)
      /\ p.ok /\ (line = "field" /\ p.rest = <<>> => Head(b) # " ") => w = Joined(p, b)
      /\ ~p.ok /\ ~p.bad => w = Scan(line, p.to, b)

(* A line parse that ends in the first buffer ends there in both in one,
   except for a complete header line at the end of the buffer, which a
   blank would continue; one that runs out of the first buffer goes on
   with the second from the state it was left in. *)
LEMMA ScanSplits ==
  ASSUME NEW line, NEW S, NEW Fine, NEW s \in S, s \in Fine, Reads(line, S, Fine),
         NEW a \in Seq(Tokens), NEW b \in Seq(Tokens), b # <<>>
  PROVE  ScanSplit(line, s, a, b)
<1> DEFINE n == Len(a)
           m == Len(b)
           ab == a \o b
           p == Scan(line, s, a)
           w == Scan(line, s, ab)
<1>1. n \in Nat /\ m \in Nat /\ 1 <= m
  BY LenProperties, EmptySeq
<1>2. /\ ab \in Seq(Tokens) /\ Len(ab) = n + m
      /\ \A i \in 1 .. n : ab[i] = a[i]
      /\ \A i \in 1 .. m : ab[n + i] = b[i]
  BY JoinedHas
<1>3. PICK g : ScanRun(g, line, S, Fine, s, a)
  BY ScanRuns
<1>4. PICK f : ScanRun(f, line, S, Fine, s, ab)
  BY <1>2, ScanRuns
<1> HIDE DEF ab
<1>5. /\ g[0] = ScanStart(s)
      /\ \A i \in 1 .. n : g[i] = Feed(line, g[i - 1], a[i])
      /\ \A i \in 0 .. n : g[i] \in ScanHeld(S, Fine, i)
      /\ p = Scanned(g[n], a)
  BY <1>3 DEF ScanRun
<1>6. /\ f[0] = ScanStart(s)
      /\ \A i \in 1 .. n + m : f[i] = Feed(line, f[i - 1], ab[i])
      /\ w = Scanned(f[n + m], ab)
  BY <1>2, <1>4 DEF ScanRun
<1> HIDE DEF p, w
<1>7. f[n] = g[n]
  <2> DEFINE Good == {i \in 0 .. n : f[i] = g[i]}
  <2>1. 0 \in Good
    BY <1>1, <1>5, <1>6
  <2>2. \A i \in 1 .. n : i - 1 \in Good => i \in Good
    <3> TAKE i \in 1 .. n
    <3> HAVE i - 1 \in Good
    <3>1. i \in 1 .. n + m /\ i \in 0 .. n
      BY <1>1
    <3> QED BY <1>2, <1>5, <1>6, <3>1
  <2> HIDE DEF Good
  <2>3. n \in Good
    <3>1. 0 .. n \subseteq Good
      BY <1>1, <2>1, <2>2, CountUp
    <3> QED BY <1>1, <3>1
  <2> QED BY <2>3 DEF Good
<1>8. PICK e : e = g[n]
  OBVIOUS
<1>9. /\ e \in [to : S, ok : BOOLEAN, used : Nat, open : BOOLEAN]
      /\ e.used <= n /\ (e.open => e.used = n)
      /\ e.open \/ ~e.ok \/ e.to.st = "VALID"
      /\ e.ok => e.to \in Fine
  <2>1. n \in 0 .. n
    BY <1>1
  <2> QED BY <1>5, <1>8, <2>1 DEF ScanHeld
<1>10. /\ p.to = e.to /\ p.rest = From(a, e.used + 1)
       /\ p.ok = (e.ok /\ e.to.st = "VALID")
       /\ p.bad = ~e.ok
  BY <1>5, <1>8 DEF Scanned, Parsed
<1>11. p.rest = <<>> <=> e.used = n
  <2>1. Len(From(a, e.used + 1)) = n - e.used /\ (n = e.used => From(a, e.used + 1) = <<>>)
    BY <1>9, LeftOf
  <2>2. Len(<<>>) = 0
    BY EmptySeq
  <2> QED BY <1>1, <1>9, <1>10, <2>1, <2>2
<1>12. \A i \in 1 .. m : /\ i \in 1 .. m /\ n + i \in 1 .. n + m /\ n + i - 1 = n + (i - 1)
                         /\ f[n + i] = Feed(line, f[n + (i - 1)], b[i])
  <2> TAKE i \in 1 .. m
  <2>1. n + i \in 1 .. n + m /\ n + i - 1 = n + (i - 1)
    BY <1>1
  <2> QED BY <1>2, <1>6, <2>1
<1>13. b[1] = Head(b) /\ 1 \in 1 .. m
  BY <1>1
<1>14. ASSUME e.ok => /\ e.to.st = "VALID"
                      /\ e.open => ~(line = "field" /\ Head(b) = " ")
       PROVE  w = Joined(p, b)
  <2> DEFINE z == [e EXCEPT !.open = FALSE]
             Good == {j \in 0 .. m : j # 0 => f[n + j] = z}
  <2>1. \A c : Feed(line, z, c) = z
    BY <1>9 DEF Feed
  <2>2. Feed(line, e, b[1]) = z
    BY <1>13, <1>14 DEF Feed, GoesOn
  <2> HIDE DEF z
  <2>3. 0 \in Good
    BY <1>1
  <2>4. \A j \in 1 .. m : j - 1 \in Good => j \in Good
    <3> TAKE j \in 1 .. m
    <3> HAVE j - 1 \in Good
    <3>1. CASE j = 1
      <4>1. f[n + 1] = Feed(line, f[n + 0], b[1]) /\ n + 0 = n
        BY <1>1, <1>12, <1>13
      <4> QED BY <1>1, <1>7, <1>8, <2>2, <3>1, <4>1
    <3>2. CASE j # 1
      <4>1. f[n + (j - 1)] = z
        BY <1>1, <3>2
      <4> QED BY <1>1, <1>12, <2>1, <4>1
    <3> QED BY <3>1, <3>2
  <2> HIDE DEF Good
  <2>5. m \in Good
    <3>1. 0 .. m \subseteq Good
      BY <1>1, <2>3, <2>4, CountUp
    <3> QED BY <1>1, <3>1
  <2>6. f[n + m] = z
    BY <1>1, <2>5 DEF Good
  <2>7. z.to = e.to /\ z.ok = e.ok /\ z.used = e.used
    BY <1>9 DEF z
  <2>8. From(ab, e.used + 1) = From(a, e.used + 1) \o b
    BY <1>9, FromFirst DEF ab
  <2>9. w = Parsed(e.to, From(a, e.used + 1) \o b, e.ok /\ e.to.st = "VALID", ~e.ok)
    BY <1>6, <2>6, <2>7, <2>8 DEF Scanned
  <2> QED BY <1>10, <2>9 DEF Joined
<1>15. ASSUME e.ok, e.to.st # "VALID"
       PROVE  w = Scan(line, e.to, b)
  <2>1. e.open = TRUE /\ e.used = n /\ e.to \in Fine /\ e.to \in S
    BY <1>9, <1>15
  <2>2. PICK h : ScanRun(h, line, S, Fine, e.to, b)
    BY <2>1, ScanRuns
  <2>3. /\ h[0] = ScanStart(e.to)
        /\ \A i \in 1 .. m : h[i] = Feed(line, h[i - 1], b[i])
        /\ \A i \in 0 .. m : h[i] \in ScanHeld(S, Fine, i)
        /\ Scan(line, e.to, b) = Scanned(h[m], b)
    BY <2>2 DEF ScanRun
  <2> DEFINE Shift(x) == [to |-> x.to, ok |-> x.ok, used |-> n + x.used, open |-> x.open]
             Good == {j \in 0 .. m : f[n + j] = Shift(h[j])}
  <2>4. \A i \in 0 .. m : h[i] \in [to : S, ok : BOOLEAN, used : Nat, open : BOOLEAN] /\ h[i].used <= i
    BY <2>3 DEF ScanHeld
  <2>5. ASSUME NEW x \in [to : S, ok : BOOLEAN, used : Nat, open : BOOLEAN], NEW c
        PROVE  Feed(line, Shift(x), c) = Shift(Feed(line, x, c))
    <3>1. CASE x.open /\ x.ok /\ GoesOn(line, x.to, c)
      <4>1. PICK y : y = ParseChar(line, x.to, c)
        OBVIOUS
      <4>2. Feed(line, x, c) = Fed(y, x.used + 1)
        BY <3>1, <4>1 DEF Feed
      <4>3. Feed(line, Shift(x), c) = Fed(y, (n + x.used) + 1)
        BY <3>1, <4>1 DEF Feed
      <4>4. (n + x.used) + 1 = n + (x.used + 1)
        BY <1>1
      <4>5. Shift(Fed(y, x.used + 1)) = Fed(y, n + (x.used + 1))
        BY DEF Fed
      <4> HIDE DEF Shift
      <4> QED BY <4>2, <4>3, <4>4, <4>5
    <3>2. CASE ~(x.open /\ x.ok /\ GoesOn(line, x.to, c))
      <4>1. Feed(line, x, c) = [x EXCEPT !.open = FALSE]
        BY <3>2 DEF Feed
      <4>2. Feed(line, Shift(x), c) = [Shift(x) EXCEPT !.open = FALSE]
        BY <3>2 DEF Feed
      <4>3. Shift([x EXCEPT !.open = FALSE]) = [Shift(x) EXCEPT !.open = FALSE]
        <5> DEFINE R == [to : S, ok : BOOLEAN, used : Nat, open : BOOLEAN]
                   y == [x EXCEPT !.open = FALSE]
                   z == [Shift(x) EXCEPT !.open = FALSE]
        <5>1. \A u, v \in R : /\ u.to = v.to /\ u.ok = v.ok
                             /\ u.used = v.used /\ u.open = v.open => u = v
          OBVIOUS
        <5>2. y \in R /\ y.to = x.to /\ y.ok = x.ok /\ y.used = x.used /\ y.open = FALSE
          OBVIOUS
        <5>3. Shift(x) \in R
          BY <1>1
        <5>4. z \in R /\ z.to = x.to /\ z.ok = x.ok /\ z.used = n + x.used /\ z.open = FALSE
          BY <5>3
        <5> HIDE DEF y, z
        <5>5. /\ Shift(y) \in R /\ Shift(y).to = x.to /\ Shift(y).ok = x.ok
              /\ Shift(y).used = n + x.used /\ Shift(y).open = FALSE
          BY <1>1, <5>2
        <5> HIDE DEF Shift, R
        <5>6. Shift(y) = z
          BY <5>1, <5>4, <5>5
        <5> QED BY <5>6 DEF y, z
      <4> HIDE DEF Shift
      <4> QED BY <4>1, <4>2, <4>3
    <3> QED BY <3>1, <3>2
  <2>6. 0 \in Good
    <3>1. e = [to |-> e.to, ok |-> TRUE, used |-> n, open |-> TRUE]
      BY <1>9, <1>15, <2>1
    <3>2. Shift(h[0]) = [to |-> e.to, ok |-> TRUE, used |-> n, open |-> TRUE]
      BY <1>1, <2>3 DEF ScanStart
    <3>3. f[n + 0] = e
      BY <1>1, <1>7, <1>8
    <3>4. 0 \in 0 .. m
      BY <1>1
    <3> HIDE DEF Shift
    <3> QED BY <3>1, <3>2, <3>3, <3>4
  <2>7. \A j \in 1 .. m : j - 1 \in Good => j \in Good
    <3> TAKE j \in 1 .. m
    <3> HAVE j - 1 \in Good
    <3>1. j - 1 \in 0 .. m /\ j \in 0 .. m /\ f[n + (j - 1)] = Shift(h[j - 1])
      BY <1>1
    <3> HIDE DEF Shift
    <3>2. f[n + j] = Feed(line, Shift(h[j - 1]), b[j])
      BY <1>12, <3>1
    <3>3. Feed(line, Shift(h[j - 1]), b[j]) = Shift(Feed(line, h[j - 1], b[j]))
      BY <2>4, <2>5, <3>1
    <3> QED BY <2>3, <3>1, <3>2, <3>3
  <2> HIDE DEF Good
  <2>8. m \in Good
    <3>1. 0 .. m \subseteq Good
      BY <1>1, <2>6, <2>7, CountUp
    <3> QED BY <1>1, <3>1
  <2>9. PICK x : x = h[m]
    OBVIOUS
  <2>10. /\ f[n + m] = [to |-> x.to, ok |-> x.ok, used |-> n + x.used, open |-> x.open]
         /\ x.used \in Nat /\ x.used <= m
    <3>1. m \in 0 .. m
      BY <1>1
    <3> QED BY <2>4, <2>8, <2>9, <3>1 DEF Good
  <2>11. From(ab, n + x.used + 1) = From(b, x.used + 1)
    BY <2>10, FromSecond DEF ab
  <2>12. w = [to |-> x.to, rest |-> From(ab, (n + x.used) + 1), ok |-> x.ok /\ x.to.st = "VALID",
              bad |-> ~x.ok]
    BY <1>6, <2>10 DEF Scanned, Parsed
  <2>13. Scan(line, e.to, b) = [to |-> x.to, rest |-> From(b, x.used + 1),
                                ok |-> x.ok /\ x.to.st = "VALID", bad |-> ~x.ok]
    BY <2>3, <2>9 DEF Scanned, Parsed
  <2> QED BY <2>11, <2>12, <2>13
<1>16. /\ p.bad => w = Joined(p, b)
       /\ p.ok /\ (line = "field" /\ p.rest = <<>> => Head(b) # " ") => w = Joined(p, b)
       /\ ~p.ok /\ ~p.bad => w = Scan(line, p.to, b)
  <2>1. ASSUME p.bad PROVE w = Joined(p, b)
    BY <1>10, <1>14, <2>1
  <2>2. ASSUME p.ok, line = "field" /\ p.rest = <<>> => Head(b) # " "
        PROVE  w = Joined(p, b)
    BY <1>9, <1>10, <1>11, <1>14, <2>2
  <2>3. ASSUME ~p.ok, ~p.bad PROVE w = Scan(line, p.to, b)
    BY <1>10, <1>15, <2>3
  <2> QED BY <2>1, <2>2, <2>3
<1> QED BY <1>16 DEF p, w, ab, ScanSplit

-----------------------------------------------------------------------------
(* The header lines.                                                      *)

(* Every character of a header line counts, also one that is refused.     *)
LEMMA FieldCharGrows ==
  ASSUME NEW f \in FieldLines, NEW c \in Tokens
  PROVE  FieldChar(f, c).to.length = f.length + 1
<1> DEFINE folded == IF f.st = "VALID"
                       THEN [f EXCEPT !.value = Append(@, " "), !.st = "VALUE_LS"] ELSE f
           g == [folded EXCEPT !.length = @ + 1]
           valuing == g.st \in {"VALUE_LS", "VALUE"}
           Rest == CASE g.st = "NAME" /\ c \in Alpha -> Ok([g EXCEPT !.name = Append(@, c)])
                     [] g.st = "NAME" /\ c = ":" -> GoTo(g, "VALUE_LS")
                     [] g.st = "VALUE_LS" /\ c = " " -> Spaced(g)
                     [] valuing /\ c \notin Eol /\ ~(g.st = "VALUE_LS" /\ c = " ") ->
                          Ok([g EXCEPT !.st = "VALUE", !.value = Append(@, c)])
                     [] valuing /\ c \in Eol -> ValueEnd(g, c)
                     [] g.st = "LF" /\ c = "LF" -> GoTo(g, "VALID")
                     [] OTHER -> Bad(g)
<1>1. FieldChar(f, c) = IF g.length > MaxLine THEN Bad([g EXCEPT !.st = "ERROR_LENGTH"]) ELSE Rest
  BY DEF FieldChar
<1>2. folded \in FieldLines /\ folded.length = f.length
  <2>1. Append(f.value, " ") \in Texts
    BY TextsRead DEF FieldLines
  <2>2. "VALUE_LS" \in HeaderStates
    BY DEF HeaderStates
  <2> QED BY <2>1, <2>2 DEF FieldLines
<1> HIDE DEF folded
<1>3. g \in FieldLines /\ g.length = f.length + 1
  BY <1>2 DEF FieldLines
<1> HIDE DEF g
<1>4. \A st : [g EXCEPT !.st = st].length = g.length
  BY <1>3 DEF FieldLines
<1>5. \A st : GoTo(g, st).to.length = g.length
  BY <1>4 DEF GoTo, Ok
<1>6. Bad(g).to.length = g.length /\ \A st : Bad([g EXCEPT !.st = st]).to.length = g.length
  BY <1>4 DEF Bad
<1>7. Spaced(g).to.length = g.length
  <2> DEFINE y == [g EXCEPT !.ws = @ + 1]
  <2>1. y.length = g.length /\ [y EXCEPT !.st = "ERROR_WS"].length = g.length
    BY <1>3 DEF FieldLines
  <2> HIDE DEF y
  <2>2. Within(y, g.ws < MaxWs, "ERROR_WS").to.length = g.length
    BY <2>1 DEF Within, Ok, Bad
  <2> QED BY <2>2 DEF Spaced, y
<1>8. /\ Ok([g EXCEPT !.name = Append(@, c)]).to.length = g.length
      /\ Ok([g EXCEPT !.st = "VALUE", !.value = Append(@, c)]).to.length = g.length
  BY <1>3 DEF Ok, FieldLines
<1>9. ValueEnd(g, c).to.length = g.length
  <2>1. CASE c = "CR"
    <3>1. ValueEnd(g, c) = GoTo(g, "LF")
      BY <2>1 DEF ValueEnd
    <3> QED BY <1>5, <3>1
  <2>2. CASE c = "LF" /\ conf.strict
    <3>1. ValueEnd(g, c) = Bad([g EXCEPT !.st = "ERROR_CRLF"])
      BY <2>2 DEF ValueEnd
    <3> QED BY <1>6, <3>1
  <2>3. CASE ~(c = "CR") /\ ~(c = "LF" /\ conf.strict)
    <3>1. ValueEnd(g, c) = GoTo(g, "VALID")
      BY <2>3 DEF ValueEnd
    <3> QED BY <1>5, <3>1
  <2> QED BY <2>1, <2>2, <2>3
<1>10. Rest.to.length = g.length
  <2>1. CASE g.st = "NAME" /\ c \in Alpha
    BY <1>8, <2>1 DEF Alpha, Methods, Names
  <2>2. CASE g.st = "NAME" /\ c = ":"
    <3>1. Rest = GoTo(g, "VALUE_LS")
      BY <2>2 DEF Alpha, Methods, Names
    <3> QED BY <1>5, <3>1
  <2>3. CASE g.st = "VALUE_LS" /\ c = " "
    <3>1. Rest = Spaced(g)
      BY <2>3 DEF Eol
    <3> QED BY <1>7, <3>1
  <2>4. CASE valuing /\ c \notin Eol /\ ~(g.st = "VALUE_LS" /\ c = " ")
    BY <1>8, <2>4
  <2>5. CASE valuing /\ c \in Eol
    <3>1. Rest = ValueEnd(g, c)
      BY <2>5 DEF Eol
    <3> QED BY <1>9, <3>1
  <2>6. CASE g.st = "LF" /\ c = "LF"
    <3>1. Rest = GoTo(g, "VALID")
      BY <2>6
    <3> QED BY <1>5, <3>1
  <2>7. CASE /\ ~(g.st = "NAME" /\ c \in Alpha) /\ ~(g.st = "NAME" /\ c = ":")
             /\ ~(g.st = "VALUE_LS" /\ c = " ")
             /\ ~(valuing /\ c \notin Eol /\ ~(g.st = "VALUE_LS" /\ c = " "))
             /\ ~(valuing /\ c \in Eol) /\ ~(g.st = "LF" /\ c = "LF")
    <3>1. Rest = Bad(g)
      BY <2>7
    <3> QED BY <1>6, <3>1
  <2> QED BY <2>1, <2>2, <2>3, <2>4, <2>5, <2>6, <2>7
<1> HIDE DEF Rest
<1> QED BY <1>1, <1>3, <1>6, <1>10

(* The parse of a header line takes one character at least, after which
   the line is no longer new. *)
LEMMA FieldGrows ==
  ASSUME NEW s \in FieldLines, s.st # "VALID", NEW buf \in Seq(Tokens), buf # <<>>
  PROVE  LET p == Scan("field", s, buf)
         IN  Len(p.rest) < Len(buf) /\ p.to # NewField
<1> DEFINE n == Len(buf)
           p == Scan("field", s, buf)
           S == FieldLines
<1>1. n \in Nat /\ 1 <= n
  BY LenProperties, EmptySeq
<1>2. Reads("field", S, S)
  <2>1. Reads("field", S, FineFieldLines(FALSE))
    BY FieldLineReads
  <2>2. FineFieldLines(FALSE) = S
    BY DEF FineFieldLines
  <2> QED BY <2>1, <2>2
<1>3. PICK g : ScanRun(g, "field", S, S, s, buf)
  BY <1>2, ScanRuns
<1>4. /\ g[0] = ScanStart(s)
      /\ \A i \in 1 .. n : g[i] = Feed("field", g[i - 1], buf[i])
      /\ \A i \in 0 .. n : g[i] \in ScanHeld(S, S, i)
      /\ p = Scanned(g[n], buf)
  BY <1>3 DEF ScanRun
<1> HIDE DEF p
<1> DEFINE Grown(x) == x.used >= 1 /\ x.to.length >= 1
           Good == {i \in 0 .. n : i # 0 => Grown(g[i])}
<1>5. ASSUME NEW x \in [to : S, ok : BOOLEAN, used : Nat, open : BOOLEAN], NEW c \in Tokens,
             (x.open /\ x.ok /\ GoesOn("field", x.to, c)) \/ Grown(x)
      PROVE  Grown(Feed("field", x, c))
  <2>1. CASE x.open /\ x.ok /\ GoesOn("field", x.to, c)
    <3>1. /\ Feed("field", x, c).used = x.used + 1
          /\ Feed("field", x, c).to = FieldChar(x.to, c).to
      BY <2>1 DEF Feed, Fed, ParseChar
    <3>2. FieldChar(x.to, c).to.length = x.to.length + 1 /\ x.to.length \in Nat
      BY FieldCharGrows DEF FieldLines
    <3> QED BY <3>1, <3>2
  <2>2. CASE ~(x.open /\ x.ok /\ GoesOn("field", x.to, c))
    <3>1. Feed("field", x, c) = [x EXCEPT !.open = FALSE]
      BY <2>2 DEF Feed
    <3> QED BY <1>5, <2>2, <3>1
  <2> QED BY <2>1, <2>2
<1>6. 0 \in Good
  BY <1>1
<1>7. \A i \in 1 .. n : i - 1 \in Good => i \in Good
  <2> TAKE i \in 1 .. n
  <2> HAVE i - 1 \in Good
  <2>1. buf[i] \in Tokens /\ i \in 0 .. n /\ i - 1 \in 0 .. n
    BY <1>1, ElementOfSeq
  <2>2. g[i - 1] \in [to : S, ok : BOOLEAN, used : Nat, open : BOOLEAN]
    BY <1>4, <2>1 DEF ScanHeld
  <2>3. CASE i = 1
    <3>1. g[i - 1] = [to |-> s, ok |-> TRUE, used |-> 0, open |-> TRUE]
      BY <1>4, <2>3 DEF ScanStart
    <3>2. g[i - 1].open /\ g[i - 1].ok /\ GoesOn("field", g[i - 1].to, buf[i])
      <4>1. GoesOn("field", s, buf[i])
        BY DEF GoesOn
      <4> QED BY <3>1, <4>1
    <3> HIDE DEF Grown
    <3>3. Grown(Feed("field", g[i - 1], buf[i]))
      BY <1>5, <2>1, <2>2, <3>2
    <3> QED BY <1>4, <2>1, <3>3
  <2>4. CASE i # 1
    <3>1. i - 1 # 0
      BY <2>4
    <3> HIDE DEF Grown
    <3>2. Grown(Feed("field", g[i - 1], buf[i]))
      BY <1>5, <2>1, <2>2, <3>1
    <3> QED BY <1>4, <2>1, <3>2
  <2> QED BY <2>3, <2>4
<1> HIDE DEF Good
<1>8. n \in Good
  <2>1. 0 .. n \subseteq Good
    BY <1>1, <1>6, <1>7, CountUp
  <2> QED BY <1>1, <2>1
<1>9. PICK e : e = g[n]
  OBVIOUS
<1>10. e.used >= 1 /\ e.to.length >= 1 /\ e.used \in Nat /\ e.used <= n
  <2>1. n \in 0 .. n /\ n # 0
    BY <1>1
  <2> QED BY <1>4, <1>8, <1>9, <2>1 DEF Good, ScanHeld
<1>11. p.to = e.to /\ p.rest = From(buf, e.used + 1)
  BY <1>4, <1>9 DEF Scanned, Parsed
<1>12. Len(p.rest) = n - e.used
  BY <1>10, <1>11, LeftOf
<1>13. NewField.length = 0
  BY DEF NewField
<1>14. Len(p.rest) < n /\ p.to # NewField
  BY <1>1, <1>10, <1>11, <1>12, <1>13
<1> QED BY <1>14 DEF p

\* The loop of message_headers::parse reads another header line.
Turning(p) == p.ok /\ p.rest # <<>> /\ Head(p.rest) \notin Eol

(* A turn of the loop over the header lines takes something.              *)
LEMMA TurningReads ==
  ASSUME NEW buf \in Seq(Tokens), NEW p \in Results(Headers, HeadersFit(TRUE), buf), Turning(p)
  PROVE  Len(FieldTurn(p).rest) < Len(p.rest)
<1>1. /\ p.rest \in Seq(Tokens) /\ p.to.field \in FieldLines /\ p.to.field.st # "VALID"
      /\ p.rest # <<>>
  BY DEF Turning, Results, Left, HeadersFit, Headers, Fit
<1>2. FieldTurn(p) = FieldParsed(Scan("field", p.to.field, p.rest), p.to)
  BY DEF FieldTurn, Turning
<1> DEFINE q == Scan("field", p.to.field, p.rest)
<1>3. Len(q.rest) < Len(p.rest)
  BY <1>1, FieldGrows
<1> HIDE DEF q
<1>4. FieldParsed(q, p.to).rest = q.rest
  BY DEF FieldParsed, Parsed
<1> QED BY <1>2, <1>3, <1>4 DEF q

(* After as many turns as the buffer has tokens the loop over the header
   lines is over. *)
LEMMA HeadersSettle ==
  ASSUME NEW h \in HeadersFit(TRUE), NEW buf \in Seq(Tokens), NEW g, HeadersRun(g, TRUE, h, buf)
  PROVE  ~Turning(g[Len(buf)])
<1> DEFINE n == Len(buf)
           Good == {i \in 0 .. n : Turning(g[i]) => Len(g[i].rest) + i <= n}
<1>1. n \in Nat
  BY LenProperties
<1>2. /\ g[0] = Parsed(h, buf, TRUE, FALSE)
      /\ \A i \in 1 .. n : g[i] = FieldTurn(g[i - 1])
      /\ \A i \in 0 .. n : g[i] \in Results(Headers, HeadersFit(TRUE), buf)
  BY DEF HeadersRun
<1>3. \A i \in 0 .. n : g[i].rest \in Seq(Tokens) /\ Len(g[i].rest) \in Nat
  BY <1>2, LenProperties DEF Results, Left
<1>4. 0 \in Good
  BY <1>1, <1>2 DEF Parsed
<1>5. \A i \in 1 .. n : i - 1 \in Good => i \in Good
  <2> TAKE i \in 1 .. n
  <2> HAVE i - 1 \in Good
  <2>1. i \in 0 .. n /\ i - 1 \in 0 .. n
    BY <1>1
  <2>2. CASE Turning(g[i - 1])
    <3>1. Len(g[i].rest) < Len(g[i - 1].rest)
      BY <1>2, <2>1, <2>2, TurningReads
    <3>2. Len(g[i - 1].rest) + (i - 1) <= n
      BY <2>2
    <3>3. Len(g[i].rest) \in Nat /\ Len(g[i - 1].rest) \in Nat
      BY <1>3, <2>1
    <3>4. \A x, y \in Nat : x < y /\ y + (i - 1) <= n => x + i <= n
      BY <1>1, <2>1
    <3>5. Len(g[i].rest) + i <= n
      BY <3>1, <3>2, <3>3, <3>4
    <3> QED BY <2>1, <3>5
  <2>3. CASE ~Turning(g[i - 1])
    <3>1. g[i] = g[i - 1]
      BY <1>2, <2>3 DEF FieldTurn, Turning
    <3> QED BY <2>1, <2>3, <3>1
  <2> QED BY <2>2, <2>3
<1> HIDE DEF Good
<1>6. n \in Good /\ n \in 0 .. n
  <2>1. 0 .. n \subseteq Good
    BY <1>1, <1>4, <1>5, CountUp
  <2> QED BY <1>1, <2>1
<1>7. ASSUME Turning(g[n]) PROVE FALSE
  <2>1. Len(g[n].rest) + n <= n /\ g[n].rest # <<>>
    BY <1>6, <1>7 DEF Good, Turning
  <2>2. Len(g[n].rest) \in Nat \ {0}
    BY <1>3, <1>6, <2>1, EmptySeq
  <2> QED BY <1>1, <2>1, <2>2
<1> QED BY <1>7

(* Where no header line begins, the headers are parsed as the blank line
   is. *)
LEMMA HeadersAtEol ==
  ASSUME NEW h \in HeadersFit(TRUE), NEW buf \in Seq(Tokens), buf = <<>> \/ Head(buf) \in Eol
  PROVE  HeadersParse(h, buf) = BlankLine(h, buf)
<1> DEFINE n == Len(buf)
           s == Parsed(h, buf, TRUE, FALSE)
           Good(g) == {i \in 0 .. n : g[i] = s}
<1>1. n \in Nat
  BY LenProperties
<1>2. PICK g : HeadersRun(g, TRUE, h, buf)
  BY HeadersRuns
<1>3. FieldTurn(s) = s
  BY DEF FieldTurn, Parsed
<1>4. 0 \in Good(g) /\ \A i \in 1 .. n : i - 1 \in Good(g) => i \in Good(g)
  <2>1. g[0] = s /\ \A i \in 1 .. n : g[i] = FieldTurn(g[i - 1])
    BY <1>2 DEF HeadersRun
  <2> HIDE DEF s
  <2>2. 0 \in Good(g)
    BY <1>1, <2>1
  <2>3. \A i \in 1 .. n : i - 1 \in Good(g) => i \in Good(g)
    <3> TAKE i \in 1 .. n
    <3> HAVE i - 1 \in Good(g)
    <3>1. i \in 0 .. n /\ g[i - 1] = s
      BY <1>1
    <3> QED BY <1>3, <2>1, <3>1
  <2> QED BY <2>2, <2>3
<1> HIDE DEF Good
<1>5. n \in Good(g)
  <2>1. 0 .. n \subseteq Good(g)
    BY <1>1, <1>4, CountUp
  <2> QED BY <1>1, <2>1
<1>6. HeadersParse(h, buf) = FieldsParsed(s)
  BY <1>2, <1>5 DEF HeadersRun, Good
<1> QED BY <1>6 DEF FieldsParsed, Parsed

(* Where one begins, the headers are parsed as that line and then, if it
   is complete, as headers again. *)
LEMMA HeadersUnroll ==
  ASSUME NEW h \in HeadersFit(TRUE), NEW buf \in Seq(Tokens), buf # <<>>, Head(buf) \notin Eol
  PROVE  LET q == FieldParsed(Scan("field", h.field, buf), h)
         IN  /\ q \in Results(Headers, HeadersFit(TRUE), buf) /\ Len(q.rest) < Len(buf)
             /\ ~q.ok => HeadersParse(h, buf) = q
             /\ q.ok => HeadersParse(h, buf) = HeadersParse(q.to, q.rest)
<1> DEFINE n == Len(buf)
           s == Parsed(h, buf, TRUE, FALSE)
           q == FieldParsed(Scan("field", h.field, buf), h)
<1>1. n \in Nat /\ 1 <= n
  BY LenProperties, EmptySeq
<1>2. PICK g : HeadersRun(g, TRUE, h, buf)
  BY HeadersRuns
<1>3. /\ g[0] = s
      /\ \A i \in 1 .. n : g[i] = FieldTurn(g[i - 1])
      /\ \A i \in 0 .. n : g[i] \in Results(Headers, HeadersFit(TRUE), buf)
      /\ HeadersParse(h, buf) = FieldsParsed(g[n])
  BY <1>2 DEF HeadersRun
<1>4. 1 \in 1 .. n /\ 1 \in 0 .. n /\ 1 - 1 = 0
  BY <1>1
<1>5. FieldTurn(s) = q /\ Turning(s)
  BY DEF FieldTurn, Parsed, Turning
<1>6. g[1] = q
  BY <1>3, <1>4, <1>5
<1>7. q \in Results(Headers, HeadersFit(TRUE), buf)
  BY <1>3, <1>4, <1>6
<1>8. Len(q.rest) < n
  <2>1. s \in Results(Headers, HeadersFit(TRUE), buf)
    <3>1. 0 \in 0 .. n
      BY <1>1
    <3> HIDE DEF s
    <3> QED BY <1>3, <3>1
  <2>2. Len(FieldTurn(s).rest) < Len(s.rest)
    BY <1>5, <2>1, TurningReads
  <2> QED BY <1>5, <2>2 DEF Parsed
<1> HIDE DEF q, s
<1>9. ASSUME ~q.ok PROVE HeadersParse(h, buf) = q
  <2> DEFINE Good == {i \in 0 .. n : i # 0 => g[i] = q}
  <2>1. FieldTurn(q) = q
    BY <1>9 DEF FieldTurn
  <2>2. 0 \in Good /\ \A i \in 1 .. n : i - 1 \in Good => i \in Good
    <3>1. 0 \in Good
      BY <1>1
    <3>2. \A i \in 1 .. n : i - 1 \in Good => i \in Good
      <4> TAKE i \in 1 .. n
      <4> HAVE i - 1 \in Good
      <4>1. i \in 0 .. n /\ (i = 1 \/ i - 1 # 0)
        BY <1>1
      <4>2. g[i] = q
        BY <1>3, <1>6, <2>1, <4>1
      <4> QED BY <4>1, <4>2
    <3> QED BY <3>1, <3>2
  <2> HIDE DEF Good
  <2>3. n \in Good
    <3>1. 0 .. n \subseteq Good
      BY <1>1, <2>2, CountUp
    <3> QED BY <1>1, <3>1
  <2>4. g[n] = q
    BY <1>1, <2>3 DEF Good
  <2> QED BY <1>3, <1>9, <2>4 DEF FieldsParsed
<1>10. ASSUME q.ok PROVE HeadersParse(h, buf) = HeadersParse(q.to, q.rest)
  <2> DEFINE m == Len(q.rest)
  <2>1. /\ q.to \in HeadersFit(TRUE) /\ q.rest \in Seq(Tokens)
        /\ q = Parsed(q.to, q.rest, TRUE, FALSE)
    <3>1. q \in [to : Headers, rest : Left(buf), ok : BOOLEAN, bad : BOOLEAN]
          /\ q.to \in HeadersFit(TRUE) /\ q.ok = TRUE /\ q.bad = FALSE
      BY <1>7, <1>10 DEF Results
    <3> QED BY <3>1 DEF Parsed, Left
  <2>2. m \in Nat /\ m < n
    BY <1>8, <2>1, LenProperties
  <2>3. PICK f : HeadersRun(f, TRUE, q.to, q.rest)
    BY <2>1, HeadersRuns
  <2>4. /\ f[0] = q
        /\ \A i \in 1 .. m : f[i] = FieldTurn(f[i - 1])
        /\ HeadersParse(q.to, q.rest) = FieldsParsed(f[m])
    BY <2>1, <2>3 DEF HeadersRun
  <2>5. ~Turning(f[m])
    BY <2>1, <2>3, HeadersSettle
  <2> DEFINE Good == {i \in 0 .. n - 1 : g[i + 1] = f[IF i <= m THEN i ELSE m]}
  <2>6. 0 \in Good
    BY <1>1, <1>6, <2>2, <2>4
  <2>7. \A i \in 1 .. n - 1 : i - 1 \in Good => i \in Good
    <3> TAKE i \in 1 .. n - 1
    <3> HAVE i - 1 \in Good
    <3>1. /\ i \in 0 .. n - 1 /\ i - 1 \in 0 .. n - 1 /\ i + 1 \in 1 .. n
          /\ i + 1 - 1 = i /\ i - 1 + 1 = i
      BY <1>1
    <3>2. g[i + 1] = FieldTurn(g[i])
      BY <1>3, <3>1
    <3>3. CASE i <= m
      <4>1. i - 1 <= m /\ i \in 1 .. m
        BY <2>2, <3>3
      <4>2. g[i] = f[i - 1]
        BY <3>1, <4>1
      <4> QED BY <2>4, <3>1, <3>2, <3>3, <4>1, <4>2
    <3>4. CASE ~(i <= m)
      <4>1. g[i] = f[m]
        <5>1. (IF i - 1 <= m THEN i - 1 ELSE m) = m
          BY <2>2, <3>4
        <5> QED BY <3>1, <5>1
      <4>2. FieldTurn(f[m]) = f[m]
        BY <2>5 DEF FieldTurn, Turning
      <4> QED BY <3>1, <3>2, <3>4, <4>1, <4>2
    <3> QED BY <3>3, <3>4
  <2> HIDE DEF Good
  <2>8. n - 1 \in Good
    <3>1. n - 1 \in Nat
      BY <1>1
    <3>2. 0 .. n - 1 \subseteq Good
      BY <2>6, <2>7, <3>1, CountUp
    <3> QED BY <3>1, <3>2
  <2>9. g[n] = f[m]
    <3>1. n - 1 + 1 = n /\ (IF n - 1 <= m THEN n - 1 ELSE m) = m
      BY <1>1, <2>2
    <3> QED BY <2>8, <3>1 DEF Good
  <2> QED BY <1>3, <2>4, <2>9
<1> QED BY <1>7, <1>8, <1>9, <1>10 DEF q

(* The blank line on two buffers. It changes nothing until it is
   complete, so the receiver does not know of a CR at the end of the
   first one; an LF must follow. *)
LEMMA BlankLineSplits ==
  ASSUME NEW h, NEW a \in Seq(Tokens), a # <<>>, Head(a) \in Eol, NEW b \in Seq(Tokens), b # <<>>
  PROVE  LET p == BlankLine(h, a)
             w == BlankLine(h, a \o b)
         IN  /\ p.ok \/ (p.bad /\ p.rest # <<>>) => w = Joined(p, b)
             /\ ~p.ok /\ ~p.bad => p.to = h
             /\ ~p.ok /\ ~p.bad /\ (Last(a) = "CR" => Head(b) = "LF") =>
                  Head(b) \in Eol /\ w = BlankLine(h, b)
<1> DEFINE t == Tail(a)
           yes == [h EXCEPT !.valid = TRUE]
           p == BlankLine(h, a)
           w == BlankLine(h, a \o b)
<1>1. /\ a \o b # <<>> /\ Head(a \o b) = Head(a) /\ Tail(a \o b) = t \o b /\ t \in Seq(Tokens)
      /\ a \o b \in Seq(Tokens)
  BY JoinedHead
<1>2. t # <<>> => Head(t \o b) = Head(t) /\ Tail(t \o b) = Tail(t) \o b
  BY <1>1, JoinedHead
<1>3. t \o b # <<>>
  BY <1>1, JoinedHead
<1>4. t = <<>> => t \o b = b
  BY JoinedHead
<1>5. CASE Head(a) = "LF"
  <2>1. p = Parsed(yes, t, TRUE, FALSE)
    BY <1>5 DEF BlankLine
  <2>2. w = Parsed(yes, t \o b, TRUE, FALSE)
    BY <1>1, <1>5 DEF BlankLine
  <2> HIDE DEF p, w, yes, t
  <2>3. p.ok = TRUE /\ p.bad = FALSE /\ w = Joined(p, b)
    BY <2>1, <2>2 DEF Joined, Parsed
  <2> QED BY <2>3 DEF p, w
<1>6. CASE Head(a) = "CR"
  <2>1. p = IF t # <<>> /\ Head(t) = "LF" THEN Parsed(yes, Tail(t), TRUE, FALSE)
                                          ELSE Parsed(h, t, FALSE, t # <<>>)
    BY <1>6 DEF BlankLine
  <2>2. w = IF Head(t \o b) = "LF" THEN Parsed(yes, Tail(t \o b), TRUE, FALSE)
                                   ELSE Parsed(h, t \o b, FALSE, TRUE)
    BY <1>1, <1>3, <1>6 DEF BlankLine
  <2>3. t = <<>> => Last(a) = "CR"
    <3>1. t = <<>> => Len(a) = 1
      <4>1. Len(t) = Len(a) - 1 /\ Len(a) \in Nat
        BY HeadTailProperties, LenProperties
      <4>2. Len(<<>>) = 0
        BY EmptySeq
      <4> HIDE DEF t
      <4>3. ASSUME t = <<>> PROVE Len(a) = 1
        <5>1. Len(t) = 0
          BY <4>2, <4>3
        <5> QED BY <4>1, <5>1
      <4> QED BY <4>3
    <3>2. Head(a) = a[1]
      OBVIOUS
    <3> QED BY <1>6, <3>1, <3>2 DEF Last
  <2> HIDE DEF p, w, yes
  <2>4. CASE t # <<>> /\ Head(t) = "LF"
    <3>1. p.ok = TRUE /\ p.bad = FALSE /\ w = Joined(p, b)
      BY <1>2, <2>1, <2>2, <2>4 DEF Joined, Parsed
    <3> QED BY <3>1 DEF p, w
  <2>5. CASE t # <<>> /\ Head(t) # "LF"
    <3>1. p.ok = FALSE /\ p.bad = TRUE /\ w = Joined(p, b)
      BY <1>2, <2>1, <2>2, <2>5 DEF Joined, Parsed
    <3> QED BY <3>1 DEF p, w
  <2>6. CASE t = <<>>
    <3>1. p.ok = FALSE /\ p.bad = FALSE /\ p.to = h
      BY <2>1, <2>6 DEF Parsed
    <3>2. ASSUME Last(a) = "CR" => Head(b) = "LF"
          PROVE  Head(b) \in Eol /\ w = BlankLine(h, b)
      <4>1. Head(b) = "LF"
        BY <2>3, <2>6, <3>2
      <4>2. w = Parsed(yes, Tail(b), TRUE, FALSE)
        BY <1>4, <2>2, <2>6, <4>1
      <4>3. BlankLine(h, b) = Parsed(yes, Tail(b), TRUE, FALSE)
        BY <4>1 DEF BlankLine, yes
      <4> QED BY <4>1, <4>2, <4>3 DEF Eol
    <3> QED BY <3>1, <3>2 DEF p, w
  <2> QED BY <2>4, <2>5, <2>6
<1> QED BY <1>5, <1>6 DEF Eol

(* A header line is added alike whatever follows it.                      *)
LEMMA FieldParsedJoined ==
  ASSUME NEW p, NEW h, NEW b
  PROVE  FieldParsed(Joined(p, b), h) = Joined(FieldParsed(p, h), b)
<1> DEFINE f == p.to
           next == [h EXCEPT !.length = @ + Len(f.name) + Len(f.value),
                        !.fields = AddField(@, f.name, f.value), !.field = NewField]
           over == next.length > MaxHeaderLength \/ Cardinality(DOMAIN next.fields) > MaxHeaders
           part == [h EXCEPT !.field = f]
<1>1. FieldParsed(p, h) = IF p.ok THEN Parsed(next, p.rest, ~over, over)
                                  ELSE Parsed(part, p.rest, FALSE, p.bad)
  BY DEF FieldParsed
<1>2. Joined(p, b).to = f /\ Joined(p, b).ok = p.ok /\ Joined(p, b).bad = p.bad
      /\ Joined(p, b).rest = p.rest \o b
  BY DEF Joined, Parsed
<1>3. FieldParsed(Joined(p, b), h) = IF p.ok THEN Parsed(next, p.rest \o b, ~over, over)
                                             ELSE Parsed(part, p.rest \o b, FALSE, p.bad)
  BY <1>2 DEF FieldParsed
<1> HIDE DEF next, over, part
<1>4. CASE p.ok
  <2>1. FieldParsed(p, h) = Parsed(next, p.rest, ~over, over)
        /\ FieldParsed(Joined(p, b), h) = Parsed(next, p.rest \o b, ~over, over)
    BY <1>1, <1>3, <1>4
  <2> QED BY <2>1 DEF Joined, Parsed
<1>5. CASE ~p.ok
  <2>1. FieldParsed(p, h) = Parsed(part, p.rest, FALSE, p.bad)
        /\ FieldParsed(Joined(p, b), h) = Parsed(part, p.rest \o b, FALSE, p.bad)
    BY <1>1, <1>3, <1>5
  <2> QED BY <2>1 DEF Joined, Parsed
<1> QED BY <1>4, <1>5

(* A header line takes the place of the part of it that was there.        *)
LEMMA FieldParsedPart ==
  ASSUME NEW p, NEW h \in Headers, NEW f
  PROVE  FieldParsed(p, [h EXCEPT !.field = f]) = FieldParsed(p, h)
<1> DEFINE e == p.to
           g == [h EXCEPT !.field = f]
           Next1(x) == [x EXCEPT !.length = @ + Len(e.name) + Len(e.value),
                           !.fields = AddField(@, e.name, e.value), !.field = NewField]
           Over(x) == x.length > MaxHeaderLength \/ Cardinality(DOMAIN x.fields) > MaxHeaders
           Part(x) == [x EXCEPT !.field = e]
<1>1. \A x : FieldParsed(p, x) =
               IF p.ok THEN Parsed(Next1(x), p.rest, ~Over(Next1(x)), Over(Next1(x)))
                       ELSE Parsed(Part(x), p.rest, FALSE, p.bad)
  BY DEF FieldParsed
<1>2. h = [fields |-> h.fields, field |-> h.field, length |-> h.length, valid |-> h.valid]
  BY DEF Headers
<1>3. g = [fields |-> h.fields, field |-> f, length |-> h.length, valid |-> h.valid]
  BY <1>2
<1> HIDE DEF g
<1> DEFINE A == {h.fields, AddField(h.fields, e.name, e.value)}
           B == {h.field, f, NewField, e}
           L == {h.length, h.length + Len(e.name) + Len(e.value)}
           Rs == [fields : A, field : B, length : L, valid : {h.valid}]
<1>4. h \in Rs /\ g \in Rs /\ g.fields = h.fields /\ g.length = h.length /\ g.valid = h.valid
  BY <1>2, <1>3
<1>5. Part(g) = Part(h)
  <2>1. \A y \in Rs : /\ Part(y) \in Rs /\ Part(y).field = e /\ Part(y).fields = y.fields
                      /\ Part(y).length = y.length /\ Part(y).valid = y.valid
    OBVIOUS
  <2> HIDE DEF Part
  <2>2. \A y, z \in Rs : y.fields = z.fields /\ y.field = z.field /\ y.length = z.length
                           /\ y.valid = z.valid => y = z
    OBVIOUS
  <2> HIDE DEF Rs
  <2> QED BY <1>4, <2>1, <2>2
<1>6. Next1(g) = Next1(h)
  <2> DEFINE Gf(x) == AddField(x, e.name, e.value)
             Gl(x) == x + Len(e.name) + Len(e.value)
  <2>1. \A y : Next1(y) = [y EXCEPT !.length = Gl(@), !.fields = Gf(@), !.field = NewField]
    OBVIOUS
  <2>2. Gf(h.fields) \in A /\ Gl(h.length) \in L /\ NewField \in B
    OBVIOUS
  <2> HIDE DEF Next1, Gf, Gl, A, B, L
  <2>3. ASSUME NEW y \in Rs, y.fields = h.fields, y.length = h.length
        PROVE  Next1(y) \in Rs
    BY <2>1, <2>2, <2>3
  <2>4. ASSUME NEW y \in Rs
        PROVE  /\ Next1(y).fields = Gf(y.fields) /\ Next1(y).length = Gl(y.length)
               /\ Next1(y).field = NewField /\ Next1(y).valid = y.valid
    BY <2>1
  <2>5. \A y, z \in Rs : y.fields = z.fields /\ y.field = z.field /\ y.length = z.length
                           /\ y.valid = z.valid => y = z
    OBVIOUS
  <2> HIDE DEF Rs
  <2>6. Next1(g) \in Rs /\ Next1(h) \in Rs
    BY <1>4, <2>3
  <2> QED BY <1>4, <2>4, <2>5, <2>6
<1> HIDE DEF Part, Over, Next1
<1>7. FieldParsed(p, g) = FieldParsed(p, h)
  BY <1>1, <1>5, <1>6
<1> QED BY <1>7 DEF g

(* When a header line has been added, there is one, and the next one is
   new. *)
LEMMA FieldParsedAdds ==
  ASSUME NEW p, p.ok, NEW h \in Headers
  PROVE  LET q == FieldParsed(p, h)
         IN  q.to.fields # <<>> /\ q.to.field = NewField
<1> DEFINE f == p.to
           next == [h EXCEPT !.length = @ + Len(f.name) + Len(f.value),
                        !.fields = AddField(@, f.name, f.value), !.field = NewField]
<1>1. FieldParsed(p, h).to = next
  BY DEF FieldParsed, Parsed
<1>2. PICK m : m = AddField(h.fields, f.name, f.value)
  OBVIOUS
<1>3. next.fields = m /\ next.field = NewField
  BY <1>2 DEF Headers
<1>4. f.name \in DOMAIN m
  BY <1>2 DEF AddField
<1>5. DOMAIN <<>> = {}
  OBVIOUS
<1>6. m # <<>>
  BY <1>4, <1>5
<1> HIDE DEF next
<1> QED BY <1>1, <1>3, <1>6

\* The cut between a token t and the next one, c, is none of those that the parse
\* of header lines is sensitive to, when it is in the state h there.
FineCut(h, t, c) ==
  /\ ~(h.field # NewField /\ c \in Eol)
  /\ ~(h.fields # <<>> /\ h.field = NewField /\ c = " ")
  /\ t = "CR" => c = "LF"

(* The headers on two buffers: the same error, the same end, or going on
   from the state that the first buffer left, when the cut is fine. *)
HeadersSplit(h, a, b) ==
  LET p == HeadersParse(h, a)
      w == HeadersParse(h, a \o b)
  IN  /\ p.ok \/ (p.bad /\ p.rest # <<>>) => w = Joined(p, b)
      /\ ~p.ok /\ ~p.bad /\ (a = <<>> \/ FineCut(p.to, Last(a), Head(b))) =>
           w = HeadersParse(p.to, b)

(* Nothing was in the first buffer.                                       *)
LEMMA HeadersSplitEmpty ==
  ASSUME NEW h \in HeadersFit(TRUE), NEW b \in Seq(Tokens)
  PROVE  HeadersSplit(h, <<>>, b)
<1>1. <<>> \in Seq(Tokens) /\ <<>> \o b = b
  BY EmptySeq, JoinedHead
<1>2. HeadersParse(h, <<>>) = BlankLine(h, <<>>)
  BY <1>1, HeadersAtEol
<1>3. BlankLine(h, <<>>) = Parsed(h, <<>>, FALSE, FALSE)
  BY DEF BlankLine
<1>4. /\ HeadersParse(h, <<>>).ok = FALSE /\ HeadersParse(h, <<>>).bad = FALSE
      /\ HeadersParse(h, <<>>).to = h
  BY <1>2, <1>3 DEF Parsed
<1> QED BY <1>1, <1>4 DEF HeadersSplit

(* The first buffer begins with the blank line.                           *)
LEMMA HeadersSplitAtEol ==
  ASSUME NEW h \in HeadersFit(TRUE), NEW a \in Seq(Tokens), a # <<>>, Head(a) \in Eol,
         NEW b \in Seq(Tokens), b # <<>>
  PROVE  HeadersSplit(h, a, b)
<1> DEFINE p == BlankLine(h, a)
           w == BlankLine(h, a \o b)
<1>1. a \o b \in Seq(Tokens) /\ Head(a \o b) \in Eol
  BY JoinedHead
<1>2. HeadersParse(h, a) = p /\ HeadersParse(h, a \o b) = w
  BY <1>1, HeadersAtEol
<1>3. /\ p.ok \/ (p.bad /\ p.rest # <<>>) => w = Joined(p, b)
      /\ ~p.ok /\ ~p.bad => p.to = h
      /\ ~p.ok /\ ~p.bad /\ (Last(a) = "CR" => Head(b) = "LF") =>
           Head(b) \in Eol /\ w = BlankLine(h, b)
  BY BlankLineSplits
<1>4. Head(b) \in Eol => HeadersParse(h, b) = BlankLine(h, b)
  BY HeadersAtEol
<1> HIDE DEF p, w
<1>5. ASSUME ~p.ok, ~p.bad, a = <<>> \/ FineCut(p.to, Last(a), Head(b))
      PROVE  w = HeadersParse(p.to, b)
  BY <1>3, <1>4, <1>5 DEF FineCut
<1> QED BY <1>2, <1>3, <1>5 DEF HeadersSplit

(* The first buffer begins with a header line: it is parsed to its end,
   and the rest of the buffer is shorter; or it goes on in the second
   buffer. *)
LEMMA HeadersSplitStep ==
  ASSUME NEW h \in HeadersFit(TRUE), NEW a \in Seq(Tokens), a # <<>>, Head(a) \notin Eol,
         NEW b \in Seq(Tokens), b # <<>>,
         \A g \in HeadersFit(TRUE), c \in Seq(Tokens) : Len(c) < Len(a) => HeadersSplit(g, c, b)
  PROVE  HeadersSplit(h, a, b)
<1> DEFINE s == Scan("field", h.field, a)
           t == Scan("field", h.field, a \o b)
           q == FieldParsed(s, h)
           u == FieldParsed(t, h)
           p == HeadersParse(h, a)
           w == HeadersParse(h, a \o b)
<1>1. /\ h \in Headers /\ h.field \in FieldLines /\ h.field.st # "VALID"
      /\ h.field \in FineFieldLines(TRUE)
  BY DEF HeadersFit, Fit, Headers, FineFieldLines
<1>2. a \o b \in Seq(Tokens) /\ a \o b # <<>> /\ Head(a \o b) \notin Eol
  BY JoinedHead
<1>3. Reads("field", FieldLines, FineFieldLines(TRUE))
  BY FieldLineReads
<1>4. /\ s.bad => t = Joined(s, b)
      /\ s.ok /\ ("field" = "field" /\ s.rest = <<>> => Head(b) # " ") => t = Joined(s, b)
      /\ ~s.ok /\ ~s.bad => t = Scan("field", s.to, b)
  <2>1. ScanSplit("field", h.field, a, b)
    BY <1>1, <1>3, ScanSplits
  <2> QED BY <2>1 DEF ScanSplit
<1>5. /\ s \in Results(FieldLines, FineFieldLines(TRUE), a)
      /\ s.ok <=> ~s.bad /\ s.to.st = "VALID"
  BY <1>1, <1>3, ScanResults
<1>6. /\ q \in Results(Headers, HeadersFit(TRUE), a) /\ Len(q.rest) < Len(a)
      /\ ~q.ok => p = q
      /\ q.ok => p = HeadersParse(q.to, q.rest)
  BY HeadersUnroll
<1>7. /\ u \in Results(Headers, HeadersFit(TRUE), a \o b)
      /\ ~u.ok => w = u
      /\ u.ok => w = HeadersParse(u.to, u.rest)
  BY <1>2, HeadersUnroll
<1>8. t = Joined(s, b) => u = Joined(q, b)
  BY FieldParsedJoined
<1>9. s.to # NewField
  BY <1>1, FieldGrows
<1>10. s.ok => q.to.fields # <<>> /\ q.to.field = NewField /\ q.rest = s.rest
  BY <1>1, FieldParsedAdds DEF FieldParsed, Parsed
<1>11. ~s.ok => q = Parsed([h EXCEPT !.field = s.to], s.rest, FALSE, s.bad)
  BY DEF FieldParsed
<1>12. FieldParsed(t, [h EXCEPT !.field = s.to]) = u
  BY <1>1, FieldParsedPart
<1> HIDE DEF p, w, q, u, t, s
<1>13. /\ q.ok \in BOOLEAN /\ q.bad \in BOOLEAN /\ q.rest \in Left(a) /\ q.rest \in Seq(Tokens)
       /\ q.ok => ~q.bad
       /\ ~q.ok /\ ~q.bad => q.rest = <<>>
       /\ ~q.bad => q.to \in HeadersFit(TRUE)
  BY <1>6 DEF Results, Left
<1>14. Joined(q, b).to = q.to /\ Joined(q, b).rest = q.rest \o b /\ Joined(q, b).ok = q.ok
  BY DEF Joined, Parsed
<1>15. CASE u = Joined(q, b) /\ q.ok
  <2>1. HeadersSplit(q.to, q.rest, b)
    BY <1>6, <1>13, <1>15
  <2>2. p = HeadersParse(q.to, q.rest) /\ w = HeadersParse(q.to, q.rest \o b)
    BY <1>6, <1>7, <1>14, <1>15
  <2>3. q.rest = <<>> \/ Last(q.rest) = Last(a)
    BY <1>13 DEF Left, EndsAs
  <2>4. /\ p.ok \/ (p.bad /\ p.rest # <<>>) => w = Joined(p, b)
        /\ ~p.ok /\ ~p.bad /\ (q.rest = <<>> \/ FineCut(p.to, Last(q.rest), Head(b))) =>
             w = HeadersParse(p.to, b)
    BY <2>1, <2>2 DEF HeadersSplit
  <2>5. ~p.ok /\ ~p.bad /\ FineCut(p.to, Last(a), Head(b)) => w = HeadersParse(p.to, b)
    BY <2>3, <2>4
  <2> QED BY <2>4, <2>5 DEF HeadersSplit, p, w
<1>16. CASE u = Joined(q, b) /\ q.bad
  <2>1. p = q /\ w = Joined(p, b) /\ p.bad
    BY <1>6, <1>7, <1>13, <1>14, <1>16
  <2> QED BY <2>1 DEF HeadersSplit, p, w
<1>17. CASE ~s.ok /\ ~s.bad
  <2> DEFINE g == [h EXCEPT !.field = s.to]
  <2>1. q = Parsed(g, s.rest, FALSE, FALSE)
    <3>1. s.bad = FALSE
      BY <1>5, <1>17 DEF Results
    <3> QED BY <1>11, <1>17, <3>1
  <2>2. q.ok = FALSE /\ q.bad = FALSE /\ q.to = g /\ g.field = s.to
    BY <1>1, <2>1 DEF Parsed, Headers
  <2> HIDE DEF g
  <2>3. p.ok = FALSE /\ p.bad = FALSE /\ p.to = g /\ g \in HeadersFit(TRUE)
    BY <1>6, <1>13, <2>2
  <2>4. ASSUME FineCut(g, Last(a), Head(b))
        PROVE  w = HeadersParse(g, b)
    <3>1. Head(b) \notin Eol
      BY <1>9, <2>2, <2>4 DEF FineCut
    <3> DEFINE v == FieldParsed(Scan("field", g.field, b), g)
    <3>2. /\ ~v.ok => HeadersParse(g, b) = v
          /\ v.ok => HeadersParse(g, b) = HeadersParse(v.to, v.rest)
      BY <2>3, <3>1, HeadersUnroll
    <3>3. v = u
      BY <1>4, <1>12, <1>17, <2>2 DEF g
    <3> HIDE DEF v
    <3> QED BY <1>7, <3>2, <3>3
  <2> QED BY <2>3, <2>4 DEF HeadersSplit, p, w
<1>18. CASE q.ok /\ s.ok /\ s.rest = <<>> /\ Head(b) = " "
  <2>1. q.rest = <<>> /\ q.to.fields # <<>> /\ q.to.field = NewField /\ q.to \in HeadersFit(TRUE)
    BY <1>10, <1>13, <1>18
  <2>2. p = BlankLine(q.to, <<>>)
    BY <1>6, <1>18, <2>1, HeadersAtEol, EmptySeq
  <2>3. BlankLine(q.to, <<>>) = Parsed(q.to, <<>>, FALSE, FALSE)
    BY DEF BlankLine
  <2>4. p.ok = FALSE /\ p.bad = FALSE /\ p.to = q.to
    BY <2>2, <2>3 DEF Parsed
  <2>5. ~FineCut(p.to, Last(a), Head(b))
    BY <1>18, <2>1, <2>4 DEF FineCut
  <2> QED BY <2>4, <2>5 DEF HeadersSplit, p, w
<1>19. CASE q.bad /\ s.ok /\ s.rest = <<>>
  <2>1. p = q /\ p.rest = <<>> /\ p.bad /\ ~p.ok
    BY <1>6, <1>10, <1>13, <1>19
  <2> QED BY <2>1 DEF HeadersSplit, p, w
<1>20. s.ok \/ s.bad \/ (~s.ok /\ ~s.bad)
  OBVIOUS
<1>21. s.bad => q.bad
  BY <1>5, <1>11 DEF Parsed, Results
<1>22. s.ok => q.ok \/ q.bad
  <2>1. s.ok => q.bad = ~q.ok
    BY DEF q, FieldParsed, Parsed
  <2> QED BY <2>1
<1> QED BY <1>4, <1>8, <1>15, <1>16, <1>17, <1>18, <1>19, <1>21, <1>22

(* The headers may be divided at any fine cut, by induction on the length
   of the first buffer. *)
LEMMA HeadersSplits ==
  ASSUME NEW h \in HeadersFit(TRUE), NEW a \in Seq(Tokens), NEW b \in Seq(Tokens), b # <<>>
  PROVE  HeadersSplit(h, a, b)
<1> DEFINE n == Len(a)
           Short(k) == \A g \in HeadersFit(TRUE), c \in Seq(Tokens) :
                         Len(c) <= k => HeadersSplit(g, c, b)
           Good == {k \in 0 .. n : Short(k)}
<1>1. n \in Nat /\ \A c \in Seq(Tokens) : Len(c) \in Nat
  BY LenProperties
<1>2. 0 \in Good
  <2> SUFFICES ASSUME NEW g \in HeadersFit(TRUE), NEW c \in Seq(Tokens), Len(c) <= 0
               PROVE  HeadersSplit(g, c, b)
    <3>1. 0 \in 0 .. n
      BY <1>1
    <3> QED BY <3>1
  <2>1. c = <<>>
    BY <1>1, EmptySeq
  <2> QED BY <2>1, HeadersSplitEmpty
<1>3. \A i \in 1 .. n : i - 1 \in Good => i \in Good
  <2> TAKE i \in 1 .. n
  <2> HAVE i - 1 \in Good
  <2> SUFFICES ASSUME NEW g \in HeadersFit(TRUE), NEW c \in Seq(Tokens), Len(c) <= i
               PROVE  HeadersSplit(g, c, b)
    <3>1. i \in 0 .. n
      BY <1>1
    <3> QED BY <3>1
  <2>1. \A f \in HeadersFit(TRUE), d \in Seq(Tokens) : Len(d) < Len(c) => HeadersSplit(f, d, b)
    <3>1. \A d \in Seq(Tokens) : Len(d) < Len(c) => Len(d) <= i - 1
      BY <1>1
    <3> QED BY <3>1
  <2> HIDE DEF Good
  <2>2. CASE c = <<>>
    BY <2>2, HeadersSplitEmpty
  <2>3. CASE c # <<>> /\ Head(c) \in Eol
    BY <2>3, HeadersSplitAtEol
  <2>4. CASE c # <<>> /\ Head(c) \notin Eol
    BY <2>1, <2>4, HeadersSplitStep
  <2> QED BY <2>2, <2>3, <2>4
<1> HIDE DEF Good
<1>4. n \in Good
  <2>1. 0 .. n \subseteq Good
    BY <1>1, <1>2, <1>3, CountUp
  <2> QED BY <1>1, <2>1
<1>5. Short(n)
  BY <1>4 DEF Good
<1>6. n <= n
  BY <1>1
<1> HIDE DEF n
<1> QED BY <1>5, <1>6 DEF n

-----------------------------------------------------------------------------
(* A chunk.                                                               *)

\* The end of line after the data of a chunk, s being what follows the data.
DataEnd(full, s) ==
  LET r == IF Head(s) = "CR" THEN Tail(s) ELSE s
  IN  IF Head(s) # "CR" /\ conf.strict THEN Parsed(full, s, FALSE, TRUE)
      ELSE IF r = <<>> \/ Head(r) # "LF" THEN Parsed(full, r, FALSE, r # <<>>)
                                         ELSE Parsed([full EXCEPT !.valid = TRUE], Tail(r), TRUE, FALSE)

(* The data of a chunk, and after it the end of line, when there is more
   than the data. *)
LEMMA ChunkDataIs ==
  ASSUME NEW k \in ChunksFit(TRUE), k.st = "VALID", NEW buf \in Seq(Tokens)
  PROVE  LET need == k.size - k.data
         IN  ChunkData(k, buf) =
               IF Len(buf) <= need
                 THEN Parsed([k EXCEPT !.data = k.data + Len(buf)], <<>>, FALSE, FALSE)
                 ELSE DataEnd([k EXCEPT !.data = k.size], From(buf, need + 1))
<1> DEFINE need == k.size - k.data
           full == [k EXCEPT !.data = k.size]
           after == From(buf, need + 1)
           r == IF Head(after) = "CR" THEN Tail(after) ELSE after
           p == ChunkData(k, buf)
           done == [full EXCEPT !.valid = TRUE]
           part == [k EXCEPT !.data = @ + Len(buf)]
<1>1. p = CASE Len(buf) <= need -> Parsed(part, <<>>, FALSE, FALSE)
            [] Len(buf) > need /\ Head(after) # "CR" /\ conf.strict ->
                 Parsed(full, after, FALSE, TRUE)
            [] Len(buf) > need /\ (Head(after) = "CR" \/ ~conf.strict) ->
                 IF r = <<>> \/ Head(r) # "LF" THEN Parsed(full, r, FALSE, r # <<>>)
                                               ELSE Parsed(done, Tail(r), TRUE, FALSE)
  BY DEF ChunkData
<1>2. need \in Int /\ Len(buf) \in Nat
  BY LenProperties DEF ChunksFit, Chunks
<1>3. Len(buf) > need <=> ~(Len(buf) <= need)
  BY <1>2
<1>4. DataEnd(full, after) =
        IF Head(after) # "CR" /\ conf.strict THEN Parsed(full, after, FALSE, TRUE)
        ELSE IF r = <<>> \/ Head(r) # "LF" THEN Parsed(full, r, FALSE, r # <<>>)
                                           ELSE Parsed(done, Tail(r), TRUE, FALSE)
  BY DEF DataEnd
<1>5. part = [k EXCEPT !.data = k.data + Len(buf)]
  OBVIOUS
<1> HIDE DEF need, full, after, r, p, done, part
<1>6. CASE Len(buf) <= need
  <2>1. p = Parsed(part, <<>>, FALSE, FALSE)
    BY <1>1, <1>3, <1>6
  <2> QED BY <1>5, <1>6, <2>1 DEF p, need
<1>7. CASE Len(buf) > need
  <2>1. CASE Head(after) # "CR" /\ conf.strict
    <3>1. p = Parsed(full, after, FALSE, TRUE)
      BY <1>1, <1>3, <1>7, <2>1
    <3>2. p = DataEnd(full, after)
      BY <1>4, <2>1, <3>1
    <3> QED BY <1>3, <1>7, <3>2 DEF p, need, full, after
  <2>2. CASE Head(after) = "CR" \/ ~conf.strict
    <3>1. p = IF r = <<>> \/ Head(r) # "LF" THEN Parsed(full, r, FALSE, r # <<>>)
                                            ELSE Parsed(done, Tail(r), TRUE, FALSE)
      BY <1>1, <1>3, <1>7, <2>2
    <3>2. p = DataEnd(full, after)
      BY <1>4, <2>2, <3>1
    <3> QED BY <1>3, <1>7, <3>2 DEF p, need, full, after
  <2> QED BY <2>1, <2>2
<1> QED BY <1>3, <1>6, <1>7

(* That end of line on two buffers. The receiver does not know of a CR at
   the end of the first one, so none may follow, and in strict mode no LF
   either. *)
LEMMA DataEndSplits ==
  ASSUME NEW f, NEW s \in Seq(Tokens), s # <<>>, NEW b \in Seq(Tokens), b # <<>>
  PROVE  LET p == DataEnd(f, s)
             w == DataEnd(f, s \o b)
         IN  /\ p.ok \/ p.bad => w = Joined(p, b)
             /\ ~p.ok /\ ~p.bad =>
                  /\ p.to = f /\ Last(s) = "CR"
                  /\ ~(Head(b) = "CR" \/ (conf.strict /\ Head(b) = "LF")) => w = DataEnd(f, b)
<1> DEFINE p == DataEnd(f, s)
           w == DataEnd(f, s \o b)
           t == Tail(s)
           yes == [f EXCEPT !.valid = TRUE]
           End(r) == IF r = <<>> \/ Head(r) # "LF" THEN Parsed(f, r, FALSE, r # <<>>)
                                                   ELSE Parsed(yes, Tail(r), TRUE, FALSE)
<1>1. /\ s \o b # <<>> /\ Head(s \o b) = Head(s) /\ Tail(s \o b) = t \o b /\ t \in Seq(Tokens)
      /\ s \o b \in Seq(Tokens)
  BY JoinedHead
<1>2. \A z : DataEnd(f, z) =
        IF Head(z) # "CR" /\ conf.strict THEN Parsed(f, z, FALSE, TRUE)
        ELSE End(IF Head(z) = "CR" THEN Tail(z) ELSE z)
  BY DEF DataEnd
<1>3. ASSUME NEW r \in Seq(Tokens), r # <<>>
      PROVE  /\ End(r \o b) = Joined(End(r), b)
             /\ End(r).ok \/ End(r).bad
  <2>1. /\ r \o b # <<>> /\ Head(r \o b) = Head(r) /\ Tail(r \o b) = Tail(r) \o b
    BY <1>3, JoinedHead
  <2> HIDE DEF yes
  <2>2. CASE Head(r) = "LF"
    <3>1. End(r \o b) = Parsed(yes, Tail(r) \o b, TRUE, FALSE)
      BY <2>1, <2>2
    <3>2. End(r) = Parsed(yes, Tail(r), TRUE, FALSE)
      BY <1>3, <2>2
    <3> HIDE DEF End
    <3> QED BY <3>1, <3>2 DEF Joined, Parsed
  <2>3. CASE Head(r) # "LF"
    <3>1. End(r \o b) = Parsed(f, r \o b, FALSE, TRUE)
      BY <2>1, <2>3
    <3>2. End(r) = Parsed(f, r, FALSE, TRUE)
      BY <1>3, <2>3
    <3> HIDE DEF End
    <3> QED BY <3>1, <3>2 DEF Joined, Parsed
  <2> QED BY <2>2, <2>3
<1>4. End(<<>>) = Parsed(f, <<>>, FALSE, FALSE)
  OBVIOUS
<1> HIDE DEF p, w, End, yes
<1>5. CASE Head(s) # "CR" /\ conf.strict
  <2>1. p = Parsed(f, s, FALSE, TRUE)
    BY <1>2, <1>5 DEF p
  <2>2. w = Parsed(f, s \o b, FALSE, TRUE)
    BY <1>1, <1>2, <1>5 DEF w
  <2>3. p.ok = FALSE /\ p.bad = TRUE /\ w = Joined(p, b)
    BY <2>1, <2>2 DEF Joined, Parsed
  <2> QED BY <2>3 DEF p, w
<1>6. CASE Head(s) # "CR" /\ ~conf.strict
  <2>1. p = End(s) /\ w = End(s \o b)
    BY <1>1, <1>2, <1>6 DEF p, w
  <2>2. w = Joined(p, b) /\ (p.ok \/ p.bad)
    BY <1>3, <2>1
  <2> QED BY <2>2 DEF p, w
<1>7. CASE Head(s) = "CR" /\ t # <<>>
  <2>1. p = End(t) /\ w = End(t \o b)
    BY <1>1, <1>2, <1>7 DEF p, w
  <2>2. w = Joined(p, b) /\ (p.ok \/ p.bad)
    BY <1>1, <1>3, <1>7, <2>1
  <2> QED BY <2>2 DEF p, w
<1>8. CASE Head(s) = "CR" /\ t = <<>>
  <2>1. p = End(<<>>) /\ w = End(b)
    <3>1. t \o b = b
      BY <1>8, JoinedHead
    <3> QED BY <1>1, <1>2, <1>8, <3>1 DEF p, w
  <2>2. p.ok = FALSE /\ p.bad = FALSE /\ p.to = f
    BY <1>4, <2>1 DEF Parsed
  <2>3. Last(s) = "CR"
    <3>1. Len(t) = Len(s) - 1 /\ Len(s) \in Nat /\ Len(<<>>) = 0
      BY HeadTailProperties, LenProperties, EmptySeq
    <3> HIDE DEF t
    <3>2. Len(t) = 0
      BY <1>8, <3>1
    <3>3. Len(s) = 1 /\ Head(s) = s[1]
      BY <3>1, <3>2
    <3> QED BY <1>8, <3>3 DEF Last
  <2>4. ASSUME ~(Head(b) = "CR" \/ (conf.strict /\ Head(b) = "LF"))
        PROVE  w = DataEnd(f, b)
    <3>1. CASE conf.strict
      <4>1. DataEnd(f, b) = Parsed(f, b, FALSE, TRUE)
        BY <1>2, <2>4, <3>1
      <4>2. End(b) = Parsed(f, b, FALSE, TRUE)
        BY <2>4, <3>1 DEF End
      <4> QED BY <2>1, <4>1, <4>2
    <3>2. CASE ~conf.strict
      <4>1. DataEnd(f, b) = End(b)
        BY <1>2, <2>4, <3>2
      <4> QED BY <2>1, <4>1
    <3> QED BY <3>1, <3>2
  <2> QED BY <2>2, <2>3, <2>4 DEF p, w
<1> QED BY <1>5, <1>6, <1>7, <1>8

(* The cut between t and c is none of those that the parse of the chunk k
   is sensitive to. *)
FineChunkCut(k, t, c) ==
  k.st = "VALID" /\ ~k.valid =>
    /\ k.size = 0 => FineCut(k.trailers, t, c)
    /\ k.size # 0 /\ k.data = k.size /\ t = "CR" => ~(c = "CR" \/ (conf.strict /\ c = "LF"))

(* A chunk on two buffers: the same error, the same end, or going on from
   the state that the first buffer left, when the cut is fine. *)
ChunkSplit(k, a, b) ==
  LET p == ChunkParse(k, a)
      w == ChunkParse(k, a \o b)
  IN  /\ p.ok \/ (p.bad /\ p.rest # <<>>) => w = Joined(p, b)
      /\ ~p.ok /\ ~p.bad /\ (a = <<>> \/ FineChunkCut(p.to, Last(a), Head(b))) =>
           w = ChunkParse(p.to, b)

(* With its header read, a chunk has trailers if it is the last one, and
   else data. *)
LEMMA ChunkParseIs ==
  ASSUME NEW k, k.st = "VALID", NEW buf
  PROVE  /\ k.size = 0 => ChunkParse(k, buf) = TrailersParsed(HeadersParse(k.trailers, buf), k)
         /\ k.size # 0 => ChunkParse(k, buf) = ChunkData(k, buf)
<1> DEFINE e == Parsed(k, buf, TRUE, FALSE)
<1>1. ChunkParse(k, buf) = ChunkHeaderParsed(e)
  BY DEF ChunkParse
<1>2. e.ok = TRUE /\ e.to = k /\ e.rest = buf
  BY DEF Parsed
<1> HIDE DEF e
<1> QED BY <1>1, <1>2 DEF ChunkHeaderParsed

(* A chunk with its header read may be divided in its data.               *)
LEMMA ChunkDataSplits ==
  ASSUME NEW k \in ChunksFit(TRUE), k.st = "VALID", k.valid = FALSE, k.size # 0,
         NEW a \in Seq(Tokens), NEW b \in Seq(Tokens), b # <<>>
  PROVE  ChunkSplit(k, a, b)
<1> DEFINE p == ChunkData(k, a)
           w == ChunkData(k, a \o b)
           need == k.size - k.data
           full == [k EXCEPT !.data = k.size]
           part == [k EXCEPT !.data = k.data + Len(a)]
           s == From(a, need + 1)
<1>1. /\ k.size \in Nat /\ k.data \in Nat /\ k.data <= k.size /\ k.size <= MaxChunk
      /\ k \in Chunks /\ Fit(k.trailers)
  BY DEF ChunksFit, Chunks, SizeKnown
<1>2. need \in Nat /\ Len(a) \in Nat /\ Len(b) \in Nat /\ 1 <= Len(b)
  BY <1>1, LenProperties, EmptySeq
<1>3. a \o b \in Seq(Tokens) /\ Len(a \o b) = Len(a) + Len(b)
  BY JoinedHas
<1>4. p = IF Len(a) <= need THEN Parsed(part, <<>>, FALSE, FALSE) ELSE DataEnd(full, s)
  BY ChunkDataIs
<1>5. w = IF Len(a) + Len(b) <= need
            THEN Parsed([k EXCEPT !.data = k.data + (Len(a) + Len(b))], <<>>, FALSE, FALSE)
            ELSE DataEnd(full, From(a \o b, need + 1))
  BY <1>3, ChunkDataIs
<1>6. \A d \in Nat : d <= k.size =>
        LET y == [k EXCEPT !.data = d]
        IN  /\ y \in ChunksFit(TRUE) /\ y.st = "VALID" /\ y.valid = FALSE
            /\ y.size = k.size /\ y.data = d
            /\ \A e : [y EXCEPT !.data = e] = [k EXCEPT !.data = e]
  <2> TAKE d \in Nat
  <2> HAVE d <= k.size
  <2> DEFINE y == [k EXCEPT !.data = d]
  <2>1. /\ y \in Chunks /\ y.data = d /\ y.size = k.size /\ y.st = k.st /\ y.trailers = k.trailers
        /\ y.valid = k.valid
    BY <1>1 DEF Chunks
  <2>2. \A e : [y EXCEPT !.data = e] = [k EXCEPT !.data = e]
    BY <1>1 DEF Chunks
  <2> HIDE DEF y
  <2>3. y \in ChunksFit(TRUE)
    BY <1>1, <2>1 DEF ChunksFit
  <2> QED BY <2>1, <2>2, <2>3 DEF y
<1>7. /\ ChunkParse(k, a) = p /\ ChunkParse(k, a \o b) = w
  BY ChunkParseIs
<1>8. CASE Len(a) <= need
  <2>1. k.data + Len(a) \in Nat /\ k.data + Len(a) <= k.size
    BY <1>1, <1>2, <1>8
  <2>2. /\ part \in ChunksFit(TRUE) /\ part.st = "VALID" /\ part.valid = FALSE
        /\ part.size = k.size /\ part.data = k.data + Len(a)
        /\ \A e : [part EXCEPT !.data = e] = [k EXCEPT !.data = e]
    BY <1>6, <2>1
  <2> HIDE DEF part, p, w, full
  <2>3. p.ok = FALSE /\ p.bad = FALSE /\ p.to = part
    BY <1>4, <1>8 DEF Parsed
  <2> DEFINE left == part.size - part.data
  <2>4. left = need - Len(a) /\ left \in Nat
    BY <1>1, <1>2, <1>8, <2>2
  <2>5. ChunkData(part, b) =
          IF Len(b) <= left THEN Parsed([part EXCEPT !.data = part.data + Len(b)], <<>>, FALSE, FALSE)
                            ELSE DataEnd([part EXCEPT !.data = part.size], From(b, left + 1))
    BY <2>2, ChunkDataIs
  <2> HIDE DEF left, need
  <2>6. w = ChunkData(part, b)
    <3>1. CASE Len(b) <= left
      <4>1. Len(a) + Len(b) <= need
        BY <1>2, <2>4, <3>1
      <4>2. k.data + (Len(a) + Len(b)) = part.data + Len(b)
        BY <1>1, <1>2, <2>2
      <4> QED BY <1>5, <2>2, <2>5, <3>1, <4>1, <4>2
    <3>2. CASE ~(Len(b) <= left)
      <4>1. ~(Len(a) + Len(b) <= need) /\ left <= Len(b) /\ Len(a) + left + 1 = need + 1
        BY <1>2, <2>4, <3>2
      <4>2. From(a \o b, Len(a) + left + 1) = From(b, left + 1)
        BY <2>4, <4>1, FromSecond
      <4>3. full = [part EXCEPT !.data = part.size]
        BY <2>2 DEF full
      <4> QED BY <1>5, <2>5, <3>2, <4>1, <4>2, <4>3
    <3> QED BY <3>1, <3>2
  <2>7. ChunkParse(part, b) = ChunkData(part, b)
    BY <2>2, ChunkParseIs
  <2> QED BY <1>7, <2>3, <2>6, <2>7 DEF ChunkSplit
<1>9. CASE ~(Len(a) <= need)
  <2>1. /\ need <= Len(a) /\ s \in Left(a) /\ Len(s) = Len(a) - need
        /\ ~(Len(a) + Len(b) <= need)
    BY <1>2, <1>9, LeftOf
  <2>2. From(a \o b, need + 1) = s \o b
    BY <1>2, <2>1, FromFirst
  <2> HIDE DEF s
  <2>3. s \in Seq(Tokens) /\ s # <<>> /\ Last(s) = Last(a)
    <3>1. s # <<>>
      <4>1. Len(s) # 0 /\ Len(<<>>) = 0
        BY <1>2, <1>9, <2>1, EmptySeq
      <4> QED BY <4>1
    <3> QED BY <2>1, <3>1 DEF Left, EndsAs
  <2>4. p = DataEnd(full, s) /\ w = DataEnd(full, s \o b)
    BY <1>4, <1>5, <1>9, <2>1, <2>2
  <2>5. /\ full \in ChunksFit(TRUE) /\ full.st = "VALID" /\ full.valid = FALSE
        /\ full.size = k.size /\ full.data = k.size
        /\ \A e : [full EXCEPT !.data = e] = [k EXCEPT !.data = e]
    <3>1. k.size <= k.size
      BY <1>1
    <3> QED BY <1>1, <1>6, <3>1
  <2> HIDE DEF p, w, full, need
  <2>6. /\ p.ok \/ p.bad => w = Joined(p, b)
        /\ ~p.ok /\ ~p.bad =>
             /\ p.to = full /\ Last(s) = "CR"
             /\ ~(Head(b) = "CR" \/ (conf.strict /\ Head(b) = "LF")) => w = DataEnd(full, b)
    BY <2>3, <2>4, DataEndSplits
  <2>7. ASSUME ~p.ok, ~p.bad, a = <<>> \/ FineChunkCut(p.to, Last(a), Head(b))
        PROVE  w = ChunkParse(p.to, b)
    <3>1. p.to = full /\ Last(a) = "CR" /\ a # <<>>
      <4>1. Len(<<>>) = 0 /\ 0 <= Len(a) - Len(s) /\ Len(s) # 0
        BY <1>2, <1>9, <2>1, EmptySeq
      <4>2. a # <<>>
        <5>1. Len(a) # 0
          BY <1>2, <1>9
        <5> QED BY <4>1, <5>1
      <4> QED BY <2>3, <2>6, <2>7, <4>2
    <3>2. w = DataEnd(full, b)
      BY <2>5, <2>6, <2>7, <3>1 DEF FineChunkCut
    <3>3. ChunkParse(full, b) = ChunkData(full, b)
      BY <2>5, ChunkParseIs
    <3>4. full.size - full.data = 0
      BY <1>1, <2>5
    <3>5. ChunkData(full, b) = DataEnd([full EXCEPT !.data = full.size], From(b, 0 + 1))
      <4>1. ~(Len(b) <= 0)
        BY <1>2
      <4>2. ChunkData(full, b) =
              IF Len(b) <= full.size - full.data
                THEN Parsed([full EXCEPT !.data = full.data + Len(b)], <<>>, FALSE, FALSE)
                ELSE DataEnd([full EXCEPT !.data = full.size], From(b, full.size - full.data + 1))
        BY <2>5, ChunkDataIs
      <4> QED BY <3>4, <4>1, <4>2
    <3>6. From(b, 0 + 1) = b
      <4>1. 0 + 1 = 1
        OBVIOUS
      <4> QED BY <4>1, SubSeqFull DEF From
    <3>7. [full EXCEPT !.data = full.size] = full
      BY <2>5 DEF full
    <3> QED BY <3>1, <3>2, <3>3, <3>5, <3>6, <3>7
  <2> QED BY <1>7, <2>6, <2>7 DEF ChunkSplit
<1> QED BY <1>8, <1>9

(* The last chunk may be divided in its trailers.                         *)
LEMMA TrailersSplits ==
  ASSUME NEW k \in ChunksFit(TRUE), k.st = "VALID", k.valid = FALSE, k.size = 0,
         NEW a \in Seq(Tokens), NEW b \in Seq(Tokens), b # <<>>
  PROVE  ChunkSplit(k, a, b)
<1> DEFINE t == HeadersParse(k.trailers, a)
           u == HeadersParse(k.trailers, a \o b)
           p == TrailersParsed(t, k)
           w == TrailersParsed(u, k)
           Led(h) == [k EXCEPT !.trailers = h.to, !.valid = h.ok]
<1>1. k.trailers \in HeadersFit(TRUE) /\ k \in Chunks
  BY DEF ChunksFit, Chunks, HeadersFit
<1>2. ChunkParse(k, a) = p /\ ChunkParse(k, a \o b) = w
  BY ChunkParseIs
<1>3. HeadersSplit(k.trailers, a, b)
  BY <1>1, HeadersSplits
<1>4. /\ t.ok \/ (t.bad /\ t.rest # <<>>) => u = Joined(t, b)
      /\ ~t.ok /\ ~t.bad /\ (a = <<>> \/ FineCut(t.to, Last(a), Head(b))) =>
           u = HeadersParse(t.to, b)
  BY <1>3 DEF HeadersSplit
<1>5. t \in Results(Headers, HeadersFit(TRUE), a)
  BY <1>1, HeadersParseResults
<1> HIDE DEF t, u
<1>6. /\ t = Parsed(t.to, t.rest, t.ok, t.bad) /\ t.ok \in BOOLEAN
      /\ ~t.bad => t.to \in HeadersFit(TRUE)
  BY <1>5 DEF Results, Parsed
<1>7. p = Parsed(Led(t), t.rest, t.ok, t.bad)
  BY <1>6 DEF TrailersParsed, Parsed
<1>8. p.ok = t.ok /\ p.bad = t.bad /\ p.rest = t.rest /\ p.to = Led(t)
  <2> HIDE DEF p, Led
  <2> QED BY <1>7 DEF Parsed
<1>9. ASSUME u = Joined(t, b)
      PROVE  w = Joined(p, b)
  <2>1. w = [u EXCEPT !.to = Led(u)]
    BY DEF TrailersParsed
  <2>2. u = Parsed(t.to, t.rest \o b, t.ok, t.bad) /\ u.to = t.to /\ u.ok = t.ok
    BY <1>9 DEF Joined, Parsed
  <2>3. Led(u) = Led(t)
    BY <2>2
  <2> HIDE DEF Led, w, p
  <2>4. w = Parsed(Led(t), t.rest \o b, t.ok, t.bad)
    BY <2>1, <2>2, <2>3 DEF Parsed
  <2> QED BY <1>8, <2>4 DEF Joined
<1>10. ASSUME ~p.ok, ~p.bad, a = <<>> \/ FineChunkCut(p.to, Last(a), Head(b))
       PROVE  w = ChunkParse(p.to, b)
  <2>1. t.ok = FALSE /\ ~t.bad /\ p.to = Led(t)
    BY <1>6, <1>8, <1>10
  <2>2. /\ p.to.st = "VALID" /\ p.to.valid = FALSE /\ p.to.size = 0 /\ p.to.trailers = t.to
        /\ \A h : [p.to EXCEPT !.trailers = h.to, !.valid = h.ok] = Led(h)
    <3>1. k = [st |-> k.st, ws |-> k.ws, length |-> k.length, hex |-> k.hex, size |-> k.size,
               data |-> k.data, trailers |-> k.trailers, valid |-> k.valid]
      BY <1>1 DEF Chunks
    <3> QED BY <2>1, <3>1
  <2> HIDE DEF Led, p, w
  <2>3. a = <<>> \/ FineCut(t.to, Last(a), Head(b))
    BY <1>10, <2>2 DEF FineChunkCut
  <2>4. u = HeadersParse(t.to, b)
    BY <1>4, <2>1, <2>3
  <2>5. ChunkParse(p.to, b) = TrailersParsed(HeadersParse(t.to, b), p.to)
    BY <2>2, ChunkParseIs
  <2>6. TrailersParsed(u, p.to) = [u EXCEPT !.to = Led(u)]
    BY <2>2 DEF TrailersParsed
  <2>7. w = [u EXCEPT !.to = Led(u)]
    BY DEF TrailersParsed, w, Led
  <2> QED BY <2>4, <2>5, <2>6, <2>7
<1> HIDE DEF p, w
<1>11. /\ p.ok \/ (p.bad /\ p.rest # <<>>) => w = Joined(p, b)
       /\ ~p.ok /\ ~p.bad /\ (a = <<>> \/ FineChunkCut(p.to, Last(a), Head(b))) =>
            w = ChunkParse(p.to, b)
  BY <1>4, <1>8, <1>9, <1>10
<1> QED BY <1>2, <1>11 DEF ChunkSplit

(* A chunk may be divided at any fine cut, that is, anywhere in its
   header too. *)
LEMMA ChunkSplits ==
  ASSUME NEW k \in ChunksFit(TRUE), k.valid = FALSE,
         NEW a \in Seq(Tokens), NEW b \in Seq(Tokens), b # <<>>
  PROVE  ChunkSplit(k, a, b)
<1>1. ASSUME NEW c \in ChunksFit(TRUE), c.st = "VALID", c.valid = FALSE, NEW d \in Seq(Tokens)
      PROVE  ChunkSplit(c, d, b)
  BY <1>1, TrailersSplits, ChunkDataSplits
<1>2. CASE k.st = "VALID"
  BY <1>1, <1>2
<1>3. CASE k.st # "VALID"
  <2> DEFINE S == ChunkLines(k.trailers)
             s == Scan("chunk", k, a)
             t == Scan("chunk", k, a \o b)
             p == ChunkParse(k, a)
             w == ChunkParse(k, a \o b)
  <2>1. k \in Chunks /\ k.trailers \in Headers /\ Fit(k.trailers)
    BY DEF ChunksFit, Chunks
  <2>2. k \in S
    BY <1>3, <2>1 DEF ChunkLines, ChunksFit
  <2>3. Reads("chunk", S, S)
    BY <2>1, ChunkLineReads
  <2>4. /\ s \in Results(S, S, a)
        /\ s.ok <=> ~s.bad /\ s.to.st = "VALID"
    BY <2>2, <2>3, ScanResults
  <2>5. ScanSplit("chunk", k, a, b)
    BY <2>2, <2>3, ScanSplits
  <2>6. /\ s.bad => t = Joined(s, b)
        /\ s.ok => t = Joined(s, b)
        /\ ~s.ok /\ ~s.bad => t = Scan("chunk", s.to, b)
    BY <2>5 DEF ScanSplit
  <2>7. p = ChunkHeaderParsed(s) /\ w = ChunkHeaderParsed(t)
    BY <1>3 DEF ChunkParse
  <2>8. \A x : ~x.ok => ChunkHeaderParsed(x) = x
    BY DEF ChunkHeaderParsed
  <2> HIDE DEF s, t, p, w
  <2>9. /\ s.rest \in Left(a) /\ s.rest \in Seq(Tokens) /\ (~s.bad => s.to \in S)
        /\ s = Parsed(s.to, s.rest, s.ok, s.bad) /\ s.ok \in BOOLEAN /\ s.bad \in BOOLEAN
        /\ s.ok => ~s.bad
    BY <2>4 DEF Results, Left, Parsed
  <2>10. CASE s.bad
    <3>1. p = s /\ t = Joined(s, b) /\ ~s.ok
      BY <2>6, <2>7, <2>8, <2>9, <2>10
    <3>2. w = t
      <4>1. ~t.ok
        BY <3>1 DEF Joined, Parsed
      <4> QED BY <2>7, <2>8, <4>1
    <3> QED BY <2>10, <3>1, <3>2 DEF ChunkSplit, p, w
  <2>11. CASE ~s.ok /\ ~s.bad
    <3>1. p = s /\ s.to.st # "VALID" /\ t = Scan("chunk", s.to, b)
      BY <2>4, <2>6, <2>7, <2>8, <2>11
    <3>2. ChunkParse(s.to, b) = ChunkHeaderParsed(t)
      BY <3>1 DEF ChunkParse
    <3> QED BY <2>7, <2>11, <3>1, <3>2 DEF ChunkSplit, p, w
  <2>12. CASE s.ok
    <3>1. s.to.st = "VALID" /\ t = Joined(s, b) /\ s.to \in S /\ s.ok = TRUE /\ s.bad = FALSE
      BY <2>4, <2>6, <2>9, <2>12
    <3>2. s.to \in ChunksFit(TRUE) /\ s.to.valid = FALSE
      <4>1. PICK c : c = s.to
        OBVIOUS
      <4>2. /\ c \in Chunks /\ c.data = 0 /\ c.trailers = k.trailers /\ c.size \in Nat
            /\ (c.st \in SizeKnown => c.size <= MaxChunk) /\ c.valid = FALSE
        BY <3>1, <4>1 DEF ChunkLines, Chunks
      <4>3. c.data <= c.size
        BY <4>2
      <4>4. c \in ChunksFit(TRUE)
        BY <2>1, <4>2, <4>3 DEF ChunksFit
      <4> QED BY <4>1, <4>2, <4>4
    <3>3. \A x : ChunkParse(s.to, x) = ChunkHeaderParsed(Parsed(s.to, x, TRUE, FALSE))
      BY <3>1 DEF ChunkParse
    <3>4. p = ChunkParse(s.to, s.rest)
      BY <2>7, <2>9, <3>1, <3>3
    <3>5. w = ChunkParse(s.to, s.rest \o b)
      BY <2>7, <3>1, <3>3 DEF Joined
    <3>6. ChunkSplit(s.to, s.rest, b)
      BY <1>1, <2>9, <3>1, <3>2
    <3>7. /\ p.ok \/ (p.bad /\ p.rest # <<>>) => w = Joined(p, b)
          /\ ~p.ok /\ ~p.bad /\ (s.rest = <<>> \/ FineChunkCut(p.to, Last(s.rest), Head(b))) =>
               w = ChunkParse(p.to, b)
      BY <3>4, <3>5, <3>6 DEF ChunkSplit
    <3>8. s.rest = <<>> \/ (Last(s.rest) = Last(a) /\ a # <<>>)
      <4>1. a = <<>> => Len(s.rest) <= 0
        BY <2>9, EmptySeq DEF Left
      <4>2. Len(s.rest) \in Nat
        BY <2>9, LenProperties
      <4>3. a = <<>> => s.rest = <<>>
        BY <2>9, <4>1, <4>2, EmptySeq
      <4> QED BY <2>9, <4>3 DEF Left, EndsAs
    <3>9. ~p.ok /\ ~p.bad /\ (a = <<>> \/ FineChunkCut(p.to, Last(a), Head(b))) =>
            w = ChunkParse(p.to, b)
      BY <3>7, <3>8
    <3> QED BY <3>7, <3>9 DEF ChunkSplit, p, w
  <2> QED BY <2>10, <2>11, <2>12
<1> QED BY <1>2, <1>3

-----------------------------------------------------------------------------
(* The head of a message.                                                 *)

(* The start line on two buffers, which may be divided anywhere.          *)
LineSplit(l, a, b) ==
  LET p == LineParse(l, a)
      w == LineParse(l, a \o b)
  IN  /\ p.ok \/ p.bad => w = Joined(p, b)
      /\ ~p.ok /\ ~p.bad => w = LineParse(p.to, b)
      /\ p.ok => p.to.st = "VALID"

\* A line whose fail_ is set to what it is remains the same.
LEMMA FailingFine ==
  ASSUME NEW l, l \in RequestLines \/ l \in ResponseLines, l.fail = FALSE
  PROVE  [l EXCEPT !.fail = FALSE] = l
<1>1. CASE l \in RequestLines
  BY <1>1 DEF RequestLines
<1>2. CASE l \in ResponseLines
  BY <1>2 DEF ResponseLines
<1> QED BY <1>1, <1>2

(* The mark of failure, as a result of its own.                           *)
LEMMA FailingIs ==
  ASSUME NEW S, NEW Fine, NEW buf, NEW s \in Results(S, Fine, buf)
  PROVE  Failing(s) = Parsed([s.to EXCEPT !.fail = s.bad], s.rest, s.ok, s.bad)
<1> DEFINE y == [s.to EXCEPT !.fail = s.bad]
<1>1. s = [to |-> s.to, rest |-> s.rest, ok |-> s.ok, bad |-> s.bad]
  BY DEF Results
<1>2. Failing(s) = [s EXCEPT !.to = y]
  BY DEF Failing
<1> HIDE DEF y
<1>3. [s EXCEPT !.to = y] = [to |-> y, rest |-> s.rest, ok |-> s.ok, bad |-> s.bad]
  BY <1>1
<1> QED BY <1>2, <1>3 DEF Parsed, y

(* A start line that marks its failure may be divided as its parse may.   *)
LEMMA FailingSplits ==
  ASSUME NEW line, NEW S, NEW Fine, S = RequestLines \/ S = ResponseLines,
         \A x \in Fine : x.fail = FALSE, line # "field",
         NEW l \in S, l \in Fine, Reads(line, S, Fine),
         NEW a \in Seq(Tokens), NEW b \in Seq(Tokens), b # <<>>
  PROVE  LET s == Scan(line, l, a)
             t == Scan(line, l, a \o b)
             p == Failing(s)
             w == Failing(t)
         IN  /\ p.ok \/ p.bad => w = Joined(p, b)
             /\ ~p.ok /\ ~p.bad => w = Failing(Scan(line, p.to, b)) /\ p.to.st # "VALID"
             /\ p.ok => p.to.st = "VALID"
<1> DEFINE s == Scan(line, l, a)
           t == Scan(line, l, a \o b)
           p == Failing(s)
           w == Failing(t)
<1>1. a \o b \in Seq(Tokens)
  BY JoinedHead
<1>2. /\ s \in Results(S, Fine, a)
      /\ s.ok <=> ~s.bad /\ s.to.st = "VALID"
  BY ScanResults
<1>3. t \in Results(S, Fine, a \o b)
  BY <1>1, ScanResults
<1>4. ScanSplit(line, l, a, b)
  BY ScanSplits
<1>5. /\ s.bad \/ s.ok => t = Joined(s, b)
      /\ ~s.ok /\ ~s.bad => t = Scan(line, s.to, b)
  BY <1>4 DEF ScanSplit
<1> HIDE DEF s, t
<1>6. p = Parsed([s.to EXCEPT !.fail = s.bad], s.rest, s.ok, s.bad)
  BY <1>2, FailingIs
<1>7. w = Parsed([t.to EXCEPT !.fail = t.bad], t.rest, t.ok, t.bad)
  BY <1>3, FailingIs
<1>8. /\ s.to \in S /\ s.ok \in BOOLEAN /\ s.bad \in BOOLEAN /\ (s.ok => ~s.bad)
      /\ ~s.bad => s.to.fail = FALSE
  BY <1>2 DEF Results
<1>9. ~s.bad => [s.to EXCEPT !.fail = s.bad] = s.to
  BY <1>8, FailingFine
<1> HIDE DEF p, w
<1>10. /\ p.ok = s.ok /\ p.bad = s.bad /\ p.rest = s.rest /\ (~s.bad => p.to = s.to)
       /\ p.to = [s.to EXCEPT !.fail = s.bad]
  BY <1>6, <1>9 DEF Parsed
<1>11. ASSUME t = Joined(s, b) PROVE w = Joined(p, b)
  <2>1. t.to = s.to /\ t.rest = s.rest \o b /\ t.ok = s.ok /\ t.bad = s.bad
    BY <1>11 DEF Joined, Parsed
  <2> QED BY <1>7, <1>10, <2>1 DEF Joined
<1>12. ASSUME ~p.ok, ~p.bad PROVE w = Failing(Scan(line, p.to, b)) /\ p.to.st # "VALID"
  <2>1. p.to = s.to /\ t = Scan(line, s.to, b) /\ s.to.st # "VALID"
    BY <1>2, <1>5, <1>8, <1>10, <1>12
  <2> QED BY <2>1 DEF w
<1>13. p.ok => p.to.st = "VALID"
  BY <1>2, <1>8, <1>10
<1>14. p.ok \/ p.bad => w = Joined(p, b)
  BY <1>5, <1>10, <1>11
<1> QED BY <1>12, <1>13, <1>14 DEF p, w, s, t

(* The request line and the response line may be divided anywhere.        *)
LEMMA LineSplits ==
  ASSUME conf \in Configs, NEW l \in LinesOf(conf.kind), l \in FineLinesOf(conf.kind),
         NEW a \in Seq(Tokens), NEW b \in Seq(Tokens), b # <<>>
  PROVE  LineSplit(l, a, b)
<1>1. conf.kind \in {"request", "response"}
  BY ConfigsAssumption
<1>2. CASE l.st = "VALID"
  <2>1. \A x : LineParse(l, x) = Parsed(l, x, TRUE, FALSE)
    BY <1>2 DEF LineParse
  <2>2. Parsed(l, a \o b, TRUE, FALSE) = Joined(Parsed(l, a, TRUE, FALSE), b)
    BY DEF Joined, Parsed
  <2>3. Parsed(l, a, TRUE, FALSE).ok = TRUE /\ Parsed(l, a, TRUE, FALSE).to = l
    BY DEF Parsed
  <2> QED BY <1>2, <2>1, <2>2, <2>3 DEF LineSplit
<1>3. CASE l.st # "VALID" /\ conf.kind = "request"
  <2> DEFINE p == Failing(Scan("request", l, a))
             w == Failing(Scan("request", l, a \o b))
  <2>1. l \in RequestLines /\ l \in FineRequestLines
    BY <1>3 DEF LinesOf, FineLinesOf
  <2>2. \A x, y : x.st # "VALID" => LineParse(x, y) = Failing(Scan("request", x, y))
    BY <1>3 DEF LineParse, RequestLineParse
  <2>3. \A x \in FineRequestLines : x.fail = FALSE
    BY DEF FineRequestLines
  <2>4. /\ p.ok \/ p.bad => w = Joined(p, b)
        /\ ~p.ok /\ ~p.bad => w = Failing(Scan("request", p.to, b)) /\ p.to.st # "VALID"
        /\ p.ok => p.to.st = "VALID"
    <3>1. Reads("request", RequestLines, FineRequestLines)
      BY RequestLineReads
    <3> QED BY <2>1, <2>3, <3>1, FailingSplits
  <2>5. LineParse(l, a) = p /\ LineParse(l, a \o b) = w
    BY <1>3, <2>2
  <2> HIDE DEF p, w
  <2> QED BY <2>2, <2>4, <2>5 DEF LineSplit
<1>4. CASE l.st # "VALID" /\ conf.kind = "response"
  <2> DEFINE p == Failing(Scan("response", l, a))
             w == Failing(Scan("response", l, a \o b))
  <2>1. l \in ResponseLines /\ l \in FineResponseLines
    BY <1>4 DEF LinesOf, FineLinesOf
  <2>2. \A x, y : x.st # "VALID" => LineParse(x, y) = Failing(Scan("response", x, y))
    BY <1>4 DEF LineParse, ResponseLineParse
  <2>3. \A x \in FineResponseLines : x.fail = FALSE
    BY DEF FineResponseLines
  <2>4. /\ p.ok \/ p.bad => w = Joined(p, b)
        /\ ~p.ok /\ ~p.bad => w = Failing(Scan("response", p.to, b)) /\ p.to.st # "VALID"
        /\ p.ok => p.to.st = "VALID"
    <3>1. Reads("response", ResponseLines, FineResponseLines)
      BY ResponseLineReads
    <3> QED BY <2>1, <2>3, <3>1, FailingSplits
  <2>5. LineParse(l, a) = p /\ LineParse(l, a \o b) = w
    BY <1>4, <2>2
  <2> HIDE DEF p, w
  <2> QED BY <2>2, <2>4, <2>5 DEF LineSplit
<1> QED BY <1>1, <1>2, <1>3, <1>4

(* The cut between t and c is none of those that the parse of the head is
   sensitive to. *)
FineHeadCut(r, t, c) == r.line.st = "VALID" => FineCut(r.headers, t, c)

(* The head of a message on two buffers: start line and headers.          *)
MessageSplit(r, a, b) ==
  LET p == MessageParse(r, a)
      w == MessageParse(r, a \o b)
  IN  /\ p.ok \/ (p.bad /\ (p.rest # <<>> \/ p.to.line.fail)) => w = Joined(p, b)
      /\ ~p.ok /\ ~p.bad /\ FineHeadCut(p.to, Last(a), Head(b)) => w = MessageParse(p.to, b)
      /\ p.to.code = r.code /\ p.to.continued = r.continued

(* A receiver with another start line, with other headers; a result about
   a receiver. *)
WithLine(r, l) == [r EXCEPT !.line = l]
WithHeaders(r, h) == [r EXCEPT !.headers = h.to, !.valid = h.ok]
Put(p, r) == [p EXCEPT !.to = r]

\* A receiver is what its parts are.
LEMMA RxSame ==
  ASSUME NEW kind
  PROVE  \A x, y \in Receivers(kind) :
           /\ x.line = y.line /\ x.headers = y.headers /\ x.valid = y.valid /\ x.chunk = y.chunk
           /\ x.body = y.body /\ x.code = y.code /\ x.continued = y.continued /\ x.head = y.head
           => x = y
BY DEF Receivers

(* Field by field: y is r with the start line l.                          *)
WithLineIs(y, r, l) ==
  /\ y.line = l /\ y.headers = r.headers /\ y.valid = r.valid /\ y.chunk = r.chunk
  /\ y.body = r.body /\ y.code = r.code /\ y.continued = r.continued /\ y.head = r.head

(* The start line is replaced, and nothing else.                          *)
LEMMA LineReplaced ==
  ASSUME NEW kind, NEW r \in Receivers(kind), NEW l \in LinesOf(kind)
  PROVE  WithLine(r, l) \in Receivers(kind) /\ WithLineIs(WithLine(r, l), r, l)
<1> DEFINE y == [r EXCEPT !.line = l]
<1>1. y \in Receivers(kind)
  BY DEF Receivers
<1>2. WithLineIs(y, r, l)
  BY DEF Receivers, WithLineIs
<1> QED BY <1>1, <1>2 DEF WithLine

(* What replaces a start line twice is the second.                        *)
LEMMA LineReplacedAgain ==
  ASSUME NEW kind, NEW r \in Receivers(kind), NEW l \in LinesOf(kind), NEW m \in LinesOf(kind)
  PROVE  WithLine(WithLine(r, l), m) = WithLine(r, m)
<1> DEFINE x == WithLine(r, l)
           y == WithLine(x, m)
           z == WithLine(r, m)
<1>1. x \in Receivers(kind) /\ WithLineIs(x, r, l)
  BY LineReplaced
<1> HIDE DEF x
<1>2. y \in Receivers(kind) /\ WithLineIs(y, x, m)
  BY <1>1, LineReplaced
<1>3. z \in Receivers(kind) /\ WithLineIs(z, r, m)
  BY LineReplaced
<1> HIDE DEF y, z
<1>4. y = z
  BY <1>1, <1>2, <1>3, RxSame DEF WithLineIs
<1> QED BY <1>4 DEF x, y, z

(* Field by field: y is r with the headers h, complete or not.            *)
WithHeadersIs(y, r, h) ==
  /\ y.line = r.line /\ y.headers = h.to /\ y.valid = h.ok /\ y.chunk = r.chunk
  /\ y.body = r.body /\ y.code = r.code /\ y.continued = r.continued /\ y.head = r.head

(* The headers are replaced, and nothing else.                            *)
LEMMA HeadersReplaced ==
  ASSUME NEW kind, NEW r \in Receivers(kind), NEW h, h.to \in Headers, h.ok \in BOOLEAN
  PROVE  WithHeaders(r, h) \in Receivers(kind) /\ WithHeadersIs(WithHeaders(r, h), r, h)
<1> DEFINE y == [r EXCEPT !.headers = h.to, !.valid = h.ok]
<1>1. y \in Receivers(kind)
  BY DEF Receivers
<1>2. WithHeadersIs(y, r, h)
  BY DEF Receivers, WithHeadersIs
<1> QED BY <1>1, <1>2 DEF WithHeaders

(* What replaces headers twice is the second; the line stays.             *)
LEMMA HeadersReplacedAgain ==
  ASSUME NEW kind, NEW r \in Receivers(kind), NEW h, h.to \in Headers, h.ok \in BOOLEAN,
         NEW g, g.to \in Headers, g.ok \in BOOLEAN
  PROVE  /\ WithHeaders(WithHeaders(r, h), g) = WithHeaders(r, g)
         /\ WithLine(WithHeaders(r, h), r.line) = WithHeaders(r, h)
         /\ h.to = g.to /\ h.ok = g.ok => WithHeaders(r, h) = WithHeaders(r, g)
<1> DEFINE x == WithHeaders(r, h)
           y == WithHeaders(x, g)
           z == WithHeaders(r, g)
           u == WithLine(x, r.line)
<1>1. x \in Receivers(kind) /\ WithHeadersIs(x, r, h)
  BY HeadersReplaced
<1>2. z \in Receivers(kind) /\ WithHeadersIs(z, r, g)
  BY HeadersReplaced
<1> HIDE DEF x, z
<1>3. y \in Receivers(kind) /\ WithHeadersIs(y, x, g)
  BY <1>1, HeadersReplaced
<1>4. u \in Receivers(kind) /\ WithLineIs(u, x, r.line)
  <2>1. r.line \in LinesOf(kind)
    BY DEF Receivers
  <2> QED BY <1>1, <2>1, LineReplaced
<1> HIDE DEF y, u
<1>5. y = z
  BY <1>1, <1>2, <1>3, RxSame DEF WithHeadersIs
<1>6. u = x
  BY <1>1, <1>4, RxSame DEF WithHeadersIs, WithLineIs
<1>7. h.to = g.to /\ h.ok = g.ok => x = z
  BY <1>1, <1>2, RxSame DEF WithHeadersIs
<1> QED BY <1>5, <1>6, <1>7 DEF x, y, z, u

(* A result about a receiver, as a result of its own.                     *)
LEMMA PutIs ==
  ASSUME NEW t, NEW s, NEW o, NEW b, NEW r
  PROVE  Put(Parsed(t, s, o, b), r) = Parsed(r, s, o, b)
BY DEF Put, Parsed

(* The parts of a result.                                                 *)
LEMMA ParsedParts ==
  ASSUME NEW t, NEW s, NEW o \in BOOLEAN, NEW b \in BOOLEAN
  PROVE  LET p == Parsed(t, s, o, b)
         IN  p.to = t /\ p.rest = s /\ p.ok = o /\ p.bad = b
BY DEF Parsed

(* A result is made of its parts.                                         *)
LEMMA ResultIs ==
  ASSUME NEW S, NEW Fine, NEW buf, NEW p \in Results(S, Fine, buf)
  PROVE  p = Parsed(p.to, p.rest, p.ok, p.bad)
BY DEF Results, Parsed

(* A result when b follows the buffer.                                    *)
LEMMA JoinedIs ==
  ASSUME NEW t, NEW s, NEW o, NEW d, NEW b
  PROVE  Joined(Parsed(t, s, o, d), b) = Parsed(t, s \o b, o, d)
BY DEF Joined, Parsed

(* The head of a message may be divided at any fine cut.                  *)
LEMMA MessageSplits ==
  ASSUME conf \in Configs, NEW r \in ReceiversFit(conf.kind, TRUE), r.valid = FALSE,
         NEW a \in Seq(Tokens), NEW b \in Seq(Tokens), b # <<>>
  PROVE  MessageSplit(r, a, b)
<1> DEFINE k == conf.kind
           l == LineParse(r.line, a)
           lw == LineParse(r.line, a \o b)
           p == MessageParse(r, a)
           w == MessageParse(r, a \o b)
<1>1. /\ r.line \in LinesOf(k) /\ r.line \in FineLinesOf(k) /\ r.headers \in Headers
      /\ r.headers \in HeadersFit(TRUE) /\ Fit(r.chunk.trailers) /\ r \in Receivers(k)
  BY DEF ReceiversFit, Receivers, FitRx, HeadersFit
<1>2. /\ l \in Results(LinesOf(k), FineLinesOf(k), a)
      /\ l.bad => l.to.fail = TRUE
  BY <1>1, LineParseResults
<1>3. LineSplit(r.line, a, b)
  BY <1>1, LineSplits
<1>4. /\ l.ok \/ l.bad => lw = Joined(l, b)
      /\ ~l.ok /\ ~l.bad => lw = LineParse(l.to, b)
      /\ l.ok => l.to.st = "VALID"
  BY <1>3 DEF LineSplit
<1>5. \A x, y : LineParsed(x, y) =
                  IF x.ok THEN HeadersParsed(HeadersParse(y.headers, x.rest), WithLine(y, x.to))
                          ELSE Put(x, WithLine(y, x.to))
  BY DEF LineParsed, WithLine, Put
<1>6. \A x, y : HeadersParsed(x, y) = Put(x, WithHeaders(y, x))
  BY DEF HeadersParsed, WithHeaders, Put
<1>7. p = LineParsed(l, r) /\ w = LineParsed(lw, r)
  BY DEF MessageParse
<1> DEFINE Lined(x) == WithLine(r, x)
<1>8. l.to \in LinesOf(k) /\ (~l.ok /\ ~l.bad => lw.to \in LinesOf(k))
  <2>1. ~l.ok /\ ~l.bad => LineParse(l.to, b).to \in LinesOf(k)
    <3>1. ~l.bad => l.to \in LinesOf(k) /\ l.to \in FineLinesOf(k)
      BY <1>2 DEF Results
    <3>2. \A x \in LinesOf(k) : x \in FineLinesOf(k) => LineParse(x, b).to \in LinesOf(k)
      BY LineParseResults DEF Results
    <3> QED BY <3>1, <3>2
  <2> QED BY <1>2, <1>4, <2>1 DEF Results
<1>9. \A x \in LinesOf(k) :
        /\ WithLine(r, x) = Lined(x)
        /\ \A z \in LinesOf(k) : WithLine(Lined(x), z) = Lined(z)
        /\ Lined(x).headers = r.headers /\ Lined(x).line = x /\ Lined(x).code = r.code
        /\ Lined(x).continued = r.continued /\ Lined(x) \in Receivers(k)
  BY <1>1, LineReplaced, LineReplacedAgain DEF WithLineIs
<1> HIDE DEF p, w, l, lw, Lined
<1>10. \A x \in LinesOf(k) : \A y : y.to \in LinesOf(k) => LineParsed(y, Lined(x)) = LineParsed(y, r)
  BY <1>5, <1>9
<1>11. /\ l.ok \in BOOLEAN /\ l.bad \in BOOLEAN /\ l.rest \in Left(a) /\ l.rest \in Seq(Tokens)
       /\ (l.ok => ~l.bad) /\ (~l.bad => l.to \in FineLinesOf(k))
  BY <1>2 DEF Results, Left
<1>12. l = Parsed(l.to, l.rest, l.ok, l.bad)
  BY <1>2, ResultIs
<1>13. CASE l.bad
  <2>1. ~l.ok /\ lw = Joined(l, b)
    BY <1>4, <1>11, <1>13
  <2>2. lw = Parsed(l.to, l.rest \o b, l.ok, l.bad)
    BY <2>1 DEF Joined
  <2>3. lw.ok = l.ok /\ lw.to = l.to
    BY <1>11, <2>2, ParsedParts
  <2>4. w = Put(lw, Lined(l.to)) /\ p = Put(l, Lined(l.to))
    BY <1>5, <1>7, <1>8, <1>9, <2>1, <2>3
  <2>5. w = Parsed(Lined(l.to), l.rest \o b, l.ok, l.bad)
    BY <2>2, <2>4, PutIs
  <2>6. p = Parsed(Lined(l.to), l.rest, l.ok, l.bad)
    BY <1>12, <2>4, PutIs
  <2>7. w = Joined(p, b)
    BY <2>5, <2>6, JoinedIs
  <2>8. p.ok = l.ok /\ p.bad = l.bad /\ p.to = Lined(l.to)
    BY <1>11, <2>6, ParsedParts
  <2> QED BY <1>8, <1>9, <1>13, <2>7, <2>8 DEF MessageSplit, p, w
<1>14. CASE ~l.ok /\ ~l.bad
  <2>1. p = Put(l, Lined(l.to))
    BY <1>5, <1>7, <1>8, <1>9, <1>14
  <2>2. p = Parsed(Lined(l.to), l.rest, l.ok, l.bad)
    BY <1>12, <2>1, PutIs
  <2>3. p.to = Lined(l.to) /\ p.ok = l.ok /\ p.bad = l.bad
    BY <1>11, <2>2, ParsedParts
  <2>4. MessageParse(Lined(l.to), b) = LineParsed(lw, Lined(l.to))
    BY <1>4, <1>8, <1>9, <1>14 DEF MessageParse
  <2>5. w = MessageParse(Lined(l.to), b)
    BY <1>7, <1>8, <1>10, <1>14, <2>4
  <2> QED BY <1>8, <1>9, <1>14, <2>3, <2>5 DEF MessageSplit, p, w
<1>15. CASE l.ok
  <2> DEFINE h == HeadersParse(r.headers, l.rest)
             hw == HeadersParse(r.headers, l.rest \o b)
             With(x) == WithHeaders(Lined(l.to), x)
  <2>1. \A x : WithHeaders(Lined(l.to), x) = With(x)
    OBVIOUS
  <2> HIDE DEF With
  <2>4. p = Put(h, With(h))
    BY <1>5, <1>6, <1>7, <1>8, <1>9, <1>15, <2>1
  <2>5. w = Put(hw, With(hw))
    <3>1. lw = Parsed(l.to, l.rest \o b, l.ok, l.bad)
      BY <1>4, <1>15 DEF Joined
    <3>2. lw.ok = l.ok /\ lw.rest = l.rest \o b /\ lw.to = l.to
      BY <3>1 DEF Parsed
    <3> QED BY <1>5, <1>6, <1>7, <1>8, <1>9, <1>15, <2>1, <3>2
  <2>6. HeadersSplit(r.headers, l.rest, b)
    BY <1>1, <1>11, HeadersSplits
  <2>7. /\ h.ok \/ (h.bad /\ h.rest # <<>>) => hw = Joined(h, b)
        /\ ~h.ok /\ ~h.bad /\ (l.rest = <<>> \/ FineCut(h.to, Last(l.rest), Head(b))) =>
             hw = HeadersParse(h.to, b)
    BY <2>6 DEF HeadersSplit
  <2>8. /\ h \in Results(Headers, HeadersFit(TRUE), l.rest)
        /\ hw \in Results(Headers, HeadersFit(TRUE), l.rest \o b)
    <3>1. l.rest \o b \in Seq(Tokens)
      BY <1>11, JoinedHead
    <3> QED BY <1>1, <1>11, <3>1, HeadersParseResults
  <2> HIDE DEF h, hw
  <2>9. h = Parsed(h.to, h.rest, h.ok, h.bad)
    BY <2>8, ResultIs
  <2>10. /\ h.to \in Headers /\ h.ok \in BOOLEAN /\ h.bad \in BOOLEAN
         /\ hw.to \in Headers /\ hw.ok \in BOOLEAN
    BY <2>8 DEF Results
  <2>11. p = Parsed(With(h), h.rest, h.ok, h.bad)
    BY <2>4, <2>9, PutIs
  <2>12. p.ok = h.ok /\ p.bad = h.bad /\ p.rest = h.rest /\ p.to = With(h)
    BY <2>10, <2>11, ParsedParts
  <2>13. /\ p.to.line = l.to /\ p.to.code = r.code /\ p.to.continued = r.continued
         /\ p.to.headers = h.to
         /\ l.to.fail = FALSE /\ l.to.st = "VALID"
    <3>1. WithHeadersIs(With(h), Lined(l.to), h)
      BY <1>8, <1>9, <2>10, HeadersReplaced DEF With
    <3>2. l.to.fail = FALSE /\ l.to.st = "VALID"
      BY <1>4, <1>11, <1>15 DEF FineLinesOf, FineRequestLines, FineResponseLines
    <3> QED BY <1>8, <1>9, <2>12, <3>1, <3>2 DEF WithHeadersIs
  <2>14. ASSUME hw = Joined(h, b) PROVE w = Joined(p, b)
    <3>1. hw = Parsed(h.to, h.rest \o b, h.ok, h.bad)
      BY <2>14 DEF Joined
    <3>2. hw.to = h.to /\ hw.ok = h.ok
      BY <2>10, <3>1, ParsedParts
    <3>3. With(hw) = With(h)
      BY <1>8, <1>9, <2>10, <3>2, HeadersReplacedAgain DEF With
    <3>4. w = Parsed(With(h), h.rest \o b, h.ok, h.bad)
      BY <2>5, <3>1, <3>3, PutIs
    <3> QED BY <2>11, <3>4, JoinedIs
  <2>15. ASSUME ~p.ok, ~p.bad, FineHeadCut(p.to, Last(a), Head(b))
         PROVE  w = MessageParse(p.to, b)
    <3>1. FineCut(h.to, Last(a), Head(b))
      BY <2>13, <2>15 DEF FineHeadCut
    <3>2. l.rest = <<>> \/ Last(l.rest) = Last(a)
      BY <1>11 DEF Left, EndsAs
    <3>3. hw = HeadersParse(h.to, b)
      BY <2>7, <2>12, <2>15, <3>1, <3>2
    <3> DEFINE e == Parsed(l.to, b, TRUE, FALSE)
    <3>4. LineParse(l.to, b) = e
      BY <2>13 DEF LineParse
    <3>5. e.ok = TRUE /\ e.rest = b /\ e.to = l.to
      BY DEF Parsed
    <3> HIDE DEF e
    <3>6. MessageParse(p.to, b) = LineParsed(e, p.to)
      BY <2>13, <3>4 DEF MessageParse
    <3>7. /\ WithHeaders(With(h), hw) = With(hw)
          /\ WithLine(With(h), l.to) = With(h)
      BY <1>8, <1>9, <2>10, HeadersReplacedAgain DEF With
    <3>8. LineParsed(e, p.to) = HeadersParsed(hw, With(h))
      BY <1>5, <2>12, <2>13, <3>3, <3>5, <3>7
    <3>9. HeadersParsed(hw, With(h)) = Put(hw, With(hw))
      BY <1>6, <3>7
    <3> QED BY <2>5, <3>6, <3>8, <3>9
  <2>16. p.ok \/ (p.bad /\ (p.rest # <<>> \/ p.to.line.fail)) => w = Joined(p, b)
    BY <2>7, <2>12, <2>13, <2>14
  <2> QED BY <2>13, <2>15, <2>16 DEF MessageSplit, p, w
<1> QED BY <1>11, <1>13, <1>14, <1>15

-----------------------------------------------------------------------------
(* The body, chunked or not.                                              *)

(* The end of a read where the receive loop has kept apart what the reads   *)
(* make a difference to; and a cut that the parsers are not sensitive to.   *)
Odd(v) == (v.verdict = "INCOMPLETE" /\ v.bad) \/ (v.verdict = "VALID" /\ Bare(v.to))

(* The cut between t and c, the receiver being r there, is none of those
   that the parsers are sensitive to. *)
Fine(r, t, c) == IF r.valid THEN FineChunkCut(r.chunk, t, c) ELSE FineHeadCut(r, t, c)

(* What receive makes of a and b in one buffer, w, and of a alone, v: the    *)
(* same, and it leaves b too; or it needs more of a message, and goes on     *)
(* with b as if it had not been interrupted.                              *)
Widened(v, b) == Verdict(v.to, v.rest \o b, v.verdict, v.bad)

(* What receive makes of the two in one, w, and of the first alone, v.    *)
Parted(v, w, t, b) ==
  \/ Odd(v) /\ v.rest = <<>>
  \/ w = Widened(v, b)
  \/ /\ v.verdict = "INCOMPLETE" /\ v.rest = <<>>
     /\ Fine(v.to, t, Head(b)) => w = Receive(v.to, b)

(* A refusal leaves what follows it.                                       *)
LEMMA RefusePart ==
  ASSUME NEW q, NEW s, NEW b, NEW code, NEW t
  PROVE  Parted(Refuse(q, s, code), Refuse(q, s \o b, code), t, b)
<1> DEFINE c == Clear([q EXCEPT !.code = code])
           v == Refuse(q, s, code)
           w == Refuse(q, s \o b, code)
<1>1. v = Verdict(c, s, "INVALID", TRUE) /\ w = Verdict(c, s \o b, "INVALID", TRUE)
  BY DEF Refuse
<1> HIDE DEF c
<1>2. w = Widened(v, b)
  <2>1. v.to = c /\ v.rest = s /\ v.verdict = "INVALID" /\ v.bad = TRUE
    BY <1>1 DEF Verdict
  <2> HIDE DEF v, w
  <2> QED BY <1>1, <2>1 DEF Widened
<1> QED BY <1>2 DEF Parted

(* So does a verdict of the same receiver.                                 *)
LEMMA VerdictPart ==
  ASSUME NEW q, NEW s, NEW b, NEW verdict, NEW bad, NEW t
  PROVE  Parted(Verdict(q, s, verdict, bad), Verdict(q, s \o b, verdict, bad), t, b)
<1> DEFINE v == Verdict(q, s, verdict, bad)
           w == Verdict(q, s \o b, verdict, bad)
<1>1. w = Widened(v, b)
  <2>1. v.to = q /\ v.rest = s /\ v.verdict = verdict /\ v.bad = bad
    BY DEF Verdict
  <2> HIDE DEF v
  <2> QED BY <2>1 DEF Widened
<1> QED BY <1>1 DEF Parted

(* The body of the length n, from two buffers and from the two in one.      *)
WithBody(r, n) == [r EXCEPT !.body = n]

(* Field by field: y is r with n of the body.                             *)
WithBodyIs(y, r, n) ==
  /\ y.line = r.line /\ y.headers = r.headers /\ y.valid = r.valid /\ y.chunk = r.chunk
  /\ y.body = n /\ y.code = r.code /\ y.continued = r.continued /\ y.head = r.head

(* The body on two buffers: complete in the first, or taken on from
   there. *)
TakePart(q, s, b, n) ==
  LET t == TakeBody(q, s, n)
      w == TakeBody(q, s \o b, n)
  IN  \/ t.to.body = n /\ w.to = t.to /\ w.rest = t.rest \o b
      \/ /\ t.to.body # n /\ t.to.body < n /\ t.rest = <<>> /\ t.to = WithBody(q, q.body + Len(s))
         /\ w = TakeBody(t.to, b, n)

(* A body is replaced, and nothing else.                                   *)
LEMMA BodyReplaced ==
  ASSUME NEW kind, NEW r \in Receivers(kind), NEW n \in Nat
  PROVE  WithBody(r, n) \in Receivers(kind) /\ WithBodyIs(WithBody(r, n), r, n)
<1> DEFINE y == [r EXCEPT !.body = n]
<1>1. y \in Receivers(kind)
  BY DEF Receivers
<1>2. WithBodyIs(y, r, n)
  BY DEF Receivers, WithBodyIs
<1> QED BY <1>1, <1>2 DEF WithBody

(* What replaces the length of the body twice is the second.              *)
LEMMA BodyReplacedAgain ==
  ASSUME NEW kind, NEW r \in Receivers(kind), NEW n \in Nat, NEW m \in Nat
  PROVE  WithBody(WithBody(r, n), m) = WithBody(r, m)
<1> DEFINE x == WithBody(r, n)
           y == WithBody(x, m)
           z == WithBody(r, m)
<1>1. x \in Receivers(kind) /\ WithBodyIs(x, r, n)
  BY BodyReplaced
<1> HIDE DEF x
<1>2. y \in Receivers(kind) /\ WithBodyIs(y, x, m)
  BY <1>1, BodyReplaced
<1>3. z \in Receivers(kind) /\ WithBodyIs(z, r, m)
  BY BodyReplaced
<1> HIDE DEF y, z
<1>4. y = z
  BY <1>1, <1>2, <1>3, RxSame DEF WithBodyIs
<1> QED BY <1>4 DEF x, y, z

(* How much of a buffer the body takes.                                    *)
Share(n, len) == IF len > n THEN n ELSE len

(* The body takes what it needs, or all there is.                         *)
LEMMA TakeBodyIs ==
  ASSUME NEW q, NEW s, NEW n
  PROVE  TakeBody(q, s, n) = [to   |-> WithBody(q, q.body + Share(n - q.body, Len(s))),
                              rest |-> From(s, Share(n - q.body, Len(s)) + 1)]
BY DEF TakeBody, WithBody, Share

(* Nothing is left of an empty buffer.                                      *)
LEMMA NothingTaken ==
  ASSUME NEW q, q.body \in Nat, NEW n \in Nat
  PROVE  TakeBody(q, <<>>, n).rest = <<>>
<1>1. Len(<<>>) = 0 /\ <<>> \in Seq(Tokens)
  BY EmptySeq
<1>2. TakeBody(q, <<>>, n).rest = From(<<>>, Share(n - q.body, Len(<<>>)) + 1)
  BY TakeBodyIs
<1> DEFINE i == Share(n - q.body, Len(<<>>))
<1>3. i = 0 \/ i = n - q.body
  BY <1>1 DEF Share
<1>4. i + 1 \in Int
  BY <1>3
<1> HIDE DEF i
<1>5. From(<<>>, i + 1) = <<>>
  BY <1>1, <1>4, SubSeqEmpty DEF From
<1> QED BY <1>2, <1>5 DEF i

(* The body may be divided anywhere.                                      *)
LEMMA TakeBodySplits ==
  ASSUME NEW kind, NEW q \in Receivers(kind), NEW n \in Nat, q.body <= n,
         NEW s \in Seq(Tokens), NEW b \in Seq(Tokens)
  PROVE  TakePart(q, s, b, n)
<1> DEFINE d == n - q.body
           t == TakeBody(q, s, n)
           w == TakeBody(q, s \o b, n)
           i == Len(s)
           j == Len(b)
           m == q.body
<1>1. /\ m \in Nat /\ i \in Nat /\ j \in Nat /\ Len(s \o b) = i + j /\ s \o b \in Seq(Tokens)
      /\ d \in Nat /\ m + d = n
  BY JoinedHas, LenProperties DEF Receivers
<1>2. /\ t.to = WithBody(q, m + Share(d, i)) /\ t.rest = From(s, Share(d, i) + 1)
      /\ w = [to |-> WithBody(q, m + Share(d, i + j)), rest |-> From(s \o b, Share(d, i + j) + 1)]
  BY <1>1, TakeBodyIs
<1>3. w.to = WithBody(q, m + Share(d, i + j)) /\ w.rest = From(s \o b, Share(d, i + j) + 1)
  BY <1>2
<1> HIDE DEF t, w, i, j, m, d
<1>4. CASE d <= i
  <2>1. Share(d, i) = d /\ Share(d, i + j) = d
    BY <1>1, <1>4 DEF Share
  <2>2. From(s \o b, d + 1) = From(s, d + 1) \o b
    BY <1>1, <1>4, FromFirst DEF i
  <2>3. WithBody(q, n).body = n
    BY BodyReplaced DEF WithBodyIs
  <2>4. t.to = WithBody(q, n) /\ w.to = t.to /\ w.rest = t.rest \o b
    BY <1>1, <1>2, <1>3, <2>1, <2>2
  <2> QED BY <2>3, <2>4 DEF TakePart, t, w
<1>5. CASE ~(d <= i)
  <2> DEFINE x == WithBody(q, m + i)
  <2>1. i < d /\ Share(d, i) = i /\ m + i \in Nat /\ m + i < n
    BY <1>1, <1>5 DEF Share
  <2>2. x \in Receivers(kind) /\ x.body = m + i
    BY <2>1, BodyReplaced DEF WithBodyIs
  <2>3. t.to = x /\ t.rest = From(s, i + 1)
    BY <1>2, <2>1
  <2>4. t.rest = <<>>
    <3>1. /\ From(s, i + 1) \in Seq(Tokens) /\ Len(From(s, i + 1)) = i - i
      BY <1>1, FromHas DEF i
    <3> QED BY <1>1, <2>3, <3>1, EmptySeq
  <2>5. TakeBody(x, b, n) = [to   |-> WithBody(x, x.body + Share(n - x.body, j)),
                             rest |-> From(b, Share(n - x.body, j) + 1)]
    BY TakeBodyIs DEF j
  <2> DEFINE e == Share(n - (m + i), j)
  <2>6. e \in Nat /\ e <= j /\ Share(d, i + j) = i + e /\ m + (i + e) = (m + i) + e
    <3>1. n - (m + i) \in Nat /\ n - (m + i) = d - i
      BY <1>1, <2>1
    <3> QED BY <1>1, <2>1, <3>1 DEF Share
  <2> HIDE DEF e
  <2>7. WithBody(x, (m + i) + e) = WithBody(q, (m + i) + e)
    BY <1>1, <2>1, <2>6, BodyReplacedAgain
  <2>8. From(s \o b, (i + e) + 1) = From(b, e + 1)
    BY <2>6, FromSecond DEF i, j
  <2> HIDE DEF x
  <2>9. w = TakeBody(x, b, n)
    <3>1. w = [to |-> WithBody(q, (m + i) + e), rest |-> From(b, e + 1)]
      BY <1>2, <2>6, <2>8
    <3>2. TakeBody(x, b, n) = [to |-> WithBody(x, (m + i) + e), rest |-> From(b, e + 1)]
      BY <2>2, <2>5 DEF e
    <3> QED BY <2>7, <3>1, <3>2 DEF x
  <2>10. m + i # n
    BY <1>1, <2>1
  <2>11. t.to.body < n /\ t.to.body # n
    BY <2>1, <2>2, <2>3, <2>10
  <2>12. t.to = WithBody(q, q.body + Len(s))
    BY <2>3 DEF x, m, i
  <2> QED BY <2>3, <2>4, <2>9, <2>11, <2>12 DEF TakePart, t, w
<1> QED BY <1>4, <1>5

(* receive goes on with the body when it has the headers.                   *)
LEMMA RequestGoesOn ==
  ASSUME conf.kind = "request", NEW r, r.valid = TRUE, ~MissingHost(r), NEW b
  PROVE  Receive(r, b) = IF ~IsChunked(r.headers) THEN RequestBody(r, b)
                                                  ELSE RequestChunk(r, b, FALSE)
<1> DEFINE p == Parsed(r, b, TRUE, FALSE)
<1>1. Receive(r, b) = RequestStarted(p, r)
  BY DEF Receive, RequestReceive, Start
<1>2. p.to = r /\ p.rest = b /\ p.ok = TRUE
  BY DEF Parsed
<1> HIDE DEF p
<1>3. CASE IsChunked(r.headers)
  <2>1. RequestStarted(p, r) = RequestChunk(r, b, FALSE)
    BY <1>2, <1>3 DEF RequestStarted
  <2> QED BY <1>1, <1>3, <2>1
<1>4. CASE ~IsChunked(r.headers)
  <2>1. RequestStarted(p, r) = RequestBody(r, b)
    BY <1>2, <1>4 DEF RequestStarted
  <2> QED BY <1>1, <1>4, <2>1
<1> QED BY <1>3, <1>4

(* So does a response.                                                    *)
LEMMA ResponseGoesOn ==
  ASSUME conf.kind # "request", NEW r, r.valid = TRUE, NEW b
  PROVE  Receive(r, b) = IF ~IsChunked(r.headers) THEN ResponseBody(r, b)
                                                  ELSE ResponseChunk(r, b, FALSE)
<1> DEFINE p == Parsed(r, b, TRUE, FALSE)
<1>1. Receive(r, b) = ResponseStarted(p, r)
  BY DEF Receive, ResponseReceive, Start
<1>2. p.to = r /\ p.rest = b /\ p.ok = TRUE
  BY DEF Parsed
<1> HIDE DEF p
<1>3. CASE IsChunked(r.headers)
  <2>1. ResponseStarted(p, r) = ResponseChunk(r, b, FALSE)
    BY <1>2, <1>3 DEF ResponseStarted
  <2> QED BY <1>1, <1>3, <2>1
<1>4. CASE ~IsChunked(r.headers)
  <2>1. ResponseStarted(p, r) = ResponseBody(r, b)
    BY <1>2, <1>4 DEF ResponseStarted
  <2> QED BY <1>1, <1>4, <2>1
<1> QED BY <1>3, <1>4

(* The cases of the body of a request.                                     *)
Wrong(q)   == ContentLength(q.headers) < 0 \/ (IsMethod(q, "TRACE") /\ ContentLength(q.headers) # 0)
Large(q)   == ContentLength(q.headers) > MaxContent /\ ~IsMethod(q, "TRACE")

(* No length is given; what a TRACE does to the response code; what is
   done with a request whose body is complete. *)
Unsized(q) == ContentLength(q.headers) = 0 /\ FieldValue(q.headers, "content-length") = <<>>
Traced(q, x) == IF IsMethod(q, "TRACE") THEN [x EXCEPT !.code = "METHOD_NOT_ALLOWED"] ELSE x
DoneBy(q, x) ==
  [x EXCEPT !.head = IsMethod(q, "HEAD"),
            !.line.method = IF IsMethod(q, "HEAD") /\ conf.translate THEN <<"GET">> ELSE @]

(* What becomes of the body of a request, case by case.                   *)
LEMMA RequestBodyIs ==
  ASSUME NEW q \in Receivers(conf.kind), NEW s
  PROVE  LET v == RequestBody(q, s)
             n == ContentLength(q.headers)
             t == TakeBody(q, s, n)
             x == Traced(q, t.to)
         IN  /\ Wrong(q) => v = Refuse(q, s, "BAD_REQUEST")
             /\ ~Wrong(q) /\ Large(q) => v = Refuse(q, s, "PAYLOAD_TOO_LARGE")
             /\ ~Wrong(q) /\ ~Large(q) /\ Unsized(q) /\ s # <<>> => v = Refuse(q, s, "LENGTH_REQUIRED")
             /\ ~Wrong(q) /\ ~Large(q) /\ ~(Unsized(q) /\ s # <<>>) =>
                  v = IF x.body = n THEN Verdict(DoneBy(q, x), t.rest, "VALID", FALSE)
                                    ELSE Verdict(x, t.rest, "INCOMPLETE", FALSE)
<1> DEFINE n == ContentLength(q.headers)
           t == TakeBody(q, s, n)
           x == IF IsMethod(q, "TRACE") THEN [t.to EXCEPT !.code = "METHOD_NOT_ALLOWED"] ELSE t.to
           v == RequestBody(q, s)
           done == [x EXCEPT !.head = IsMethod(q, "HEAD"),
                             !.line.method = IF IsMethod(q, "HEAD") /\ conf.translate THEN <<"GET">> ELSE @]
           missing == n = 0 /\ s # <<>> /\ FieldValue(q.headers, "content-length") = <<>>
<1>1. v = CASE Wrong(q) -> Refuse(q, s, "BAD_REQUEST")
            [] Large(q) -> Refuse(q, s, "PAYLOAD_TOO_LARGE")
            [] missing -> Refuse(q, s, "LENGTH_REQUIRED")
            [] OTHER -> IF x.body = n THEN Verdict(done, t.rest, "VALID", FALSE)
                                      ELSE Verdict(x, t.rest, "INCOMPLETE", FALSE)
  BY DEF RequestBody, Wrong, Large
<1>2. done = DoneBy(q, x)
  BY DEF DoneBy
<1>3. x = Traced(q, t.to)
  BY DEF Traced
<1>4. missing <=> Unsized(q) /\ s # <<>>
  BY DEF Unsized
<1>5. ~(Wrong(q) /\ Large(q)) /\ ~(Wrong(q) /\ Unsized(q)) /\ ~(Large(q) /\ Unsized(q))
  <2>1. n \in Int
    BY ContentLengthIsInt DEF Receivers
  <2>2. \A i \in Int : ~(i < 0 /\ i > MaxContent) /\ ~(i = 0 /\ i > MaxContent) /\ ~(i = 0 /\ i < 0)
    BY BodyLimits
  <2> QED BY <2>1, <2>2 DEF Wrong, Large, Unsized
<1> HIDE DEF v, x, t, done, missing, n
<1>6. /\ Wrong(q) => v = Refuse(q, s, "BAD_REQUEST")
      /\ ~Wrong(q) /\ Large(q) => v = Refuse(q, s, "PAYLOAD_TOO_LARGE")
      /\ ~Wrong(q) /\ ~Large(q) /\ missing => v = Refuse(q, s, "LENGTH_REQUIRED")
      /\ ~Wrong(q) /\ ~Large(q) /\ ~missing =>
             v = IF x.body = n THEN Verdict(done, t.rest, "VALID", FALSE)
                               ELSE Verdict(x, t.rest, "INCOMPLETE", FALSE)
  BY <1>1, <1>4, <1>5
<1> QED BY <1>2, <1>3, <1>4, <1>6 DEF v, t, n

(* The body of a request may be divided anywhere.                         *)
LEMMA RequestBodySplits ==
  ASSUME conf.kind = "request", NEW q \in Receivers(conf.kind), q.valid = TRUE, ~MissingHost(q),
         ~IsChunked(q.headers), q.body = 0 \/ q.body <= ContentLength(q.headers),
         NEW s \in Seq(Tokens), NEW b \in Seq(Tokens), b # <<>>, NEW t
  PROVE  Parted(RequestBody(q, s), RequestBody(q, s \o b), t, b)
<1> DEFINE n == ContentLength(q.headers)
           v == RequestBody(q, s)
           w == RequestBody(q, s \o b)
           g == TakeBody(q, s, n)
           h == TakeBody(q, s \o b, n)
<1>1. s \o b # <<>> /\ s \o b \in Seq(Tokens)
  BY JoinedHead
<1>2. q.headers \in Headers /\ n \in Int /\ q.body \in Nat /\ q.line = q.line
  BY ContentLengthIsInt DEF Receivers
<1>3. CASE Wrong(q)
  BY <1>3, RequestBodyIs, RefusePart
<1>4. CASE ~Wrong(q) /\ Large(q)
  BY <1>4, RequestBodyIs, RefusePart
<1>5. CASE ~Wrong(q) /\ ~Large(q) /\ Unsized(q) /\ s # <<>>
  BY <1>1, <1>5, RequestBodyIs, RefusePart
<1>6. ASSUME ~Wrong(q), ~Large(q)
      PROVE  n \in Nat /\ q.body <= n
  <2>1. n \in Nat
    BY <1>2, <1>6 DEF Wrong
  <2> QED BY <1>2, <2>1
<1>7. ASSUME ~Wrong(q), ~Large(q), ~(Unsized(q) /\ s # <<>>)
      PROVE  v = IF Traced(q, g.to).body = n
                   THEN Verdict(DoneBy(q, Traced(q, g.to)), g.rest, "VALID", FALSE)
                   ELSE Verdict(Traced(q, g.to), g.rest, "INCOMPLETE", FALSE)
  BY <1>7, RequestBodyIs
<1>8. ASSUME ~Wrong(q), ~Large(q), ~Unsized(q)
      PROVE  w = IF Traced(q, h.to).body = n
                   THEN Verdict(DoneBy(q, Traced(q, h.to)), h.rest, "VALID", FALSE)
                   ELSE Verdict(Traced(q, h.to), h.rest, "INCOMPLETE", FALSE)
  BY <1>8, RequestBodyIs
<1>9. ASSUME ~Wrong(q), ~Large(q)
      PROVE  TakePart(q, s, b, n)
  BY <1>6, <1>9, TakeBodySplits
<1>10. ASSUME ~Wrong(q), ~Large(q)
       PROVE  /\ g.to \in Receivers(conf.kind) /\ g.to.headers = q.headers /\ g.to.line = q.line
              /\ g.to.valid = TRUE /\ Traced(q, g.to).body = g.to.body
              /\ Traced(q, g.to).headers = q.headers
  <2> DEFINE m == q.body + Share(n - q.body, Len(s))
  <2>1. m \in Nat /\ g.to = WithBody(q, m)
    BY <1>2, <1>6, <1>10, TakeBodyIs, LenProperties DEF Share
  <2> HIDE DEF m
  <2>2. /\ g.to \in Receivers(conf.kind) /\ g.to.headers = q.headers /\ g.to.line = q.line
        /\ g.to.valid = TRUE
    <3> HIDE DEF g
    <3>1. WithBody(q, m) \in Receivers(conf.kind) /\ WithBodyIs(WithBody(q, m), q, m)
      BY <2>1, BodyReplaced
    <3> QED BY <2>1, <3>1 DEF WithBodyIs
  <2> HIDE DEF g
  <2>3. Traced(q, g.to).body = g.to.body /\ Traced(q, g.to).headers = q.headers
    BY <2>2 DEF Traced, Receivers
  <2> QED BY <2>2, <2>3
<1> HIDE DEF g, h, v, w
<1>11. CASE ~Wrong(q) /\ ~Large(q) /\ Unsized(q) /\ s = <<>>
  <2> DEFINE x == Traced(q, g.to)
  <2>1. n = 0 /\ g.to.body = n
    <3>1. n = 0
      BY <1>11 DEF Unsized, n
    <3>2. TakePart(q, s, b, n) /\ g.to.body \in Nat
      BY <1>9, <1>10, <1>11 DEF Receivers
    <3>3. g.to.body = n \/ g.to.body < n
      BY <3>2 DEF TakePart, g
    <3> QED BY <3>1, <3>2, <3>3
  <2>2. x.body = n /\ x.headers = q.headers /\ x \in Receivers(conf.kind)
    <3>1. "METHOD_NOT_ALLOWED" \in Codes
      BY DEF Codes
    <3> QED BY <1>10, <1>11, <2>1, <3>1 DEF Traced, Receivers
  <2>3. v = Verdict(DoneBy(q, x), g.rest, "VALID", FALSE)
    BY <1>7, <1>11, <2>2
  <2> HIDE DEF x
  <2>4. DoneBy(q, x).headers = q.headers
    BY <2>2 DEF DoneBy, Receivers
  <2>5. v.verdict = "VALID" /\ v.to.headers = q.headers
    BY <2>3, <2>4 DEF Verdict
  <2>6. Odd(v)
    BY <1>11, <2>5 DEF Odd, Bare, Unsized
  <2>7. v.rest = <<>>
    BY <1>2, <1>11, <2>1, <2>3, NothingTaken DEF Verdict, g
  <2> QED BY <2>6, <2>7 DEF Parted, v
<1>12. CASE ~Wrong(q) /\ ~Large(q) /\ ~Unsized(q)
  <2>1. CASE g.to.body = n /\ h.to = g.to /\ h.rest = g.rest \o b
    <3>1. /\ v = Verdict(DoneBy(q, Traced(q, g.to)), g.rest, "VALID", FALSE)
          /\ w = Verdict(DoneBy(q, Traced(q, g.to)), g.rest \o b, "VALID", FALSE)
      BY <1>7, <1>8, <1>10, <1>12, <2>1
    <3> QED BY <3>1, VerdictPart DEF v, w
  <2>2. CASE g.to.body # n /\ g.to.body < n /\ g.rest = <<>> /\ h = TakeBody(g.to, b, n)
    <3> DEFINE x == g.to
    <3>1. ~IsMethod(q, "TRACE")
      <4>1. IsMethod(q, "TRACE") => n = 0
        BY <1>12 DEF Wrong
      <4>2. g.to.body \in Nat
        BY <1>10, <1>12 DEF Receivers
      <4> QED BY <2>2, <4>1, <4>2
    <3>2. /\ v = Verdict(x, <<>>, "INCOMPLETE", FALSE)
          /\ w = IF h.to.body = n THEN Verdict(DoneBy(q, h.to), h.rest, "VALID", FALSE)
                                 ELSE Verdict(h.to, h.rest, "INCOMPLETE", FALSE)
      BY <1>7, <1>8, <1>12, <2>2, <3>1 DEF Traced
    <3>3. /\ x \in Receivers(conf.kind) /\ x.headers = q.headers /\ x.line = q.line
          /\ x.valid = TRUE
      BY <1>10, <1>12
    <3> HIDE DEF x
    <3>4. /\ ~Wrong(x) /\ ~Large(x) /\ ~Unsized(x) /\ ~IsMethod(x, "TRACE")
          /\ ContentLength(x.headers) = n /\ \A y : DoneBy(x, y) = DoneBy(q, y)
      BY <1>12, <3>1, <3>3 DEF Wrong, Large, Unsized, IsMethod, DoneBy
    <3>5. ~MissingHost(x) /\ ~IsChunked(x.headers)
      BY <3>3 DEF MissingHost
    <3>6. RequestBody(x, b) = IF h.to.body = n THEN Verdict(DoneBy(q, h.to), h.rest, "VALID", FALSE)
                                               ELSE Verdict(h.to, h.rest, "INCOMPLETE", FALSE)
      <4>1. TakeBody(x, b, ContentLength(x.headers)) = h
        BY <2>2, <3>4 DEF x
      <4>2. Traced(x, h.to) = h.to
        BY <3>4 DEF Traced
      <4> QED BY <3>3, <3>4, <4>1, <4>2, RequestBodyIs
    <3>7. w = Receive(x, b)
      BY <3>2, <3>3, <3>5, <3>6, RequestGoesOn
    <3>8. v.verdict = "INCOMPLETE" /\ v.rest = <<>> /\ v.to = x
      BY <3>2 DEF Verdict
    <3> QED BY <3>7, <3>8 DEF Parted, v, w
  <2> QED BY <1>9, <1>12, <2>1, <2>2 DEF TakePart, g, h
<1> QED BY <1>3, <1>4, <1>5, <1>11, <1>12

(* What becomes of the body of a response, case by case.                  *)
LEMMA ResponseBodyIs ==
  ASSUME NEW q, NEW s
  PROVE  LET v == ResponseBody(q, s)
             n == ContentLength(q.headers)
             t == TakeBody(q, s, IF s # <<>> /\ Unsized(q) THEN MaxBody ELSE n)
         IN  v = IF n < 0 THEN Refuse(q, s, q.code)
                 ELSE Verdict(t.to, t.rest, IF t.to.body = n THEN "VALID" ELSE "INCOMPLETE", FALSE)
BY DEF ResponseBody, Unsized

(* A body of the length m that is not complete, when it is complete at n.   *)
LEMMA TakenIs ==
  ASSUME NEW q \in Receivers(conf.kind), NEW s \in Seq(Tokens), NEW m \in Nat, q.body <= m
  PROVE  LET g == TakeBody(q, s, m)
         IN  /\ g.to \in Receivers(conf.kind) /\ g.to.headers = q.headers /\ g.to.line = q.line
             /\ g.to.valid = q.valid /\ g.to.body = q.body + Share(m - q.body, Len(s))
<1> DEFINE i == q.body + Share(m - q.body, Len(s))
           g == TakeBody(q, s, m)
<1>1. g.to = WithBody(q, i)
  BY TakeBodyIs
<1>2. i \in Nat
  BY LenProperties DEF Share, Receivers
<1> HIDE DEF i, g
<1>3. WithBody(q, i) \in Receivers(conf.kind) /\ WithBodyIs(WithBody(q, i), q, i)
  BY <1>2, BodyReplaced
<1>4. /\ g.to \in Receivers(conf.kind) /\ g.to.headers = q.headers /\ g.to.line = q.line
      /\ g.to.valid = q.valid /\ g.to.body = i
  BY <1>1, <1>3 DEF WithBodyIs
<1> QED BY <1>4 DEF g, i

(* The body of a response may be divided anywhere: where no length is
   given the response ends with the first buffer, which the model calls
   odd. *)
LEMMA ResponseBodySplits ==
  ASSUME conf.kind # "request", NEW q \in Receivers(conf.kind), q.valid = TRUE,
         ~IsChunked(q.headers), NEW s \in Seq(Tokens), NEW b \in Seq(Tokens), b # <<>>, NEW t,
         \/ q.body = 0
         \/ s # <<>> /\ Unsized(q) /\ q.body <= MaxBody
         \/ ~Unsized(q) /\ q.body <= ContentLength(q.headers)
  PROVE  Parted(ResponseBody(q, s), ResponseBody(q, s \o b), t, b)
<1> DEFINE n == ContentLength(q.headers)
           N == IF Unsized(q) THEN MaxBody ELSE n
           v == ResponseBody(q, s)
           w == ResponseBody(q, s \o b)
           g == TakeBody(q, s, N)
           h == TakeBody(q, s \o b, N)
           Says(x) == Verdict(x.to, x.rest, IF x.to.body = n THEN "VALID" ELSE "INCOMPLETE", FALSE)
<1>1. s \o b # <<>> /\ s \o b \in Seq(Tokens)
  BY JoinedHead
<1>2. q.headers \in Headers /\ n \in Int /\ q.body \in Nat /\ MaxBody \in Nat \ {0}
  BY ContentLengthIsInt, LimitAssumption DEF Receivers
<1>3. CASE n < 0
  BY <1>3, ResponseBodyIs, RefusePart
<1>4. CASE ~(n < 0) /\ Unsized(q) /\ s = <<>>
  <2> DEFINE y == TakeBody(q, s, n)
  <2>1. v = Says(y)
    BY <1>4, ResponseBodyIs
  <2>2. n = 0 /\ q.body = 0
    BY <1>4 DEF Unsized
  <2>3. /\ y.to.headers = q.headers /\ y.to.body = q.body + Share(n - q.body, Len(s))
    BY <1>2, <2>2, TakenIs
  <2>4. Len(s) = 0
    BY <1>4, EmptySeq
  <2> HIDE DEF y, n
  <2>5. y.to.body = n
    BY <2>2, <2>3, <2>4 DEF Share
  <2>6. v.verdict = "VALID" /\ v.to.headers = q.headers
    BY <2>1, <2>3, <2>5 DEF Verdict
  <2>7. Odd(v)
    BY <1>4, <2>6 DEF Odd, Bare, Unsized
  <2>8. v.rest = <<>>
    <3>1. TakeBody(q, <<>>, n).rest = <<>>
      <4>1. \A m \in Nat : TakeBody(q, <<>>, m).rest = <<>>
        BY <1>2, NothingTaken
      <4> QED BY <2>2, <4>1
    <3> QED BY <1>4, <2>1, <3>1 DEF Verdict, y
  <2> QED BY <2>7, <2>8 DEF Parted
<1>5. CASE ~(n < 0) /\ (Unsized(q) => s # <<>>)
  <2>1. v = Says(g) /\ w = Says(h)
    BY <1>1, <1>5, ResponseBodyIs
  <2>2. N \in Nat /\ q.body <= N /\ (Unsized(q) => n = 0 /\ N # 0)
    BY <1>2, <1>5 DEF Unsized
  <2>3. TakePart(q, s, b, N)
    BY <2>2, TakeBodySplits
  <2>4. /\ g.to \in Receivers(conf.kind) /\ g.to.headers = q.headers /\ g.to.line = q.line
        /\ g.to.valid = TRUE /\ g.to.body = q.body + Share(N - q.body, Len(s))
    BY <2>2, TakenIs
  <2>5. \A x : ResponseBody(x, b) =
           IF ContentLength(x.headers) < 0 THEN Refuse(x, b, x.code)
           ELSE LET y == TakeBody(x, b, IF Unsized(x) THEN MaxBody ELSE ContentLength(x.headers))
                IN  Verdict(y.to, y.rest,
                       IF y.to.body = ContentLength(x.headers) THEN "VALID" ELSE "INCOMPLETE", FALSE)
    BY ResponseBodyIs
  <2> HIDE DEF g, h, v, w, N
  <2>6. CASE g.to.body = N /\ h.to = g.to /\ h.rest = g.rest \o b
    <3> DEFINE what == IF g.to.body = n THEN "VALID" ELSE "INCOMPLETE"
    <3>1. v = Verdict(g.to, g.rest, what, FALSE) /\ w = Verdict(g.to, g.rest \o b, what, FALSE)
      BY <2>1, <2>6
    <3> HIDE DEF what
    <3> QED BY <3>1, VerdictPart DEF v, w
  <2>7. CASE /\ g.to.body # N /\ g.to.body < N /\ g.rest = <<>> /\ h = TakeBody(g.to, b, N)
             /\ g.to = WithBody(q, q.body + Len(s))
    <3> DEFINE x == g.to
    <3>1. g.to.body # n
      <4>1. CASE ~Unsized(q)
        BY <2>7, <4>1 DEF N
      <4>2. CASE Unsized(q)
        <5>1. q.body + Len(s) \in Nat /\ q.body + Len(s) # 0
          BY <1>2, <1>5, <4>2, EmptySeq, LenProperties
        <5>2. g.to.body = q.body + Len(s)
          <6>1. WithBodyIs(WithBody(q, q.body + Len(s)), q, q.body + Len(s))
            BY <5>1, BodyReplaced
          <6> QED BY <2>7, <6>1 DEF WithBodyIs
        <5> QED BY <2>2, <4>2, <5>1, <5>2
      <4> QED BY <4>1, <4>2
    <3>2. v = Verdict(x, <<>>, "INCOMPLETE", FALSE)
      BY <2>1, <2>7, <3>1
    <3>3. /\ x \in Receivers(conf.kind) /\ x.headers = q.headers /\ x.valid = TRUE
      BY <2>4
    <3> HIDE DEF x
    <3>4. Unsized(x) = Unsized(q) /\ ContentLength(x.headers) = n /\ ~IsChunked(x.headers)
      BY <3>3 DEF Unsized
    <3>5. ResponseBody(x, b) = Says(h)
      <4>1. TakeBody(x, b, IF Unsized(x) THEN MaxBody ELSE ContentLength(x.headers)) = h
        BY <2>7, <3>4 DEF x, N
      <4> QED BY <1>5, <2>5, <3>4, <4>1
    <3>6. w = Receive(x, b)
      BY <2>1, <3>3, <3>4, <3>5, ResponseGoesOn
    <3>7. v.verdict = "INCOMPLETE" /\ v.rest = <<>> /\ v.to = x
      BY <3>2 DEF Verdict
    <3> QED BY <3>6, <3>7 DEF Parted, v, w
  <2> QED BY <2>3, <2>6, <2>7 DEF TakePart, g, h
<1> QED BY <1>2, <1>3, <1>4, <1>5

(* A chunk is valid only when it has been parsed to its end.                *)
LEMMA ChunkNotYet ==
  ASSUME NEW k \in ChunksFit(TRUE), k.valid = FALSE, NEW a \in Seq(Tokens), ~ChunkParse(k, a).ok
  PROVE  ChunkParse(k, a).to.valid = FALSE
<1>1. ASSUME NEW c \in ChunksFit(TRUE), c.st = "VALID", c.valid = FALSE, NEW d \in Seq(Tokens),
             ~ChunkParse(c, d).ok
      PROVE  ChunkParse(c, d).to.valid = FALSE
  <2>1. c \in Chunks /\ c.trailers \in HeadersFit(TRUE)
    BY <1>1 DEF ChunksFit, Chunks, HeadersFit
  <2>2. CASE c.size = 0
    <3> DEFINE t == HeadersParse(c.trailers, d)
               p == TrailersParsed(t, c)
    <3>1. ChunkParse(c, d) = p
      BY <1>1, <2>2, ChunkParseIs
    <3>2. t \in Results(Headers, HeadersFit(TRUE), d)
      BY <1>1, <2>1, HeadersParseResults
    <3> HIDE DEF t
    <3>3. p = [t EXCEPT !.to = [c EXCEPT !.trailers = t.to, !.valid = t.ok]]
      BY DEF TrailersParsed
    <3> DEFINE x == [c EXCEPT !.trailers = t.to, !.valid = t.ok]
    <3>4. x.valid = t.ok
      BY <2>1 DEF Chunks
    <3> HIDE DEF x, p
    <3>5. p.ok = t.ok /\ p.to = x
      BY <3>2, <3>3 DEF Results, x
    <3>6. t.ok \in BOOLEAN
      BY <3>2 DEF Results
    <3> QED BY <1>1, <3>1, <3>4, <3>5, <3>6
  <2>3. CASE c.size # 0
    <3> DEFINE full == [c EXCEPT !.data = c.size]
               part == [c EXCEPT !.data = c.data + Len(d)]
               s == From(d, c.size - c.data + 1)
               u == IF Head(s) = "CR" THEN Tail(s) ELSE s
               p == ChunkData(c, d)
               gone == [full EXCEPT !.valid = TRUE]
    <3>1. ChunkParse(c, d) = p
      BY <1>1, <2>3, ChunkParseIs
    <3>2. full.valid = FALSE /\ part.valid = FALSE
      BY <1>1, <2>1 DEF Chunks
    <3>3. \/ p = Parsed(part, <<>>, FALSE, FALSE)
          \/ p = Parsed(full, s, FALSE, TRUE)
          \/ p = Parsed(full, u, FALSE, u # <<>>)
          \/ p = Parsed(gone, Tail(u), TRUE, FALSE)
      <4>1. p = CASE Len(d) <= c.size - c.data -> Parsed(part, <<>>, FALSE, FALSE)
                  [] Len(d) > c.size - c.data /\ Head(s) # "CR" /\ conf.strict ->
                       Parsed(full, s, FALSE, TRUE)
                  [] Len(d) > c.size - c.data /\ (Head(s) = "CR" \/ ~conf.strict) ->
                       IF u = <<>> \/ Head(u) # "LF" THEN Parsed(full, u, FALSE, u # <<>>)
                       ELSE Parsed(gone, Tail(u), TRUE, FALSE)
        BY DEF ChunkData
      <4>2. Len(d) <= c.size - c.data <=> ~(Len(d) > c.size - c.data)
        <5>1. Len(d) \in Nat /\ c.size - c.data \in Int
          BY <2>1, LenProperties DEF Chunks
        <5>2. \A i \in Nat, j \in Int : i <= j <=> ~(i > j)
          OBVIOUS
        <5> QED BY <5>1, <5>2
      <4> HIDE DEF p, full, part, s, u, gone
      <4> QED BY <4>1, <4>2
    <3> HIDE DEF p, full, part, s, u, gone
    <3>4. p.ok \/ p.to = full \/ p.to = part
      BY <3>3 DEF Parsed
    <3> QED BY <1>1, <3>1, <3>2, <3>4
  <2> QED BY <2>2, <2>3
<1>2. CASE k.st = "VALID"
  BY <1>1, <1>2
<1>3. CASE k.st # "VALID"
  <2> DEFINE S == ChunkLines(k.trailers)
             s == Scan("chunk", k, a)
  <2>1. k \in Chunks /\ k.trailers \in Headers /\ Fit(k.trailers)
    BY DEF ChunksFit, Chunks
  <2>2. k \in S
    BY <1>3, <2>1 DEF ChunkLines, ChunksFit
  <2>3. Reads("chunk", S, S)
    BY <2>1, ChunkLineReads
  <2>4. /\ s \in Results(S, S, a)
        /\ s.ok <=> ~s.bad /\ s.to.st = "VALID"
    BY <2>2, <2>3, ScanResults
  <2>5. ChunkParse(k, a) = ChunkHeaderParsed(s)
    BY <1>3 DEF ChunkParse
  <2> HIDE DEF s
  <2>6. s.to \in S
    BY <2>4 DEF Results
  <2>7. CASE ~s.ok
    <3>1. ChunkParse(k, a) = s
      BY <2>5, <2>7 DEF ChunkHeaderParsed
    <3> QED BY <2>6, <3>1 DEF ChunkLines
  <2>8. CASE s.ok
    <3> DEFINE c == s.to
    <3>1. c \in S /\ c.st = "VALID"
      BY <2>4, <2>6, <2>8
    <3>2. s.rest \in Seq(Tokens)
      BY <2>4 DEF Results, Left
    <3> HIDE DEF c
    <3>3. /\ c \in Chunks /\ c.data = 0 /\ c.trailers = k.trailers /\ c.size \in Nat
          /\ (c.st \in SizeKnown => c.size <= MaxChunk) /\ c.valid = FALSE
      BY <3>1 DEF ChunkLines, Chunks
    <3>4. c.data <= c.size
      BY <3>3
    <3>5. c \in ChunksFit(TRUE)
      BY <2>1, <3>3, <3>4 DEF ChunksFit
    <3>6. ChunkParse(k, a) = ChunkHeaderParsed(s) /\ ChunkParse(c, s.rest) = ChunkHeaderParsed(Parsed(c, s.rest, TRUE, FALSE))
      BY <2>5, <3>1 DEF ChunkParse
    <3>7. s = Parsed(c, s.rest, TRUE, FALSE)
      BY <2>4, <2>8 DEF Results, Parsed, c
    <3> QED BY <1>1, <3>1, <3>2, <3>3, <3>5, <3>6, <3>7
  <2> QED BY <2>7, <2>8
<1> QED BY <1>2, <1>3

(* A chunk is replaced, and nothing else.                                  *)
WithChunk(r, k) == [r EXCEPT !.chunk = k]

(* Field by field: y is r with the chunk k.                               *)
WithChunkIs(y, r, k) ==
  /\ y.line = r.line /\ y.headers = r.headers /\ y.valid = r.valid /\ y.chunk = k
  /\ y.body = r.body /\ y.code = r.code /\ y.continued = r.continued /\ y.head = r.head

(* The chunk is replaced, and nothing else.                               *)
LEMMA ChunkReplaced ==
  ASSUME NEW kind, NEW r \in Receivers(kind), NEW k \in ChunksFit(FALSE)
  PROVE  WithChunk(r, k) \in Receivers(kind) /\ WithChunkIs(WithChunk(r, k), r, k)
<1> DEFINE y == [r EXCEPT !.chunk = k]
<1>1. y \in Receivers(kind)
  BY DEF Receivers
<1>2. WithChunkIs(y, r, k)
  BY DEF Receivers, WithChunkIs
<1> QED BY <1>1, <1>2 DEF WithChunk

(* What replaces a chunk twice is the second.                             *)
LEMMA ChunkReplacedAgain ==
  ASSUME NEW kind, NEW r \in Receivers(kind), NEW k \in ChunksFit(FALSE), NEW m \in ChunksFit(FALSE)
  PROVE  WithChunk(WithChunk(r, k), m) = WithChunk(r, m)
<1> DEFINE x == WithChunk(r, k)
           y == WithChunk(x, m)
           z == WithChunk(r, m)
<1>1. x \in Receivers(kind) /\ WithChunkIs(x, r, k)
  BY ChunkReplaced
<1> HIDE DEF x
<1>2. y \in Receivers(kind) /\ WithChunkIs(y, x, m)
  BY <1>1, ChunkReplaced
<1>3. z \in Receivers(kind) /\ WithChunkIs(z, r, m)
  BY ChunkReplaced
<1> HIDE DEF y, z
<1>4. y = z
  BY <1>1, <1>2, <1>3, RxSame DEF WithChunkIs
<1> QED BY <1>4 DEF x, y, z

(* What a parsed chunk is answered with, in terms of its parts.             *)
LEMMA RequestChunkParsedIs ==
  ASSUME NEW p, NEW r
  PROVE  LET v == RequestChunkParsed(p, r)
             q == WithChunk(r, p.to)
         IN  /\ ~p.ok /\ p.rest # <<>> => v = Refuse(q, p.rest, "BAD_REQUEST")
             /\ ~p.ok /\ p.rest = <<>> => v = Verdict(q, <<>>, "INCOMPLETE", p.bad)
             /\ p.ok /\ ~conf.concat => v = Verdict(q, p.rest, "CHUNK", FALSE)
             /\ p.ok /\ conf.concat /\ p.to.size = 0 => v = Verdict(q, p.rest, "VALID", FALSE)
             /\ p.ok /\ conf.concat /\ p.to.size # 0 =>
                  v = IF r.body + p.to.data > MaxContent
                        THEN Refuse(q, p.rest, "PAYLOAD_TOO_LARGE")
                        ELSE Verdict([q EXCEPT !.body = r.body + p.to.data], p.rest, "INCOMPLETE", FALSE)
<1> DEFINE q == WithChunk(r, p.to)
           v == RequestChunkParsed(p, r)
           large == r.body + p.to.data > MaxContent
           more == [q EXCEPT !.body = @ + p.to.data]
<1>1. v = CASE ~p.ok -> IF p.rest # <<>> THEN Refuse(q, p.rest, "BAD_REQUEST")
                                       ELSE Verdict(q, <<>>, "INCOMPLETE", p.bad)
       [] p.ok /\ ~conf.concat -> Verdict(q, p.rest, "CHUNK", FALSE)
       [] p.ok /\ conf.concat /\ p.to.size = 0 -> Verdict(q, p.rest, "VALID", FALSE)
       [] OTHER -> IF large THEN Refuse(q, p.rest, "PAYLOAD_TOO_LARGE")
                            ELSE Verdict(more, p.rest, "INCOMPLETE", FALSE)
  BY DEF RequestChunkParsed, WithChunk
<1>2. more = [q EXCEPT !.body = r.body + p.to.data]
  BY DEF WithChunk
<1> HIDE DEF q, v, large, more
<1>3. /\ ~p.ok /\ p.rest # <<>> => v = Refuse(q, p.rest, "BAD_REQUEST")
      /\ ~p.ok /\ p.rest = <<>> => v = Verdict(q, <<>>, "INCOMPLETE", p.bad)
      /\ p.ok /\ ~conf.concat => v = Verdict(q, p.rest, "CHUNK", FALSE)
      /\ p.ok /\ conf.concat /\ p.to.size = 0 => v = Verdict(q, p.rest, "VALID", FALSE)
      /\ p.ok /\ conf.concat /\ p.to.size # 0 =>
             v = IF large THEN Refuse(q, p.rest, "PAYLOAD_TOO_LARGE")
                          ELSE Verdict(more, p.rest, "INCOMPLETE", FALSE)
  BY <1>1
<1> QED BY <1>2, <1>3 DEF q, v, large

(* Two receivers that differ in the chunk only are answered the same.       *)
LEMMA RequestChunkParsedSame ==
  ASSUME NEW p, NEW x, NEW y, WithChunk(x, p.to) = WithChunk(y, p.to), x.body = y.body
  PROVE  RequestChunkParsed(p, x) = RequestChunkParsed(p, y)
<1> DEFINE q == WithChunk(x, p.to)
           v == RequestChunkParsed(p, x)
           w == RequestChunkParsed(p, y)
           sum == IF x.body + p.to.data > MaxContent
                    THEN Refuse(q, p.rest, "PAYLOAD_TOO_LARGE")
                    ELSE Verdict([q EXCEPT !.body = x.body + p.to.data], p.rest, "INCOMPLETE", FALSE)
<1>1. /\ ~p.ok /\ p.rest # <<>> => v = Refuse(q, p.rest, "BAD_REQUEST")
      /\ ~p.ok /\ p.rest = <<>> => v = Verdict(q, <<>>, "INCOMPLETE", p.bad)
      /\ p.ok /\ ~conf.concat => v = Verdict(q, p.rest, "CHUNK", FALSE)
      /\ p.ok /\ conf.concat /\ p.to.size = 0 => v = Verdict(q, p.rest, "VALID", FALSE)
      /\ p.ok /\ conf.concat /\ p.to.size # 0 =>
           v = sum
  BY RequestChunkParsedIs
<1>2. /\ ~p.ok /\ p.rest # <<>> => w = Refuse(q, p.rest, "BAD_REQUEST")
      /\ ~p.ok /\ p.rest = <<>> => w = Verdict(q, <<>>, "INCOMPLETE", p.bad)
      /\ p.ok /\ ~conf.concat => w = Verdict(q, p.rest, "CHUNK", FALSE)
      /\ p.ok /\ conf.concat /\ p.to.size = 0 => w = Verdict(q, p.rest, "VALID", FALSE)
      /\ p.ok /\ conf.concat /\ p.to.size # 0 =>
           w = sum
  BY RequestChunkParsedIs
<1> HIDE DEF v, w, q, sum
<1>3. v = w
  BY <1>1, <1>2
<1> QED BY <1>3 DEF v, w

(* What becomes of a chunk of a response depends on the receiver's other
   parts only. *)
LEMMA ResponseChunkParsedSame ==
  ASSUME NEW p, NEW x, NEW y, WithChunk(x, p.to) = WithChunk(y, p.to), x.code = y.code
  PROVE  ResponseChunkParsed(p, x) = ResponseChunkParsed(p, y)
BY DEF ResponseChunkParsed, WithChunk

(* The data left by a parse that has decided are left by the longer one.    *)
LEMMA RequestChunkWidens ==
  ASSUME NEW p, NEW b, NEW r, NEW t, p.ok \in BOOLEAN, p.ok \/ p.rest # <<>>,
         p.ok \/ p.rest \o b # <<>>
  PROVE  Parted(RequestChunkParsed(p, r), RequestChunkParsed(Joined(p, b), r), t, b)
<1> DEFINE w == Joined(p, b)
<1>1. w.to = p.to /\ w.rest = p.rest \o b /\ w.ok = p.ok
  BY DEF Joined, Parsed
<1> HIDE DEF w
<1> DEFINE q == WithChunk(r, p.to)
           large == r.body + p.to.data > MaxContent
           more == [q EXCEPT !.body = r.body + p.to.data]
<1>2. /\ ~p.ok => /\ RequestChunkParsed(p, r) = Refuse(q, p.rest, "BAD_REQUEST")
                  /\ RequestChunkParsed(w, r) = Refuse(q, p.rest \o b, "BAD_REQUEST")
      /\ p.ok /\ ~conf.concat => /\ RequestChunkParsed(p, r) = Verdict(q, p.rest, "CHUNK", FALSE)
                                 /\ RequestChunkParsed(w, r) = Verdict(q, p.rest \o b, "CHUNK", FALSE)
      /\ p.ok /\ conf.concat /\ p.to.size = 0 =>
           /\ RequestChunkParsed(p, r) = Verdict(q, p.rest, "VALID", FALSE)
           /\ RequestChunkParsed(w, r) = Verdict(q, p.rest \o b, "VALID", FALSE)
  BY <1>1, RequestChunkParsedIs
<1>3. p.ok /\ conf.concat /\ p.to.size # 0 /\ large =>
        /\ RequestChunkParsed(p, r) = Refuse(q, p.rest, "PAYLOAD_TOO_LARGE")
        /\ RequestChunkParsed(w, r) = Refuse(q, p.rest \o b, "PAYLOAD_TOO_LARGE")
  BY <1>1, RequestChunkParsedIs
<1>4. p.ok /\ conf.concat /\ p.to.size # 0 /\ ~large =>
        /\ RequestChunkParsed(p, r) = Verdict(more, p.rest, "INCOMPLETE", FALSE)
        /\ RequestChunkParsed(w, r) = Verdict(more, p.rest \o b, "INCOMPLETE", FALSE)
  BY <1>1, RequestChunkParsedIs
<1> HIDE DEF q, large, more
<1>5. CASE ~p.ok
  BY <1>2, <1>5, RefusePart DEF w
<1>6. CASE p.ok /\ ~conf.concat
  BY <1>2, <1>6, VerdictPart DEF w
<1>7. CASE p.ok /\ conf.concat /\ p.to.size = 0
  BY <1>2, <1>7, VerdictPart DEF w
<1>8. CASE p.ok /\ conf.concat /\ p.to.size # 0 /\ large
  BY <1>3, <1>8, RefusePart DEF w
<1>9. CASE p.ok /\ conf.concat /\ p.to.size # 0 /\ ~large
  BY <1>4, <1>9, VerdictPart DEF w
<1> QED BY <1>5, <1>6, <1>7, <1>8, <1>9

(* A chunk of a response that is complete or wrong in the first buffer is
   so in both in one. *)
LEMMA ResponseChunkWidens ==
  ASSUME NEW p, NEW b, NEW r, NEW t, p.ok \in BOOLEAN, p.ok \/ p.rest # <<>>,
         p.ok \/ p.rest \o b # <<>>
  PROVE  Parted(ResponseChunkParsed(p, r), ResponseChunkParsed(Joined(p, b), r), t, b)
<1> DEFINE w == Joined(p, b)
<1>1. w.to = p.to /\ w.rest = p.rest \o b /\ w.ok = p.ok
  BY DEF Joined, Parsed
<1> HIDE DEF w
<1> DEFINE q == WithChunk(r, p.to)
<1>2. \A x : LET y == WithChunk(r, x.to)
             IN  /\ x.ok => ResponseChunkParsed(x, r) = Verdict(y, x.rest, "CHUNK", FALSE)
                 /\ ~x.ok /\ x.rest # <<>> => ResponseChunkParsed(x, r) = Refuse(y, x.rest, r.code)
  BY DEF ResponseChunkParsed, WithChunk
<1>3. /\ ~p.ok => /\ ResponseChunkParsed(p, r) = Refuse(q, p.rest, r.code)
                  /\ ResponseChunkParsed(w, r) = Refuse(q, p.rest \o b, r.code)
      /\ p.ok => /\ ResponseChunkParsed(p, r) = Verdict(q, p.rest, "CHUNK", FALSE)
                 /\ ResponseChunkParsed(w, r) = Verdict(q, p.rest \o b, "CHUNK", FALSE)
  BY <1>1, <1>2
<1> HIDE DEF q
<1>4. CASE ~p.ok
  BY <1>3, <1>4, RefusePart DEF w
<1>5. CASE p.ok
  BY <1>3, <1>5, VerdictPart DEF w
<1> QED BY <1>4, <1>5

(* The chunk of a receiver that has read part of it, from two buffers and    *)
(* from the two in one: what the parse of the chunk makes of them.          *)
ChunkPart(q, s, b, t) ==
  LET p == ChunkParse(Chunk(q), s)
      w == ChunkParse(Chunk(q), s \o b)
      x == WithChunk(q, p.to)
  IN  \/ (p.ok \/ (~p.ok /\ p.rest # <<>> /\ p.rest \o b # <<>>)) /\ p.ok \in BOOLEAN /\ w = Joined(p, b)
      \/ ~p.ok /\ p.rest = <<>> /\ p.bad
      \/ /\ ~p.ok /\ p.rest = <<>> /\ ~p.bad
         /\ x.valid = q.valid /\ x.headers = q.headers /\ x.line = q.line
         /\ x.body = q.body /\ x.code = q.code
         /\ Chunk(x) = p.to /\ x.chunk = p.to
         /\ FineChunkCut(p.to, t, Head(b)) =>
              w = ChunkParse(p.to, b) /\ WithChunk(x, w.to) = WithChunk(q, w.to)

(* Any receiver that has read part of a chunk parses on as ChunkPart
   says. *)
LEMMA ChunkParts ==
  ASSUME conf \in Configs, NEW q \in ReceiversFit(conf.kind, TRUE), NEW s \in Seq(Tokens),
         NEW b \in Seq(Tokens), b # <<>>, NEW t, s = <<>> \/ Last(s) = t
  PROVE  ChunkPart(q, s, b, t)
<1> DEFINE k == Chunk(q)
           p == ChunkParse(k, s)
           w == ChunkParse(k, s \o b)
           x == WithChunk(q, p.to)
<1>1. k \in ChunksFit(TRUE) /\ k.valid = FALSE /\ q \in Receivers(conf.kind)
  <2>1. TRUE \in BOOLEAN
    OBVIOUS
  <2>2. \A fit \in BOOLEAN : q \in ReceiversFit(conf.kind, fit) => k \in ChunksFit(fit) /\ k.valid = FALSE
    BY ChunkFits
  <2> QED BY <2>1, <2>2 DEF ReceiversFit
<1>2. s \o b \in Seq(Tokens)
  BY JoinedHead
<1>3. ChunkSplit(k, s, b)
  BY <1>1, ChunkSplits
<1>4. \A f \in BOOLEAN, d \in Seq(Tokens) :
        k \in ChunksFit(f) => ChunkParse(k, d) \in Results(ChunksFit(FALSE), ChunksFit(f), d)
  BY <1>1, ChunkParseResults
<1>5. /\ p \in Results(ChunksFit(FALSE), ChunksFit(TRUE), s)
      /\ w \in Results(ChunksFit(FALSE), ChunksFit(TRUE), s \o b)
  BY <1>1, <1>2, <1>4
<1>6. ~p.ok => p.to.valid = FALSE
  BY <1>1, ChunkNotYet
<1> HIDE DEF p, w, k
<1>7. /\ p.ok \/ (p.bad /\ p.rest # <<>>) => w = Joined(p, b)
      /\ ~p.ok /\ ~p.bad /\ (s = <<>> \/ FineChunkCut(p.to, Last(s), Head(b))) =>
           w = ChunkParse(p.to, b)
  BY <1>3 DEF ChunkSplit, p, w
<1>8. /\ p.to \in ChunksFit(FALSE) /\ p.rest \in Seq(Tokens) /\ p.ok \in BOOLEAN /\ p.bad \in BOOLEAN
      /\ ~p.ok /\ ~p.bad => p.rest = <<>>
      /\ w.to \in ChunksFit(FALSE)
  BY <1>5 DEF Results, Left
<1>9. WithChunkIs(x, q, p.to)
  BY <1>1, <1>8, ChunkReplaced
<1>10. WithChunk(x, w.to) = WithChunk(q, w.to)
  BY <1>1, <1>8, ChunkReplacedAgain
<1> HIDE DEF x
<1>11. CASE p.ok \/ p.rest # <<>>
  <2>1. p.rest # <<>> => p.rest \o b # <<>>
    BY <1>8, JoinedHead
  <2> QED BY <1>7, <1>8, <1>11, <2>1 DEF ChunkPart, p, w, k
<1>12. CASE ~p.ok /\ p.rest = <<>> /\ p.bad
  BY <1>12 DEF ChunkPart, p, k
<1>13. CASE ~p.ok /\ p.rest = <<>> /\ ~p.bad
  <2>1. x.chunk = p.to /\ Chunk(x) = p.to
    BY <1>6, <1>9, <1>13 DEF WithChunkIs, Chunk
  <2>2. FineChunkCut(p.to, t, Head(b)) => w = ChunkParse(p.to, b)
    BY <1>7, <1>13
  <2> QED BY <1>9, <1>10, <1>13, <2>1, <2>2 DEF ChunkPart, WithChunkIs, p, w, k, x
<1> QED BY <1>8, <1>11, <1>12, <1>13

(* What becomes of a chunked request, case by case.                       *)
LEMMA RequestChunkIs ==
  ASSUME NEW q, NEW s, NEW parsed \in BOOLEAN
  PROVE  LET v == RequestChunk(q, s, parsed)
             c == WithChunk(q, Chunk(q))
             expects == ExpectContinue(q) /\ ~q.continued
         IN  /\ parsed /\ expects => v = Verdict([c EXCEPT !.code = "CONTINUE"], s, "EXPECT_CONTINUE", FALSE)
             /\ parsed /\ ~expects /\ ~conf.concat => v = Verdict(c, s, "VALID", FALSE)
             /\ ~(parsed /\ (expects \/ ~conf.concat)) =>
                  v = RequestChunkParsed(ChunkParse(Chunk(q), s), q)
<1> DEFINE v == RequestChunk(q, s, parsed)
           c == WithChunk(q, Chunk(q))
           expects == ExpectContinue(q) /\ ~q.continued
           coded == [c EXCEPT !.code = "CONTINUE"]
<1>1. v = CASE parsed /\ expects -> Verdict(coded, s, "EXPECT_CONTINUE", FALSE)
            [] parsed /\ ~expects /\ ~conf.concat -> Verdict(c, s, "VALID", FALSE)
            [] OTHER -> RequestChunkParsed(ChunkParse(Chunk(q), s), q)
  BY DEF RequestChunk, WithChunk
<1> HIDE DEF v, c, expects, coded
<1>2. /\ parsed /\ expects => v = Verdict(coded, s, "EXPECT_CONTINUE", FALSE)
      /\ parsed /\ ~expects /\ ~conf.concat => v = Verdict(c, s, "VALID", FALSE)
      /\ ~(parsed /\ (expects \/ ~conf.concat)) => v = RequestChunkParsed(ChunkParse(Chunk(q), s), q)
  BY <1>1
<1> QED BY <1>2 DEF v, c, expects, coded

(* A chunked request may be divided at any fine cut.                      *)
LEMMA RequestChunkSplits ==
  ASSUME conf \in Configs, conf.kind = "request", NEW q \in ReceiversFit(conf.kind, TRUE),
         q.valid = TRUE, ~MissingHost(q), IsChunked(q.headers), NEW parsed \in BOOLEAN,
         NEW s \in Seq(Tokens), NEW b \in Seq(Tokens), b # <<>>, NEW t, s = <<>> \/ Last(s) = t
  PROVE  Parted(RequestChunk(q, s, parsed), RequestChunk(q, s \o b, parsed), t, b)
<1> DEFINE c == WithChunk(q, Chunk(q))
           expects == ExpectContinue(q) /\ ~q.continued
           coded == [c EXCEPT !.code = "CONTINUE"]
           v == RequestChunk(q, s, parsed)
           w == RequestChunk(q, s \o b, parsed)
<1>1. CASE parsed /\ expects
  <2>1. /\ v = Verdict(coded, s, "EXPECT_CONTINUE", FALSE)
        /\ w = Verdict(coded, s \o b, "EXPECT_CONTINUE", FALSE)
    BY <1>1, RequestChunkIs
  <2> HIDE DEF v, w, coded
  <2> QED BY <2>1, VerdictPart DEF v, w
<1>2. CASE parsed /\ ~expects /\ ~conf.concat
  <2>1. v = Verdict(c, s, "VALID", FALSE) /\ w = Verdict(c, s \o b, "VALID", FALSE)
    BY <1>2, RequestChunkIs
  <2> HIDE DEF v, w, c
  <2> QED BY <2>1, VerdictPart DEF v, w
<1>3. CASE ~(parsed /\ (expects \/ ~conf.concat))
  <2> DEFINE p == ChunkParse(Chunk(q), s)
             u == ChunkParse(Chunk(q), s \o b)
             x == WithChunk(q, p.to)
  <2>1. v = RequestChunkParsed(p, q) /\ w = RequestChunkParsed(u, q)
    BY <1>3, RequestChunkIs
  <2>2. ChunkPart(q, s, b, t)
    BY ChunkParts
  <2> HIDE DEF v, w, p, u, x
  <2>3. CASE (p.ok \/ (~p.ok /\ p.rest # <<>> /\ p.rest \o b # <<>>)) /\ p.ok \in BOOLEAN /\ u = Joined(p, b)
    BY <2>1, <2>3, RequestChunkWidens DEF v, w
  <2>4. ~p.ok /\ p.rest = <<>> => v = Verdict(x, <<>>, "INCOMPLETE", p.bad)
    BY <2>1, RequestChunkParsedIs DEF x
  <2>5. CASE ~p.ok /\ p.rest = <<>> /\ p.bad
    <3>1. v.verdict = "INCOMPLETE" /\ v.bad /\ v.rest = <<>>
      BY <2>4, <2>5 DEF Verdict
    <3> QED BY <3>1 DEF Parted, Odd, v
  <2>6. CASE /\ ~p.ok /\ p.rest = <<>> /\ ~p.bad
             /\ x.valid = q.valid /\ x.headers = q.headers /\ x.line = q.line
             /\ x.body = q.body /\ x.code = q.code
             /\ Chunk(x) = p.to /\ x.chunk = p.to
             /\ FineChunkCut(p.to, t, Head(b)) =>
                  u = ChunkParse(p.to, b) /\ WithChunk(x, u.to) = WithChunk(q, u.to)
    <3>1. v.verdict = "INCOMPLETE" /\ v.rest = <<>> /\ v.to = x
      BY <2>4, <2>6 DEF Verdict
    <3>2. x.valid = TRUE /\ ~MissingHost(x) /\ IsChunked(x.headers)
      BY <2>6 DEF MissingHost
    <3>3. ASSUME Fine(x, t, Head(b))
          PROVE  w = Receive(x, b)
      <4>1. u = ChunkParse(Chunk(x), b) /\ WithChunk(x, u.to) = WithChunk(q, u.to)
        BY <2>6, <3>2, <3>3 DEF Fine
      <4>2. Receive(x, b) = RequestChunk(x, b, FALSE)
        BY <3>2, RequestGoesOn
      <4>3. RequestChunk(x, b, FALSE) = RequestChunkParsed(u, x)
        <5>1. \A f \in BOOLEAN : ~f => RequestChunk(x, b, f) = RequestChunkParsed(ChunkParse(Chunk(x), b), x)
          BY RequestChunkIs
        <5> QED BY <4>1, <5>1
      <4>4. RequestChunkParsed(u, x) = RequestChunkParsed(u, q)
        BY <2>6, <4>1, RequestChunkParsedSame
      <4> QED BY <2>1, <4>2, <4>3, <4>4
    <3> QED BY <3>1, <3>3 DEF Parted, v, w
  <2> QED BY <2>2, <2>3, <2>5, <2>6 DEF ChunkPart, p, u, x
<1> QED BY <1>1, <1>2, <1>3

-----------------------------------------------------------------------------
(* A call of receive.                                                     *)

(* A chunk of a response that is not complete is kept.                    *)
LEMMA ResponseChunkParsedIs ==
  ASSUME NEW p, NEW r, ~p.ok, p.rest = <<>>
  PROVE  ResponseChunkParsed(p, r) = Verdict(WithChunk(r, p.to), <<>>, "INCOMPLETE", p.bad)
BY DEF ResponseChunkParsed, WithChunk

(* A chunked response may be divided at any fine cut.                     *)
LEMMA ResponseChunkSplits ==
  ASSUME conf \in Configs, conf.kind # "request", NEW q \in ReceiversFit(conf.kind, TRUE),
         q.valid = TRUE, IsChunked(q.headers), NEW parsed \in BOOLEAN,
         NEW s \in Seq(Tokens), NEW b \in Seq(Tokens), b # <<>>, NEW t, s = <<>> \/ Last(s) = t
  PROVE  Parted(ResponseChunk(q, s, parsed), ResponseChunk(q, s \o b, parsed), t, b)
<1> DEFINE c == WithChunk(q, Chunk(q))
           v == ResponseChunk(q, s, parsed)
           w == ResponseChunk(q, s \o b, parsed)
<1>1. CASE parsed
  <2>1. v = Verdict(c, s, "VALID", FALSE) /\ w = Verdict(c, s \o b, "VALID", FALSE)
    BY <1>1 DEF ResponseChunk, WithChunk
  <2> HIDE DEF v, w, c
  <2> QED BY <2>1, VerdictPart DEF v, w
<1>2. CASE ~parsed
  <2> DEFINE p == ChunkParse(Chunk(q), s)
             u == ChunkParse(Chunk(q), s \o b)
             x == WithChunk(q, p.to)
  <2>1. v = ResponseChunkParsed(p, q) /\ w = ResponseChunkParsed(u, q)
    BY <1>2 DEF ResponseChunk
  <2>2. ChunkPart(q, s, b, t)
    BY ChunkParts
  <2> HIDE DEF v, w, p, u, x
  <2>3. CASE (p.ok \/ (~p.ok /\ p.rest # <<>> /\ p.rest \o b # <<>>)) /\ p.ok \in BOOLEAN /\ u = Joined(p, b)
    BY <2>1, <2>3, ResponseChunkWidens DEF v, w
  <2>4. ~p.ok /\ p.rest = <<>> => v = Verdict(x, <<>>, "INCOMPLETE", p.bad)
    BY <2>1, ResponseChunkParsedIs DEF x
  <2>5. CASE ~p.ok /\ p.rest = <<>> /\ p.bad
    <3>1. v.verdict = "INCOMPLETE" /\ v.bad /\ v.rest = <<>>
      BY <2>4, <2>5 DEF Verdict
    <3> QED BY <3>1 DEF Parted, Odd, v
  <2>6. CASE /\ ~p.ok /\ p.rest = <<>> /\ ~p.bad
             /\ x.valid = q.valid /\ x.headers = q.headers /\ x.line = q.line
             /\ x.body = q.body /\ x.code = q.code
             /\ Chunk(x) = p.to /\ x.chunk = p.to
             /\ FineChunkCut(p.to, t, Head(b)) =>
                  u = ChunkParse(p.to, b) /\ WithChunk(x, u.to) = WithChunk(q, u.to)
    <3>1. v.verdict = "INCOMPLETE" /\ v.rest = <<>> /\ v.to = x
      BY <2>4, <2>6 DEF Verdict
    <3>2. x.valid = TRUE /\ IsChunked(x.headers)
      BY <2>6
    <3>3. ASSUME Fine(x, t, Head(b))
          PROVE  w = Receive(x, b)
      <4>1. u = ChunkParse(Chunk(x), b) /\ WithChunk(x, u.to) = WithChunk(q, u.to)
        BY <2>6, <3>2, <3>3 DEF Fine
      <4>2. Receive(x, b) = ResponseChunk(x, b, FALSE)
        BY <3>2, ResponseGoesOn
      <4>3. ResponseChunk(x, b, FALSE) = ResponseChunkParsed(u, x)
        BY <4>1 DEF ResponseChunk
      <4>4. ResponseChunkParsed(u, x) = ResponseChunkParsed(u, q)
        BY <2>6, <4>1, ResponseChunkParsedSame
      <4> QED BY <2>1, <4>2, <4>3, <4>4
    <3> QED BY <3>1, <3>3 DEF Parted, v, w
  <2> QED BY <2>2, <2>3, <2>5, <2>6 DEF ChunkPart, p, u, x
<1> QED BY <1>1, <1>2

(* receive, in terms of what Start leaves it.                               *)
Answering(p, r) == IF conf.kind = "request" THEN RequestStarted(p, r) ELSE ResponseStarted(p, r)

(* receive: the head first, if it is not complete, then what follows it.  *)
LEMMA ReceiveIs ==
  ASSUME NEW r, NEW s
  PROVE  /\ Receive(r, s) = Answering(Start(r, s), r)
         /\ r.valid = FALSE => Receive(r, s) = Answering(MessageParse(r, s), r)
         /\ r.valid = TRUE => Receive(r, s) = Answering(Parsed(r, s, TRUE, FALSE), r)
BY DEF Receive, RequestReceive, ResponseReceive, Answering, Start

(* What is left of the message, once the start line and headers are in.     *)
LEMMA AnsweringIs ==
  ASSUME NEW p, NEW r
  PROVE  LET v == Answering(p, r)
             wrong == p.rest # <<>> \/ p.to.line.fail
             code == IF conf.kind = "request" THEN SyntaxCode(p.to) ELSE r.code
         IN  /\ ~p.ok /\ wrong => v = Refuse(p.to, p.rest, code)
             /\ ~p.ok /\ ~wrong => v = Verdict(p.to, <<>>, "INCOMPLETE", p.bad)
             /\ p.ok /\ conf.kind = "request" /\ MissingHost(p.to) =>
                  v = Verdict([p.to EXCEPT !.code = "BAD_REQUEST"], p.rest, "INVALID", TRUE)
             /\ p.ok /\ conf.kind = "request" /\ ~MissingHost(p.to) /\ ~IsChunked(p.to.headers) =>
                  v = RequestBody(p.to, p.rest)
             /\ p.ok /\ conf.kind = "request" /\ ~MissingHost(p.to) /\ IsChunked(p.to.headers) =>
                  v = RequestChunk(p.to, p.rest, ~r.valid)
             /\ p.ok /\ conf.kind # "request" /\ ~IsChunked(p.to.headers) => v = ResponseBody(p.to, p.rest)
             /\ p.ok /\ conf.kind # "request" /\ IsChunked(p.to.headers) =>
                  v = ResponseChunk(p.to, p.rest, ~r.valid)
<1>1. CASE conf.kind = "request"
  <2>1. ~p.ok => Answering(p, r) = IF p.rest # <<>> \/ p.to.line.fail THEN Refuse(p.to, p.rest, SyntaxCode(p.to))
                                   ELSE Verdict(p.to, <<>>, "INCOMPLETE", p.bad)
    BY <1>1 DEF Answering, RequestStarted
  <2>2. p.ok => /\ MissingHost(p.to) =>
                     Answering(p, r) = Verdict([p.to EXCEPT !.code = "BAD_REQUEST"], p.rest, "INVALID", TRUE)
                /\ ~MissingHost(p.to) /\ ~IsChunked(p.to.headers) => Answering(p, r) = RequestBody(p.to, p.rest)
                /\ ~MissingHost(p.to) /\ IsChunked(p.to.headers) =>
                     Answering(p, r) = RequestChunk(p.to, p.rest, ~r.valid)
    BY <1>1 DEF Answering, RequestStarted
  <2> QED BY <1>1, <2>1, <2>2
<1>2. CASE conf.kind # "request"
  <2>1. ~p.ok => Answering(p, r) = IF p.rest # <<>> \/ p.to.line.fail THEN Refuse(p.to, p.rest, r.code)
                                   ELSE Verdict(p.to, <<>>, "INCOMPLETE", p.bad)
    BY <1>2 DEF Answering, ResponseStarted
  <2>2. p.ok => /\ ~IsChunked(p.to.headers) => Answering(p, r) = ResponseBody(p.to, p.rest)
                /\ IsChunked(p.to.headers) =>
                     Answering(p, r) = ResponseChunk(p.to, p.rest, ~r.valid)
    BY <1>2 DEF Answering, ResponseStarted
  <2> QED BY <1>2, <2>1, <2>2
<1> QED BY <1>1, <1>2

(* What follows the head depends on whether the head was complete before,
   and on the response code, but on nothing else of the receiver before. *)
LEMMA AnsweringSame ==
  ASSUME NEW p, NEW x, NEW y, x.valid = y.valid, x.code = y.code
  PROVE  Answering(p, x) = Answering(p, y)
BY DEF Answering, RequestStarted, ResponseStarted

(* A receiver that has the headers, and the data that follow them.          *)
Headed(q, s) == Parsed(q, s, TRUE, FALSE)

(* The data s end with the token t, and the receiver has some of its body if *)
(* it had the headers before.                                             *)
Ready(q, s, t) ==
  /\ q \in ReceiversFit(conf.kind, TRUE) /\ q.valid = TRUE
  /\ s \in Seq(Tokens) /\ (s = <<>> \/ Last(s) = t)
  /\ IsChunked(q.headers) \/ q.body = 0 \/ (s # <<>> /\ q.body <= Bound(conf.kind, q.headers))

(* What follows the head, on two buffers.                                 *)
AnsweringPart(q, s, b, t, r) ==
  Parted(Answering(Headed(q, s), r), Answering(Headed(q, s \o b), r), t, b)

(* Once the headers are in, the rest of the message.                        *)
LEMMA AnsweringSplits ==
  ASSUME conf \in Configs, NEW q, NEW s, NEW t, Ready(q, s, t),
         NEW b \in Seq(Tokens), b # <<>>, NEW r, r.valid \in BOOLEAN
  PROVE  AnsweringPart(q, s, b, t, r)
<1>0. /\ q \in ReceiversFit(conf.kind, TRUE) /\ q.valid = TRUE
      /\ s \in Seq(Tokens) /\ (s = <<>> \/ Last(s) = t)
      /\ IsChunked(q.headers) \/ q.body = 0 \/ (s # <<>> /\ q.body <= Bound(conf.kind, q.headers))
  BY DEF Ready
<1> DEFINE parsed == ~r.valid
           bad == [q EXCEPT !.code = "BAD_REQUEST"]
           A(x) == Answering(Headed(q, x), r)
<1>1. q \in Receivers(conf.kind) /\ parsed \in BOOLEAN
  BY <1>0 DEF ReceiversFit
<1>2. \A x : LET p == Headed(q, x) IN p.to = q /\ p.rest = x /\ p.ok = TRUE
  BY DEF Parsed, Headed
<1>3. \A x : /\ conf.kind = "request" /\ MissingHost(q) => A(x) = Verdict(bad, x, "INVALID", TRUE)
             /\ conf.kind = "request" /\ ~MissingHost(q) /\ ~IsChunked(q.headers) => A(x) = RequestBody(q, x)
             /\ conf.kind = "request" /\ ~MissingHost(q) /\ IsChunked(q.headers) =>
                  A(x) = RequestChunk(q, x, parsed)
             /\ conf.kind # "request" /\ ~IsChunked(q.headers) => A(x) = ResponseBody(q, x)
             /\ conf.kind # "request" /\ IsChunked(q.headers) => A(x) = ResponseChunk(q, x, parsed)
  <2> TAKE x
  <2> DEFINE p == Headed(q, x)
  <2>1. p.to = q /\ p.rest = x /\ p.ok = TRUE
    BY <1>2
  <2> HIDE DEF p
  <2> QED BY <2>1, AnsweringIs DEF p
<1>4. Bound(conf.kind, q.headers) =
        IF conf.kind = "response" /\ FieldValue(q.headers, "content-length") = <<>>
          THEN MaxBody ELSE ContentLength(q.headers)
  BY DEF Bound
<1>5. Unsized(q) <=> FieldValue(q.headers, "content-length") = <<>>
  BY DEF Unsized, ContentLength
<1>6. conf.kind # "request" => conf.kind = "response"
  BY ConfigsAssumption
<1> HIDE DEF A, bad, parsed
<1>7. CASE conf.kind = "request" /\ MissingHost(q)
  BY <1>3, <1>7, VerdictPart DEF A, AnsweringPart
<1>8. CASE conf.kind = "request" /\ ~MissingHost(q) /\ ~IsChunked(q.headers)
  <2>1. q.body = 0 \/ q.body <= ContentLength(q.headers)
    BY <1>0, <1>4, <1>8
  <2> QED BY <1>0, <1>1, <1>3, <1>8, <2>1, RequestBodySplits DEF A, AnsweringPart
<1>9. CASE conf.kind = "request" /\ ~MissingHost(q) /\ IsChunked(q.headers)
  BY <1>0, <1>1, <1>3, <1>9, RequestChunkSplits DEF A, AnsweringPart
<1>10. CASE conf.kind # "request" /\ ~IsChunked(q.headers)
  <2>1. \/ q.body = 0
        \/ s # <<>> /\ Unsized(q) /\ q.body <= MaxBody
        \/ ~Unsized(q) /\ q.body <= ContentLength(q.headers)
    BY <1>0, <1>4, <1>5, <1>6, <1>10
  <2> QED BY <1>0, <1>1, <1>3, <1>10, <2>1, ResponseBodySplits DEF A, AnsweringPart
<1>11. CASE conf.kind # "request" /\ IsChunked(q.headers)
  BY <1>0, <1>1, <1>3, <1>11, ResponseChunkSplits DEF A, AnsweringPart
<1> QED BY <1>7, <1>8, <1>9, <1>10, <1>11

(* One call of receive, on two buffers and on the two in one.               *)
LEMMA ReceiveSplits ==
  ASSUME conf \in Configs, NEW r \in ReceiversFit(conf.kind, TRUE), BodyOk(conf.kind, r),
         NEW a \in Seq(Tokens), a # <<>>, NEW b \in Seq(Tokens), b # <<>>
  PROVE  Parted(Receive(r, a), Receive(r, a \o b), Last(a), b)
<1>1. r \in Receivers(conf.kind) /\ r.valid \in BOOLEAN /\ a \o b \in Seq(Tokens) /\ r.body \in Nat
  BY JoinedHead DEF ReceiversFit, Receivers
<1> PICK t : t = Last(a)
  OBVIOUS
<1>4. ASSUME NEW q, NEW s, Ready(q, s, t)
      PROVE  Parted(Answering(Headed(q, s), r), Answering(Headed(q, s \o b), r), t, b)
  BY <1>1, <1>4, AnsweringSplits DEF AnsweringPart
<1>2. CASE r.valid = TRUE
  <2>1. IsChunked(r.headers) \/ r.body <= Bound(conf.kind, r.headers)
    BY <1>2 DEF BodyOk
  <2>2. Parted(Answering(Headed(r, a), r),
               Answering(Headed(r, a \o b), r), t, b)
    BY <1>2, <1>4, <2>1 DEF Ready
  <2>3. Receive(r, a) = Answering(Headed(r, a), r) /\ Receive(r, a \o b) = Answering(Headed(r, a \o b), r)
    BY <1>2, ReceiveIs DEF Headed
  <2> QED BY <2>2, <2>3
<1>3. CASE r.valid = FALSE
  <2> DEFINE p == MessageParse(r, a)
             u == MessageParse(r, a \o b)
             v == Receive(r, a)
             w == Receive(r, a \o b)
  <2>1. v = Answering(p, r) /\ w = Answering(u, r)
    BY <1>3, ReceiveIs
  <2>2. MessageSplit(r, a, b)
    BY <1>3, MessageSplits
  <2>3. /\ p \in Results(Receivers(conf.kind), ReceiversFit(conf.kind, TRUE), a)
        /\ MessageParsed(p, r)
    BY <1>3, MessageParseResults
  <2> HIDE DEF p, u, v, w
  <2>4. /\ p.ok \/ (p.bad /\ (p.rest # <<>> \/ p.to.line.fail)) => u = Joined(p, b)
        /\ ~p.ok /\ ~p.bad /\ FineHeadCut(p.to, Last(a), Head(b)) => u = MessageParse(p.to, b)
        /\ p.to.code = r.code
    BY <2>2 DEF MessageSplit, p, u
  <2>5. /\ p.to \in Receivers(conf.kind) /\ p.rest \in Left(a) /\ p.rest \in Seq(Tokens)
        /\ p.ok \in BOOLEAN /\ p.bad \in BOOLEAN
        /\ p.ok => ~p.bad
        /\ ~p.ok /\ ~p.bad => p.rest = <<>>
        /\ ~p.bad => p.to \in ReceiversFit(conf.kind, TRUE)
        /\ p = Parsed(p.to, p.rest, p.ok, p.bad)
        /\ p.to.valid = p.ok /\ p.to.body = 0
    BY <1>3, <2>3 DEF Results, Left, Parsed, MessageParsed, BodyOk
  <2>6. p.rest = <<>> \/ Last(p.rest) = Last(a)
    BY <2>5 DEF Left, EndsAs
  <2>7. CASE p.ok
    <3>1. p = Headed(p.to, p.rest) /\ p.to.valid = TRUE
      BY <2>5, <2>7 DEF Headed
    <3>2. u = Headed(p.to, p.rest \o b)
      <4>1. u = Parsed(p.to, p.rest \o b, p.ok, p.bad) /\ p.ok = TRUE /\ p.bad = FALSE
        BY <2>4, <2>5, <2>7 DEF Joined
      <4> QED BY <4>1 DEF Headed
    <3>3. Parted(Answering(Headed(p.to, p.rest), r),
                 Answering(Headed(p.to, p.rest \o b), r), t, b)
      BY <1>4, <2>5, <2>6, <2>7, <3>1 DEF Ready
    <3> QED BY <2>1, <3>1, <3>2, <3>3 DEF v, w
  <2>8. CASE ~p.ok /\ p.bad /\ (p.rest # <<>> \/ p.to.line.fail)
    <3> DEFINE code == IF conf.kind = "request" THEN SyntaxCode(p.to) ELSE r.code
    <3>1. v = Refuse(p.to, p.rest, code)
      BY <2>1, <2>8, AnsweringIs
    <3>2. u = Joined(p, b) /\ u.to = p.to /\ u.rest = p.rest \o b /\ ~u.ok
      BY <2>4, <2>8 DEF Joined, Parsed
    <3>3. p.rest \o b # <<>>
      BY <2>5, JoinedHead
    <3>4. w = Refuse(p.to, p.rest \o b, code)
      BY <2>1, <3>2, <3>3, AnsweringIs
    <3> HIDE DEF code
    <3> QED BY <3>1, <3>4, RefusePart DEF v, w
  <2>9. CASE ~p.ok /\ p.bad /\ ~(p.rest # <<>> \/ p.to.line.fail)
    <3>1. v = Verdict(p.to, <<>>, "INCOMPLETE", p.bad)
      BY <2>1, <2>9, AnsweringIs
    <3>2. v.verdict = "INCOMPLETE" /\ v.bad /\ v.rest = <<>>
      BY <2>9, <3>1 DEF Verdict
    <3> QED BY <3>2 DEF Parted, Odd, v
  <2>10. CASE ~p.ok /\ ~p.bad
    <3>1. p.rest = <<>> /\ p.to.valid = FALSE /\ p.to.line.fail = FALSE
      <4>1. p.to.line \in FineLinesOf(conf.kind)
        BY <2>5, <2>10 DEF ReceiversFit
      <4>2. p.to.line.fail = FALSE
        BY <4>1 DEF FineLinesOf, FineRequestLines, FineResponseLines
      <4> QED BY <2>5, <2>10, <4>2
    <3>2. v = Verdict(p.to, <<>>, "INCOMPLETE", p.bad)
      BY <2>1, <2>10, <3>1, AnsweringIs
    <3>3. v.verdict = "INCOMPLETE" /\ v.rest = <<>> /\ v.to = p.to
      BY <3>2 DEF Verdict
    <3>4. ASSUME Fine(p.to, Last(a), Head(b))
          PROVE  w = Receive(p.to, b)
      <4>1. u = MessageParse(p.to, b)
        BY <2>4, <2>10, <3>1, <3>4 DEF Fine
      <4>2. Receive(p.to, b) = Answering(u, p.to)
        BY <3>1, <4>1, ReceiveIs
      <4>3. Answering(u, p.to) = Answering(u, r)
        BY <1>3, <2>4, <3>1, AnsweringSame
      <4> QED BY <2>1, <4>2, <4>3
    <3> QED BY <3>3, <3>4 DEF Parted, v, w
  <2> QED BY <2>5, <2>7, <2>8, <2>9, <2>10
<1> QED BY <1>1, <1>2, <1>3

-----------------------------------------------------------------------------
(* The receive loop.                                                      *)

(* A receiver that the receive loop may be called with.                     *)
Able(r, buf, o) ==
  /\ r \in ReceiversFit(conf.kind, TRUE) /\ BodyOk(conf.kind, r)
  /\ buf \in Seq(Tokens) /\ buf # <<>> /\ o \in Seq(FineEvents) /\ ~Stuck(o)

(* The turns of the loop, the states it may be in, and the first turn.    *)
Running(g, r, buf, o) == LoopRun(g, r, buf, o, TRUE)
LoopState(buf, i) == LoopStates(buf, TRUE, i)
First(r, buf, o) == Received(Receive(r, buf), LoopStart(r, buf, o))

(* The loop has such turns.                                               *)
LEMMA LoopRunning ==
  ASSUME conf \in Configs, NEW r, NEW buf, NEW o, Able(r, buf, o)
  PROVE  \E g : Running(g, r, buf, o)
<1>1. /\ r \in ReceiversFit(conf.kind, TRUE) /\ BodyOk(conf.kind, r)
      /\ buf \in Seq(Tokens) /\ buf # <<>> /\ o \in Seq(FineEvents) /\ ~Stuck(o)
  BY DEF Able
<1>2. \A fit \in BOOLEAN : r \in ReceiversFit(conf.kind, fit) => \E g : LoopRun(g, r, buf, o, fit)
  BY <1>1, LoopRuns
<1>3. TRUE \in BOOLEAN
  OBVIOUS
<1> QED BY <1>1, <1>2, <1>3 DEF Running

(* A loop that is over stays as it is.                                     *)
LEMMA LoopOver ==
  ASSUME NEW n \in Nat, NEW k \in 0 .. n, NEW g, \A i \in 1 .. n : g[i] = Turn(g[i - 1]), ~g[k].on
  PROVE  g[n] = g[k]
<1> DEFINE Good == {i \in 0 .. n : k <= i => g[i] = g[k]}
<1>1. 0 \in Good
  OBVIOUS
<1>2. \A i \in 1 .. n : i - 1 \in Good => i \in Good
  <2> TAKE i \in 1 .. n
  <2> HAVE i - 1 \in Good
  <2>1. i \in 0 .. n /\ (k <= i => k = i \/ k <= i - 1)
    OBVIOUS
  <2>2. k <= i - 1 => g[i] = g[k]
    <3> HAVE k <= i - 1
    <3>1. g[i - 1] = g[k] /\ g[i] = Turn(g[i - 1])
      OBVIOUS
    <3> QED BY <3>1 DEF Turn
  <2> QED BY <2>1, <2>2
<1> HIDE DEF Good
<1>3. n \in Good
  <2>1. 0 .. n \subseteq Good
    BY <1>1, <1>2, CountUp
  <2> QED BY <2>1
<1> QED BY <1>3 DEF Good

(* A turn does not look at odd.                                            *)
LEMMA TurnSame ==
  ASSUME NEW S, NEW l \in [rx : S, rest : Seq(Tokens), out : Seq(FineEvents), odd : BOOLEAN, on : BOOLEAN],
         l.on
  PROVE  Turn(l) = Turn(LoopStart(l.rx, l.rest, l.out))
<1> DEFINE k == LoopStart(l.rx, l.rest, l.out)
           v == Receive(l.rx, l.rest)
<1>1. k.rx = l.rx /\ k.rest = l.rest /\ k.out = l.out /\ k.on = TRUE
  BY DEF LoopStart
<1>2. k \in [rx : S, rest : Seq(Tokens), out : Seq(FineEvents), odd : BOOLEAN, on : BOOLEAN]
  BY DEF LoopStart
<1> HIDE DEF k
<1>3. Turn(l) = Received(v, l) /\ Turn(k) = Received(v, k)
  BY <1>1 DEF Turn
<1> HIDE DEF v
<1>4. CASE v.verdict = "INCOMPLETE" /\ v.rest = l.rest /\ v.to = l.rx
  <2> DEFINE e == Event("STUCK", "", l.rx.body)
             o == Append(l.out, e)
  <2>1. /\ Received(v, l) = [l EXCEPT !.out = o, !.odd = FALSE, !.on = FALSE]
        /\ Received(v, k) = [k EXCEPT !.out = o, !.odd = FALSE, !.on = FALSE]
    BY <1>1, <1>2, <1>4 DEF Received
  <2> HIDE DEF o
  <2> DEFINE x == [l EXCEPT !.out = o, !.odd = FALSE, !.on = FALSE]
             y == [k EXCEPT !.out = o, !.odd = FALSE, !.on = FALSE]
             R == [rx : S, rest : Seq(Tokens), out : {o}, odd : BOOLEAN, on : BOOLEAN]
  <2>2. x \in R /\ x.rx = l.rx /\ x.rest = l.rest /\ x.out = o /\ x.odd = FALSE /\ x.on = FALSE
    OBVIOUS
  <2>3. y \in R /\ y.rx = k.rx /\ y.rest = k.rest /\ y.out = o /\ y.odd = FALSE /\ y.on = FALSE
    BY <1>2
  <2> HIDE DEF x, y
  <2>4. x = y
    BY <1>1, <2>2, <2>3
  <2> QED BY <1>3, <2>1, <2>4 DEF k, x, y
<1>5. CASE ~(v.verdict = "INCOMPLETE" /\ v.rest = l.rest /\ v.to = l.rx)
  <2>1. Received(v, l) = Received(v, k)
    BY <1>1, <1>5 DEF Received
  <2> QED BY <1>3, <2>1 DEF k
<1> QED BY <1>4, <1>5

(* The first turn of the receive loop, and the rest of it.                  *)
LEMMA LoopUnrolls ==
  ASSUME conf \in Configs, NEW r, NEW buf, NEW o, Able(r, buf, o)
  PROVE  LET l == First(r, buf, o)
         IN  /\ l \in LoopState(buf, 1)
             /\ ~l.on => ReceiveLoop(r, buf, o) = l
             /\ l.on => /\ Able(l.rx, l.rest, l.out) /\ Len(l.rest) < Len(buf)
                        /\ ReceiveLoop(r, buf, o) = ReceiveLoop(l.rx, l.rest, l.out)
<1> DEFINE n == Len(buf)
           l == First(r, buf, o)
<1>1. n \in Nat /\ 1 <= n /\ 1 \in 0 .. n /\ 1 \in 1 .. n /\ 1 - 1 = 0
  <2>1. n \in Nat /\ n # 0
    BY LenProperties, EmptySeq DEF Able
  <2> QED BY <2>1
<1>2. PICK g : Running(g, r, buf, o)
  BY LoopRunning
<1>3. /\ g[0] = LoopStart(r, buf, o)
      /\ \A i \in 1 .. n : g[i] = Turn(g[i - 1])
      /\ \A i \in 0 .. n : g[i] \in LoopState(buf, i)
      /\ ReceiveLoop(r, buf, o) = g[n]
  BY <1>2 DEF Running, LoopRun, LoopState
<1>4. g[1] = l
  <2>1. Turn(LoopStart(r, buf, o)) = l
    <3> DEFINE s == LoopStart(r, buf, o)
    <3>1. s.rx = r /\ s.rest = buf /\ s.on = TRUE
      BY DEF LoopStart
    <3> HIDE DEF s
    <3>2. Turn(s) = Received(Receive(r, buf), s)
      BY <3>1 DEF Turn
    <3> QED BY <3>2 DEF s, First
  <2> QED BY <1>1, <1>3, <2>1
<1>5. l \in LoopState(buf, 1)
  BY <1>1, <1>3, <1>4
<1> HIDE DEF l
<1>6. ~l.on => ReceiveLoop(r, buf, o) = l
  BY <1>1, <1>3, <1>4, LoopOver
<1>7. ASSUME l.on
      PROVE  /\ Able(l.rx, l.rest, l.out) /\ Len(l.rest) < Len(buf)
             /\ ReceiveLoop(r, buf, o) = ReceiveLoop(l.rx, l.rest, l.out)
  <2> DEFINE m == Len(l.rest)
             R == [rx : Receivers(conf.kind), rest : Seq(Tokens), out : Seq(FineEvents),
                   odd : BOOLEAN, on : BOOLEAN]
  <2>1. /\ l.rx \in ReceiversFit(conf.kind, TRUE) /\ BodyOk(conf.kind, l.rx)
        /\ l.rest \in Seq(Tokens) /\ l.out \in Seq(FineEvents)
    BY <1>5, <1>7 DEF LoopState, LoopStates, LoopRecords, Kept, Left, ReceiversFit
  <2>2. l.rest # <<>> /\ Len(l.rest) + 1 <= Len(buf) /\ ~Stuck(l.out)
    BY <1>5, <1>7 DEF LoopState, LoopStates, Advanced
  <2>3. Able(l.rx, l.rest, l.out)
    BY <2>1, <2>2 DEF Able
  <2>4. l \in R
    BY <1>5 DEF LoopState, LoopStates, LoopRecords, Left
  <2>5. m \in Nat /\ m # 0 /\ m < n
    BY <1>1, <2>1, <2>2, LenProperties, EmptySeq
  <2>6. PICK h : Running(h, l.rx, l.rest, l.out)
    BY <2>3, LoopRunning
  <2>7. /\ h[0] = LoopStart(l.rx, l.rest, l.out)
        /\ \A i \in 1 .. m : h[i] = Turn(h[i - 1])
        /\ \A i \in 0 .. m : h[i] \in LoopState(l.rest, i)
        /\ ReceiveLoop(l.rx, l.rest, l.out) = h[m]
    BY <2>6 DEF Running, LoopRun, LoopState
  <2>8. Turn(l) = Turn(h[0])
    BY <1>7, <2>4, <2>7, TurnSame
  <2> DEFINE Good == {i \in 0 .. m : i # 0 => g[i + 1] = h[i]}
  <2>9. 0 \in Good
    BY <2>5
  <2>10. \A i \in 1 .. m : i - 1 \in Good => i \in Good
    <3> TAKE i \in 1 .. m
    <3> HAVE i - 1 \in Good
    <3>1. i \in 0 .. m /\ i + 1 \in 1 .. n /\ i + 1 - 1 = i /\ i - 1 + 1 = i /\ h[i] = Turn(h[i - 1])
      BY <1>1, <2>5, <2>7
    <3>2. g[i + 1] = Turn(g[i])
      BY <1>3, <3>1
    <3>3. CASE i = 1
      BY <1>4, <2>8, <3>1, <3>2, <3>3
    <3>4. CASE i # 1
      <4>1. i - 1 # 0
        BY <2>5, <3>4
      <4>2. g[i] = h[i - 1]
        BY <3>1, <4>1
      <4> QED BY <3>1, <3>2, <4>2
    <3> QED BY <3>3, <3>4
  <2> HIDE DEF Good
  <2>11. g[m + 1] = h[m]
    <3>1. 0 .. m \subseteq Good
      BY <2>5, <2>9, <2>10, CountUp
    <3> QED BY <2>5, <3>1 DEF Good
  <2>12. ~h[m].on
    <3>1. h[m] \in LoopState(l.rest, m)
      BY <2>5, <2>7
    <3> DEFINE e == h[m]
    <3>2. e.on => e.rest # <<>> /\ Len(e.rest) + m <= m /\ e.rest \in Seq(Tokens)
      BY <3>1 DEF LoopState, LoopStates, LoopRecords, Advanced, Left
    <3> HIDE DEF e
    <3>3. ASSUME e.on PROVE FALSE
      <4>1. e.rest # <<>> /\ Len(e.rest) + m <= m /\ e.rest \in Seq(Tokens)
        BY <3>2, <3>3
      <4>2. Len(e.rest) \in Nat /\ Len(e.rest) # 0
        BY <4>1, LenProperties, EmptySeq
      <4> HIDE DEF m
      <4>3. \A i \in Nat : i + m <= m => i = 0
        BY <2>5
      <4> QED BY <4>1, <4>2, <4>3
    <3> QED BY <3>3 DEF e
  <2>13. g[n] = g[m + 1]
    <3>1. m + 1 \in 0 .. n
      BY <1>1, <2>5
    <3> QED BY <1>1, <1>3, <2>11, <2>12, <3>1, LoopOver
  <2>14. ReceiveLoop(r, buf, o) = ReceiveLoop(l.rx, l.rest, l.out)
    BY <1>3, <2>7, <2>11, <2>13
  <2> QED BY <1>1, <2>3, <2>5, <2>14
<1> QED BY <1>5, <1>6, <1>7 DEF l

(* What remains of a sequence is found again when the end is taken away.     *)
LEMMA JoinedSame ==
  ASSUME NEW x \in Seq(Tokens), NEW a \in Seq(Tokens), NEW b \in Seq(Tokens), x \o b = a \o b
  PROVE  x = a
<1>1. /\ Len(x \o b) = Len(x) + Len(b) /\ Len(a \o b) = Len(a) + Len(b)
      /\ \A i \in 1 .. Len(x) : (x \o b)[i] = x[i]
      /\ \A i \in 1 .. Len(a) : (a \o b)[i] = a[i]
  BY JoinedHas
<1>2. Len(x) = Len(a)
  BY <1>1, LenProperties
<1> QED BY <1>1, <1>2, SeqEqual

(* A turn of the loop that is not stuck.                                     *)
Outs(v, o) == IF v.verdict = "INCOMPLETE" THEN o ELSE Append(o, Seen(v))

(* A turn that takes nothing and changes nothing.                         *)
Stays(v, r, buf) == v.verdict = "INCOMPLETE" /\ v.rest = buf /\ v.to = r

(* What a turn makes of the verdict v of receive.                         *)
TurnedTo(l, v, r, buf, o) ==
  IF Stays(v, r, buf)
    THEN l.rx = r /\ l.out = Append(o, Event("STUCK", "", r.body)) /\ l.on = FALSE
    ELSE /\ l.rx = AfterVerdict(v) /\ l.rest = v.rest /\ l.out = Outs(v, o)
         /\ l.odd <=> Odd(v)
         /\ l.on <=> v.verdict # "INVALID" /\ v.rest # <<>>

(* That is what it makes of it.                                           *)
LEMMA ReceivedIs ==
  ASSUME NEW v, NEW r, NEW buf, NEW o
  PROVE  TurnedTo(Received(v, LoopStart(r, buf, o)), v, r, buf, o)
<1> DEFINE s == LoopStart(r, buf, o)
           l == Received(v, s)
           e == Append(o, Event("STUCK", "", r.body))
<1>1. s.rx = r /\ s.rest = buf /\ s.out = o
  BY DEF LoopStart
<1>2. CASE Stays(v, r, buf)
  <2>1. l = [s EXCEPT !.out = Append(@, Event("STUCK", "", s.rx.body)), !.odd = FALSE, !.on = FALSE]
    BY <1>1, <1>2 DEF Received, Stays
  <2>2. Append(s.out, Event("STUCK", "", s.rx.body)) = e
    BY <1>1
  <2> HIDE DEF e
  <2>3. l = [s EXCEPT !.out = e, !.odd = FALSE, !.on = FALSE]
    BY <2>1, <2>2
  <2>4. s \in [rx : {r}, rest : {buf}, out : {o}, odd : BOOLEAN, on : BOOLEAN]
    BY DEF LoopStart
  <2> HIDE DEF s, l
  <2>5. l.rx = r /\ l.out = e /\ l.on = FALSE
    BY <2>3, <2>4
  <2> QED BY <1>2, <2>5 DEF s, l, e, TurnedTo
<1>3. CASE ~Stays(v, r, buf)
  <2> DEFINE rx1 == AfterVerdict(v)
             out1 == Outs(v, s.out)
             odd1 == Odd(v)
             on1 == v.verdict # "INVALID" /\ v.rest # <<>>
  <2>1. l = [rx |-> rx1, rest |-> v.rest, out |-> out1, odd |-> odd1, on |-> on1]
    BY <1>1, <1>3 DEF Received, Odd, Outs, Stays
  <2>2. out1 = Outs(v, o)
    BY <1>1
  <2> HIDE DEF rx1, out1, odd1, on1, l
  <2>3. l.rx = rx1 /\ l.rest = v.rest /\ l.out = out1 /\ l.odd = odd1 /\ l.on = on1
    BY <2>1
  <2> QED BY <1>3, <2>2, <2>3 DEF TurnedTo, rx1, odd1, on1, l
<1> QED BY <1>2, <1>3

(* What receive answers a receiver that the loop calls it with.              *)
LEMMA AbleAnswers ==
  ASSUME conf \in Configs, NEW r, NEW buf, NEW o, Able(r, buf, o)
  PROVE  LET v == Receive(r, buf)
         IN  /\ v.rest \in Left(buf) /\ v.verdict \in Verdicts /\ v.bad \in BOOLEAN
             /\ v.to \in Receivers(conf.kind)
             /\ v.verdict # "INCOMPLETE" => Seen(v) \in FineEvents /\ Seen(v).is = v.verdict
<1>1. /\ r \in ReceiversFit(conf.kind, TRUE) /\ BodyOk(conf.kind, r)
      /\ buf \in Seq(Tokens) /\ buf # <<>>
  BY DEF Able
<1>2. Answer(Receive(r, buf), r, buf, TRUE)
  <2>1. \A fit \in BOOLEAN : r \in ReceiversFit(conf.kind, fit) => Answer(Receive(r, buf), r, buf, fit)
    BY <1>1, ReceiveAnswers
  <2>2. TRUE \in BOOLEAN
    OBVIOUS
  <2> QED BY <1>1, <2>1, <2>2
<1> DEFINE v == Receive(r, buf)
<1> HIDE DEF v
<1>3. v.rest \in Left(buf) /\ v.verdict \in Verdicts /\ v.bad \in BOOLEAN /\ v.to \in Receivers(conf.kind)
  BY <1>2 DEF Answer, Answered, v
<1>4. v.verdict # "INCOMPLETE" => Seen(v) \in FineEvents /\ Seen(v).is = v.verdict
  BY <1>3, SeenIsFine
<1> QED BY <1>3, <1>4 DEF v

(* The verdicts after a turn that goes on are not the last.                   *)
LEMMA OutsGo ==
  ASSUME NEW o \in Seq(FineEvents), ~Stopped(o), NEW v, v.verdict \in Verdicts,
         v.verdict # "INCOMPLETE" => Seen(v) \in FineEvents /\ Seen(v).is = v.verdict
  PROVE  Stopped(Outs(v, o)) <=> v.verdict = "INVALID"
<1>1. CASE v.verdict = "INCOMPLETE"
  BY <1>1 DEF Outs
<1>2. CASE v.verdict # "INCOMPLETE"
  <2> DEFINE a == Append(o, Seen(v))
  <2>1. a # <<>> /\ Last(a) = Seen(v)
    BY <1>2, LastOfAppend
  <2>2. Outs(v, o) = a
    BY <1>2 DEF Outs
  <2> HIDE DEF a
  <2>3. v.verdict # "STUCK"
    BY DEF Verdicts
  <2> QED BY <1>2, <2>1, <2>2, <2>3 DEF Stopped
<1> QED BY <1>1, <1>2

(* The receive loop, on two reads and on the two in one: it has refused the   *)
(* message, or is stuck, in the first already; or the second read ends as     *)
(* the two in one do.                                                      *)
LoopSplit(r, a, b, o) ==
  LET l == ReceiveLoop(r, a, o)
      w == ReceiveLoop(r, a \o b, o)
  IN  /\ Stopped(l.out) => w.out = l.out
      /\ ~Stopped(l.out) /\ ~l.odd /\ Fine(l.rx, Last(a), Head(b)) =>
           w.out = ReceiveLoop(l.rx, b, l.out).out

(* The turn that answers the same, and leaves the second read too.           *)
LEMMA WidenedTurn ==
  ASSUME conf \in Configs, NEW r, NEW a, NEW o, Able(r, a, o), ~Stopped(o),
         NEW b \in Seq(Tokens), b # <<>>, Able(r, a \o b, o),
         Receive(r, a \o b) = Widened(Receive(r, a), b),
         \A x, c, p : Able(x, c, p) /\ ~Stopped(p) /\ Len(c) < Len(a) => LoopSplit(x, c, b, p)
  PROVE  LoopSplit(r, a, b, o)
<1> DEFINE v == Receive(r, a)
           w == Receive(r, a \o b)
           x == First(r, a, o)
           y == First(r, a \o b, o)
           l == ReceiveLoop(r, a, o)
           u == ReceiveLoop(r, a \o b, o)
           stays == Stays(v, r, a)
           stayw == Stays(w, r, a \o b)
<1>1. /\ a \in Seq(Tokens) /\ a # <<>> /\ o \in Seq(FineEvents) /\ r.body \in Nat
  BY DEF Able, ReceiversFit, Receivers
<1>2. /\ v.rest \in Left(a) /\ v.rest \in Seq(Tokens) /\ v.verdict \in Verdicts
      /\ v.verdict # "INCOMPLETE" => Seen(v) \in FineEvents /\ Seen(v).is = v.verdict
  BY AbleAnswers DEF Left
<1>3. w.to = v.to /\ w.rest = v.rest \o b /\ w.verdict = v.verdict
  BY DEF Widened, Verdict
<1>4. x = Received(v, LoopStart(r, a, o)) /\ y = Received(w, LoopStart(r, a \o b, o))
  BY DEF First
<1>5. /\ ~x.on => l = x
      /\ x.on => /\ Able(x.rx, x.rest, x.out) /\ Len(x.rest) < Len(a)
                 /\ l = ReceiveLoop(x.rx, x.rest, x.out)
  BY LoopUnrolls
<1>6. /\ ~y.on => u = y
      /\ y.on => u = ReceiveLoop(y.rx, y.rest, y.out)
  BY LoopUnrolls
<1>7. TurnedTo(x, v, r, a, o)
  BY <1>4, ReceivedIs
<1>8. TurnedTo(y, w, r, a \o b, o)
  BY <1>4, ReceivedIs
<1>9. stays <=> stayw
  BY <1>1, <1>2, <1>3, JoinedSame DEF Stays
<1>10. AfterVerdict(w) = AfterVerdict(v) /\ Outs(w, o) = Outs(v, o)
  <2> HIDE DEF v, w
  <2>1. Seen(w) = Seen(v)
    BY <1>3 DEF Seen
  <2>2. Finished(w) <=> Finished(v)
    BY <1>3 DEF Finished
  <2> QED BY <1>3, <2>1, <2>2 DEF AfterVerdict, Outs
<1>11. v.rest \o b # <<>>
  BY <1>2, JoinedHead
<1>12. Stopped(Outs(v, o)) <=> v.verdict = "INVALID"
  BY <1>1, <1>2, OutsGo
<1> HIDE DEF v, w, x, y, l, u
<1>17. ASSUME stays
       PROVE  x.out = y.out /\ x.out = Append(o, Event("STUCK", "", r.body)) /\ ~x.on /\ ~y.on
  <2>1. x.out = Append(o, Event("STUCK", "", r.body)) /\ ~x.on
    BY <1>7, <1>17 DEF TurnedTo
  <2>2. y.out = Append(o, Event("STUCK", "", r.body)) /\ ~y.on
    BY <1>8, <1>9, <1>17 DEF TurnedTo
  <2> QED BY <2>1, <2>2
<1>18. ASSUME ~stays
       PROVE  /\ x.rx = AfterVerdict(v) /\ x.rest = v.rest /\ x.out = Outs(v, o)
              /\ x.on <=> v.verdict # "INVALID" /\ v.rest # <<>>
              /\ y.rx = x.rx /\ y.rest = v.rest \o b /\ y.out = x.out
              /\ y.on <=> v.verdict # "INVALID"
  <2>1. /\ x.rx = AfterVerdict(v) /\ x.rest = v.rest /\ x.out = Outs(v, o)
        /\ x.on <=> v.verdict # "INVALID" /\ v.rest # <<>>
    BY <1>7, <1>18 DEF TurnedTo
  <2>2. /\ y.rx = AfterVerdict(w) /\ y.rest = w.rest /\ y.out = Outs(w, o)
        /\ y.on <=> w.verdict # "INVALID" /\ w.rest # <<>>
    BY <1>8, <1>9, <1>18 DEF TurnedTo
  <2> QED BY <1>3, <1>10, <1>11, <2>1, <2>2
<1>13. CASE stays
  <2>1. l.out = u.out
    BY <1>5, <1>6, <1>13, <1>17
  <2>2. Stopped(l.out)
    <3> DEFINE e == Event("STUCK", "", r.body)
    <3>1. e \in FineEvents /\ e.is = "STUCK"
      BY <1>1 DEF Event, Events, FineEvents
    <3>2. l.out = Append(o, e)
      BY <1>5, <1>13, <1>17
    <3> HIDE DEF e
    <3>3. Append(o, e) # <<>> /\ Last(Append(o, e)) = e
      BY <1>1, <3>1, LastOfAppend
    <3> QED BY <3>1, <3>2, <3>3 DEF Stopped
  <2> QED BY <2>1, <2>2 DEF LoopSplit, l, u
<1>14. CASE ~stays /\ v.verdict = "INVALID"
  <2>1. l.out = Outs(v, o) /\ u.out = Outs(v, o)
    BY <1>5, <1>6, <1>14, <1>18
  <2> QED BY <1>12, <1>14, <2>1 DEF LoopSplit, l, u
<1>15. CASE ~stays /\ v.verdict # "INVALID"
  <2>1. /\ x.rx = AfterVerdict(v) /\ x.rest = v.rest /\ x.out = Outs(v, o)
        /\ x.on <=> v.rest # <<>>
    BY <1>15, <1>18
  <2>2. y.rx = x.rx /\ y.rest = v.rest \o b /\ y.out = x.out /\ y.on
    BY <1>15, <1>18
  <2>3. u = ReceiveLoop(x.rx, v.rest \o b, x.out)
    BY <1>6, <2>2
  <2>4. ~Stopped(x.out)
    BY <1>12, <1>15, <2>1
  <2>5. CASE v.rest = <<>>
    <3>1. l = x /\ v.rest \o b = b
      BY <1>5, <2>1, <2>5, JoinedHead
    <3> QED BY <2>3, <2>4, <3>1 DEF LoopSplit, l, u
  <2>6. CASE v.rest # <<>>
    <3>1. /\ Able(x.rx, v.rest, x.out) /\ Len(v.rest) < Len(a)
          /\ l = ReceiveLoop(x.rx, v.rest, x.out)
      BY <1>5, <2>1, <2>6
    <3>2. LoopSplit(x.rx, v.rest, b, x.out)
      BY <2>4, <3>1
    <3>3. Last(v.rest) = Last(a)
      BY <1>2, <2>6 DEF Left, EndsAs
    <3>4. /\ Stopped(l.out) => u.out = l.out
          /\ ~Stopped(l.out) /\ ~l.odd /\ Fine(l.rx, Last(a), Head(b)) =>
               u.out = ReceiveLoop(l.rx, b, l.out).out
      BY <2>3, <3>1, <3>2, <3>3 DEF LoopSplit
    <3> QED BY <3>4 DEF LoopSplit, l, u
  <2> QED BY <2>5, <2>6
<1> QED BY <1>13, <1>14, <1>15

(* A receiver that the loop leaves may be called with the next read.          *)
LEMMA LeftAble ==
  ASSUME NEW a \in Seq(Tokens), NEW i, NEW l \in LoopState(a, i), ~l.odd, ~Stuck(l.out),
         NEW b \in Seq(Tokens), b # <<>>
  PROVE  Able(l.rx, b, l.out)
<1>1. l.rx \in Receivers(conf.kind) /\ l.out \in Seq(FineEvents)
  BY DEF LoopState, LoopStates, LoopRecords
<1>2. l.rx.line \in FineLinesOf(conf.kind) /\ BodyOk(conf.kind, l.rx) /\ FitRx(l.rx)
  BY DEF LoopState, LoopStates, Kept
<1> QED BY <1>1, <1>2 DEF Able, ReceiversFit

(* The turn that needs more of the message: the next read goes on with it.    *)
LEMMA ResumedTurn ==
  ASSUME conf \in Configs, NEW r, NEW a, NEW o, Able(r, a, o), ~Stopped(o),
         NEW b \in Seq(Tokens), b # <<>>, Able(r, a \o b, o),
         Receive(r, a).verdict = "INCOMPLETE", Receive(r, a).rest = <<>>,
         Fine(Receive(r, a).to, Last(a), Head(b)) =>
           Receive(r, a \o b) = Receive(Receive(r, a).to, b)
  PROVE  LoopSplit(r, a, b, o)
<1> DEFINE v == Receive(r, a)
           w == Receive(r, a \o b)
           x == First(r, a, o)
           y == First(r, a \o b, o)
           l == ReceiveLoop(r, a, o)
           u == ReceiveLoop(r, a \o b, o)
<1>1. a \in Seq(Tokens) /\ a # <<>> /\ o \in Seq(FineEvents) /\ a \o b \in Seq(Tokens)
  BY DEF Able
<1>2. TurnedTo(x, v, r, a, o) /\ TurnedTo(y, w, r, a \o b, o)
  BY ReceivedIs DEF First
<1>3. x \in LoopState(a, 1) /\ (~x.on => l = x)
  BY LoopUnrolls
<1>4. /\ ~y.on => u = y
      /\ y.on => u = ReceiveLoop(y.rx, y.rest, y.out)
  BY LoopUnrolls
<1> HIDE DEF v, w, x, y, l, u
<1>5. v.verdict = "INCOMPLETE" /\ v.rest = <<>> /\ AfterVerdict(v) = v.to
  BY DEF v, AfterVerdict, Finished
<1>6. x.rx = v.to /\ x.out = o /\ ~x.on
  BY <1>1, <1>2, <1>5 DEF TurnedTo, Stays, Outs
<1>7. l = x
  BY <1>3, <1>6
<1>8. ASSUME ~x.odd, Fine(x.rx, Last(a), Head(b))
      PROVE  u.out = ReceiveLoop(x.rx, b, o).out
  <2> DEFINE q == x.rx
             z == First(q, b, o)
             m == ReceiveLoop(q, b, o)
  <2>1. w = Receive(q, b)
    BY <1>6, <1>8 DEF v, w
  <2>2. ~Stuck(o)
    BY DEF Able
  <2>3. Able(q, b, o)
    BY <1>1, <1>3, <1>6, <1>8, <2>2, LeftAble
  <2>4. TurnedTo(z, w, q, b, o)
    BY <2>1, ReceivedIs DEF First
  <2>5. /\ ~z.on => m = z
        /\ z.on => m = ReceiveLoop(z.rx, z.rest, z.out)
    BY <2>3, LoopUnrolls
  <2>6. w.rest \in Left(b)
    BY <2>1, <2>3, AbleAnswers
  <2> HIDE DEF q, z, m
  <2>7. ~Stays(w, r, a \o b)
    <3>1. Len(w.rest) <= Len(b) /\ w.rest \in Seq(Tokens)
      BY <2>6 DEF Left
    <3>2. Len(a \o b) = Len(a) + Len(b) /\ Len(a) # 0 /\ Len(a) \in Nat /\ Len(b) \in Nat
      BY <1>1, JoinedHas, LenProperties, EmptySeq
    <3>3. w.rest # a \o b
      <4>1. \A i, j \in Nat : i # 0 => ~(i + j <= j)
        OBVIOUS
      <4> QED BY <3>1, <3>2, <4>1
    <3> QED BY <3>3 DEF Stays
  <2>8. /\ y.rx = AfterVerdict(w) /\ y.rest = w.rest /\ y.out = Outs(w, o)
        /\ y.on <=> w.verdict # "INVALID" /\ w.rest # <<>>
    BY <1>2, <2>7 DEF TurnedTo
  <2>9. CASE Stays(w, q, b)
    <3>1. w.verdict = "INCOMPLETE" /\ w.rest = b /\ w.to = q
      BY <2>9 DEF Stays
    <3>2. AfterVerdict(w) = q /\ Outs(w, o) = o
      BY <3>1 DEF AfterVerdict, Finished, Outs
    <3>3. y.on /\ y.rx = q /\ y.rest = b /\ y.out = o
      BY <2>8, <3>1, <3>2
    <3>4. u = m
      BY <1>4, <3>3 DEF m
    <3> QED BY <3>4 DEF m, q
  <2>10. CASE ~Stays(w, q, b)
    <3>1. /\ z.rx = y.rx /\ z.rest = y.rest /\ z.out = y.out
          /\ z.on <=> w.verdict # "INVALID" /\ w.rest # <<>>
      BY <2>4, <2>8, <2>10 DEF TurnedTo
    <3>2. CASE y.on
      <4>1. z.on
        BY <2>8, <3>1, <3>2
      <4>2. u = m
        BY <1>4, <2>5, <3>1, <3>2, <4>1
      <4> QED BY <4>2 DEF m, q
    <3>3. CASE ~y.on
      <4>1. ~z.on
        BY <2>8, <3>1, <3>3
      <4>2. u.out = m.out
        BY <1>4, <2>5, <3>1, <3>3, <4>1
      <4> QED BY <4>2 DEF m, q
    <3> QED BY <3>2, <3>3
  <2> QED BY <2>9, <2>10
<1> QED BY <1>6, <1>7, <1>8 DEF LoopSplit, l, u

(* The turn at which the loop tells apart what the reads make a difference to. *)
LEMMA OddTurn ==
  ASSUME conf \in Configs, NEW r, NEW a, NEW o, Able(r, a, o), ~Stopped(o), NEW b,
         Odd(Receive(r, a)), Receive(r, a).rest = <<>>
  PROVE  LoopSplit(r, a, b, o)
<1> DEFINE v == Receive(r, a)
           x == First(r, a, o)
           l == ReceiveLoop(r, a, o)
<1>1. a # <<>> /\ o \in Seq(FineEvents)
  BY DEF Able
<1>2. TurnedTo(x, v, r, a, o)
  BY ReceivedIs DEF First
<1>3. ~x.on => l = x
  BY LoopUnrolls
<1>4. v.verdict \in Verdicts /\ (v.verdict # "INCOMPLETE" => Seen(v) \in FineEvents /\ Seen(v).is = v.verdict)
  BY AbleAnswers
<1> HIDE DEF v, x, l
<1>5. Odd(v) /\ v.rest = <<>>
  BY DEF v
<1>6. ~x.on /\ x.odd /\ x.out = Outs(v, o)
  BY <1>1, <1>2, <1>5 DEF TurnedTo, Stays
<1>7. ~Stopped(Outs(v, o))
  <2>1. v.verdict # "INVALID"
    BY <1>5 DEF Odd
  <2> QED BY <1>1, <1>4, <2>1, OutsGo
<1>8. l.odd /\ ~Stopped(l.out)
  BY <1>3, <1>6, <1>7
<1> QED BY <1>8 DEF LoopSplit, l

(* The receive loop on two reads and on the two in one.                        *)
LEMMA LoopSplits ==
  ASSUME conf \in Configs, NEW r, NEW a, NEW o, Able(r, a, o), ~Stopped(o),
         NEW b \in Seq(Tokens), b # <<>>
  PROVE  LoopSplit(r, a, b, o)
<1> DEFINE n == Len(a)
           Upto(k) == \A x, c, p : Able(x, c, p) /\ ~Stopped(p) /\ Len(c) <= k => LoopSplit(x, c, b, p)
           Good == {k \in 0 .. n : Upto(k)}
<1>1. n \in Nat /\ a \in Seq(Tokens)
  BY LenProperties DEF Able
<1>2. \A x, c, p : Able(x, c, p) => Len(c) \in Nat /\ Len(c) # 0 /\ Able(x, c \o b, p)
  <2> TAKE x, c, p
  <2> HAVE Able(x, c, p)
  <2>1. c \in Seq(Tokens) /\ c # <<>>
    BY DEF Able
  <2>2. c \o b \in Seq(Tokens) /\ c \o b # <<>>
    BY <2>1, JoinedHead
  <2>3. Len(c) \in Nat /\ Len(c) # 0
    BY <2>1, LenProperties, EmptySeq
  <2> QED BY <2>2, <2>3 DEF Able
<1>3. 0 \in Good
  <2>1. Upto(0)
    <3> TAKE x, c, p
    <3> HAVE Able(x, c, p) /\ ~Stopped(p) /\ Len(c) <= 0
    <3>1. Len(c) \in Nat /\ Len(c) # 0
      BY <1>2
    <3>2. FALSE
      BY <3>1
    <3> QED BY <3>2
  <2> QED BY <1>1, <2>1
<1>4. \A k \in 1 .. n : k - 1 \in Good => k \in Good
  <2> TAKE k \in 1 .. n
  <2> HAVE k - 1 \in Good
  <2>1. Upto(k - 1)
    OBVIOUS
  <2>2. ASSUME NEW x, NEW c, NEW p, Able(x, c, p), ~Stopped(p), Len(c) <= k
        PROVE  LoopSplit(x, c, b, p)
    <3>1. \A y, d, q : Able(y, d, q) /\ ~Stopped(q) /\ Len(d) < Len(c) => LoopSplit(y, d, b, q)
      <4> TAKE y, d, q
      <4> HAVE Able(y, d, q) /\ ~Stopped(q) /\ Len(d) < Len(c)
      <4>1. Len(d) \in Nat /\ Len(c) \in Nat
        BY <1>2, <2>2
      <4>2. \A i, j \in Nat : i < j /\ j <= k => i <= k - 1
        OBVIOUS
      <4>3. Len(d) <= k - 1
        BY <2>2, <4>1, <4>2
      <4> QED BY <2>1, <4>3
    <3>2. Able(x, c \o b, p)
      BY <1>2, <2>2
    <3> DEFINE v == Receive(x, c)
               w == Receive(x, c \o b)
    <3>3. Parted(v, w, Last(c), b)
      <4>1. /\ x \in ReceiversFit(conf.kind, TRUE) /\ BodyOk(conf.kind, x)
            /\ c \in Seq(Tokens) /\ c # <<>>
        BY <2>2 DEF Able
      <4> QED BY <4>1, ReceiveSplits
    <3>4. CASE Odd(v) /\ v.rest = <<>>
      BY <2>2, <3>4, OddTurn
    <3>5. CASE w = Widened(v, b)
      BY <2>2, <3>1, <3>2, <3>5, WidenedTurn
    <3>6. CASE /\ v.verdict = "INCOMPLETE" /\ v.rest = <<>>
               /\ Fine(v.to, Last(c), Head(b)) => w = Receive(v.to, b)
      BY <2>2, <3>2, <3>6, ResumedTurn
    <3> QED BY <3>3, <3>4, <3>5, <3>6 DEF Parted
  <2>3. Upto(k)
    BY <2>2
  <2>4. k \in 0 .. n
    BY <1>1
  <2> QED BY <2>3, <2>4
<1>5. n \in Good
  <2> HIDE DEF Good
  <2>1. 0 .. n \subseteq Good
    BY <1>1, <1>3, <1>4, CountUp
  <2> QED BY <1>1, <2>1
<1>6. Upto(n)
  BY <1>5
<1>7. n <= n
  BY <1>1
<1> QED BY <1>6, <1>7

-----------------------------------------------------------------------------
(* The parsers and the loop are functions of the configuration, which
   never changes: in the next state they are what they are in this one. *)

(* A character.                                                           *)
LEMMA SameFeed ==
  ASSUME UNCHANGED conf
  PROVE  \A line, p, c : Feed(line, p, c)' = Feed(line, p, c)
<1>1. \A s, c : LineEnd(s, c)' = LineEnd(s, c)
  BY DEF LineEnd
<1>2. \A s, c : ValueEnd(s, c)' = ValueEnd(s, c)
  BY DEF ValueEnd
<1>3. \A h, c : SizeEnd(h, c)' = SizeEnd(h, c)
  BY DEF SizeEnd
<1>4. \A q, c : RequestChar(q, c)' = RequestChar(q, c)
  BY <1>1 DEF RequestChar
<1>5. \A q, c : ResponseLineEnd(q, c)' = ResponseLineEnd(q, c)
  BY <1>1 DEF ResponseLineEnd
<1>6. \A q, c : ResponseChar(q, c)' = ResponseChar(q, c)
  BY <1>5 DEF ResponseChar
<1>7. \A f, c : FieldChar(f, c)' = FieldChar(f, c)
  BY <1>2 DEF FieldChar
<1>8. \A h, c : ChunkChar(h, c)' = ChunkChar(h, c)
  BY <1>2, <1>3 DEF ChunkChar
<1>9. \A line, s, c : ParseChar(line, s, c)' = ParseChar(line, s, c)
  BY <1>4, <1>6, <1>7, <1>8 DEF ParseChar
<1> QED BY <1>9 DEF Feed

(* The states of a line parse, as a function that chooses them.            *)
ScanRec(f, line, s, buf) ==
  f = [i \in 0 .. Len(buf) |->
         IF i = 0 THEN {[to |-> s, ok |-> TRUE, used |-> 0, open |-> TRUE]}
                  ELSE {Feed(line, p, buf[i]) : p \in f[i - 1]}]

(* A line.                                                                *)
LEMMA SameScan == ASSUME UNCHANGED conf
                  PROVE  \A line, s, buf : Scan(line, s, buf)' = Scan(line, s, buf)
<1> SUFFICES ASSUME NEW line, NEW s, NEW buf PROVE Scan(line, s, buf)' = Scan(line, s, buf)
  OBVIOUS
<1>1. \A f : ScanRec(f, line, s, buf)' <=> ScanRec(f, line, s, buf)
  BY SameFeed DEF ScanRec
<1>2. (CHOOSE f : ScanRec(f, line, s, buf)') = (CHOOSE f : ScanRec(f, line, s, buf))
  BY <1>1, Zenon
<1>3. Scan(line, s, buf) = Scanned(Element((CHOOSE f : ScanRec(f, line, s, buf))[Len(buf)]), buf)
  BY DEF Scan, ScanRec
<1>4. Scan(line, s, buf)' = Scanned(Element((CHOOSE f : ScanRec(f, line, s, buf)')[Len(buf)]), buf)
  BY DEF Scan, ScanRec
<1> QED BY <1>2, <1>3, <1>4

(* A header line.                                                         *)
LEMMA SameFieldTurn == ASSUME UNCHANGED conf PROVE \A p : FieldTurn(p)' = FieldTurn(p)
  BY SameScan DEF FieldTurn

(* The states of the loop over the header lines.                           *)
HeadersRec(f, h, buf) ==
  f = [i \in 0 .. Len(buf) |->
         IF i = 0 THEN {Parsed(h, buf, TRUE, FALSE)} ELSE {FieldTurn(p) : p \in f[i - 1]}]

(* The headers.                                                           *)
LEMMA SameHeadersParse == ASSUME UNCHANGED conf
                          PROVE  \A h, buf : HeadersParse(h, buf)' = HeadersParse(h, buf)
<1> SUFFICES ASSUME NEW h, NEW buf PROVE HeadersParse(h, buf)' = HeadersParse(h, buf)
  OBVIOUS
<1>1. \A f : HeadersRec(f, h, buf)' <=> HeadersRec(f, h, buf)
  BY SameFieldTurn DEF HeadersRec, Parsed
<1>2. (CHOOSE f : HeadersRec(f, h, buf)') = (CHOOSE f : HeadersRec(f, h, buf))
  BY <1>1, Zenon
<1>3. HeadersParse(h, buf) = FieldsParsed(Element((CHOOSE f : HeadersRec(f, h, buf))[Len(buf)]))
  BY DEF HeadersParse, HeadersRec
<1>4. HeadersParse(h, buf)' = FieldsParsed(Element((CHOOSE f : HeadersRec(f, h, buf)')[Len(buf)]))
  BY DEF HeadersParse, HeadersRec
<1> QED BY <1>2, <1>3, <1>4

(* A chunk.                                                               *)
LEMMA SameChunkParse ==
  ASSUME UNCHANGED conf
  PROVE  \A k, buf : ChunkParse(k, buf)' = ChunkParse(k, buf)
<1>1. \A k, buf : ChunkData(k, buf)' = ChunkData(k, buf)
  BY DEF ChunkData
<1>2. \A p : ChunkHeaderParsed(p)' = ChunkHeaderParsed(p)
  BY <1>1, SameHeadersParse DEF ChunkHeaderParsed
<1> QED BY <1>2, SameScan DEF ChunkParse

(* The head of a message.                                                 *)
LEMMA SameStart ==
  ASSUME UNCHANGED conf
  PROVE  \A r, buf : Start(r, buf)' = Start(r, buf)
<1>1. \A q, buf : RequestLineParse(q, buf)' = RequestLineParse(q, buf)
  BY SameScan DEF RequestLineParse
<1>2. \A q, buf : ResponseLineParse(q, buf)' = ResponseLineParse(q, buf)
  BY SameScan DEF ResponseLineParse
<1>3. \A l, buf : LineParse(l, buf)' = LineParse(l, buf)
  BY <1>1, <1>2 DEF LineParse
<1>4. \A l, r : LineParsed(l, r)' = LineParsed(l, r)
  BY SameHeadersParse DEF LineParsed
<1>5. \A r, buf : MessageParse(r, buf)' = MessageParse(r, buf)
  BY <1>3, <1>4 DEF MessageParse
<1> QED BY <1>5 DEF Start

(* The new receiver.                                                      *)
LEMMA SameNewRx == ASSUME UNCHANGED conf PROVE NewRx' = NewRx
  BY DEF NewRx, NewLine

(* The receiver is cleared.                                               *)
LEMMA SameClear == ASSUME UNCHANGED conf PROVE \A r : Clear(r)' = Clear(r)
  BY SameNewRx DEF Clear

(* The message is refused.                                                *)
LEMMA SameRefuse ==
  ASSUME UNCHANGED conf
  PROVE  \A r, rest, code : Refuse(r, rest, code)' = Refuse(r, rest, code)
BY SameClear DEF Refuse

(* A request.                                                             *)
LEMMA SameRequestReceive ==
  ASSUME UNCHANGED conf
  PROVE  \A r, buf : RequestReceive(r, buf)' = RequestReceive(r, buf)
<1>1. \A r, buf : RequestBody(r, buf)' = RequestBody(r, buf)
  BY SameRefuse DEF RequestBody, Verdict, IsMethod
<1>2. \A p, r : RequestChunkParsed(p, r)' = RequestChunkParsed(p, r)
  BY SameRefuse DEF RequestChunkParsed, Verdict
<1>3. \A r, buf, parsed : RequestChunk(r, buf, parsed)' = RequestChunk(r, buf, parsed)
  BY <1>2, SameChunkParse DEF RequestChunk
<1>4. \A p, r : RequestStarted(p, r)' = RequestStarted(p, r)
  BY <1>1, <1>3, SameRefuse DEF RequestStarted
<1> QED BY <1>4, SameStart DEF RequestReceive

(* A response.                                                            *)
LEMMA SameResponseReceive ==
  ASSUME UNCHANGED conf
  PROVE  \A r, buf : ResponseReceive(r, buf)' = ResponseReceive(r, buf)
<1>1. \A r, buf : ResponseBody(r, buf)' = ResponseBody(r, buf)
  BY SameRefuse DEF ResponseBody
<1>2. \A p, r : ResponseChunkParsed(p, r)' = ResponseChunkParsed(p, r)
  BY SameRefuse DEF ResponseChunkParsed
<1>3. \A r, buf, parsed : ResponseChunk(r, buf, parsed)' = ResponseChunk(r, buf, parsed)
  BY <1>2, SameChunkParse DEF ResponseChunk
<1>4. \A p, r : ResponseStarted(p, r)' = ResponseStarted(p, r)
  BY <1>1, <1>3, SameRefuse DEF ResponseStarted
<1> QED BY <1>4, SameStart DEF ResponseReceive

(* A turn of the receive loop.                                            *)
LEMMA SameTurn ==
  ASSUME UNCHANGED conf
  PROVE  \A l : Turn(l)' = Turn(l)
<1>1. \A r, buf : Receive(r, buf)' = Receive(r, buf)
  BY SameRequestReceive, SameResponseReceive DEF Receive
<1>2. \A v : Seen(v)' = Seen(v)
  BY DEF Seen
<1>3. \A v : Finished(v)' <=> Finished(v)
  BY DEF Finished
<1>4. \A v : AfterVerdict(v)' = AfterVerdict(v)
  BY <1>3, SameClear DEF AfterVerdict
<1>5. \A v, l : Received(v, l)' = Received(v, l)
  BY <1>2, <1>4 DEF Received
<1> QED BY <1>1, <1>5 DEF Turn

(* The states of the receive loop.                                        *)
LoopRec(f, r, buf, o) ==
  f = [i \in 0 .. Len(buf) |->
         IF i = 0 THEN {[rx |-> r, rest |-> buf, out |-> o, odd |-> FALSE, on |-> TRUE]}
                  ELSE {Turn(l) : l \in f[i - 1]}]

(* The receive loop.                                                      *)
LEMMA SameReceiveLoop == ASSUME UNCHANGED conf
                         PROVE  \A r, buf, o : ReceiveLoop(r, buf, o)' = ReceiveLoop(r, buf, o)
<1> SUFFICES ASSUME NEW r, NEW buf, NEW o PROVE ReceiveLoop(r, buf, o)' = ReceiveLoop(r, buf, o)
  OBVIOUS
<1>1. \A f : LoopRec(f, r, buf, o)' <=> LoopRec(f, r, buf, o)
  BY SameTurn DEF LoopRec
<1>2. (CHOOSE f : LoopRec(f, r, buf, o)') = (CHOOSE f : LoopRec(f, r, buf, o))
  BY <1>1, Zenon
<1>3. ReceiveLoop(r, buf, o) = Element((CHOOSE f : LoopRec(f, r, buf, o))[Len(buf)])
  BY DEF ReceiveLoop, LoopRec
<1>4. ReceiveLoop(r, buf, o)' = Element((CHOOSE f : LoopRec(f, r, buf, o)')[Len(buf)])
  BY DEF ReceiveLoop, LoopRec
<1> QED BY <1>2, <1>3, <1>4

-----------------------------------------------------------------------------
(* The cuts of a stream into reads.                                       *)

(* What has been understood so far, and what the rest of the stream would add to
   it in one read, is what the stream in one read amounts to.             *)
Ahead(s, p) == SubSeq(s, p + 1, Len(s))

(* What has been understood so far, and what the rest of the stream would
   add to it in one read, is what the stream in one read amounts to. *)
CutInv ==
  ~excused => IF Done THEN out = Whole
                      ELSE ReceiveLoop(rx, Ahead(peer.stream, pos), out).out = Whole

(* A loop over nothing hands nothing on.                                  *)
LEMMA LoopOverNothing ==
  ASSUME NEW r, NEW o
  PROVE  ReceiveLoop(r, <<>>, o).out = o
<1> DEFINE start == LoopStart(r, <<>>, o)
           Rec(f) == f = [i \in 0 .. 0 |-> IF i = 0 THEN {start}
                                           ELSE {Turn(l) : l \in f[i - 1]}]
           after == CHOOSE f : Rec(f)
<1>1. ReceiveLoop(r, <<>>, o) = Element(after[0])
  <2>1. Len(<<>>) = 0
    OBVIOUS
  <2> QED BY <2>1 DEF ReceiveLoop, LoopStart
<1>2. start.out = o
  BY DEF LoopStart
<1> HIDE DEF start
<1>3. \A i \in 0 .. 0 : i = 0
  OBVIOUS
<1>4. 0 \in 0 .. 0
  OBVIOUS
<1>5. Rec([i \in 0 .. 0 |-> {start}])
  <2> DEFINE f == [i \in 0 .. 0 |-> {start}]
             e == [i \in 0 .. 0 |-> IF i = 0 THEN {start} ELSE {Turn(l) : l \in f[i - 1]}]
  <2>1. \A i \in 0 .. 0 : f[i] = e[i]
    BY <1>3
  <2>2. f = e
    BY <2>1
  <2> QED BY <2>2
<1>6. Rec(after)
  BY <1>5
<1> HIDE DEF after
<1>7. after[0] = {start}
  BY <1>4, <1>6
<1>8. Element(after[0]) = start
  BY <1>7 DEF Element
<1> QED BY <1>1, <1>2, <1>8

(* The rest of a stream, and what a read takes of it.                     *)
LEMMA AheadParts ==
  ASSUME NEW s \in Seq(Tokens), NEW p \in Nat, NEW n \in Nat, 1 <= n, p + n <= Len(s)
  PROVE  LET a == SubSeq(s, p + 1, p + n)
             b == Ahead(s, p + n)
         IN  /\ p + n = Len(s) => a = Ahead(s, p)
             /\ p + n < Len(s) => /\ a \o b = Ahead(s, p) /\ b \in Seq(Tokens) /\ b # <<>>
                                  /\ Last(a) = s[p + n] /\ Head(b) = s[p + n + 1]
<1> DEFINE a == SubSeq(s, p + 1, p + n)
           b == Ahead(s, p + n)
<1>1. Len(s) \in Nat
  BY LenProperties
<1>2. p + n = Len(s) => a = Ahead(s, p)
  BY DEF Ahead
<1>3. ASSUME p + n < Len(s)
      PROVE  /\ a \o b = Ahead(s, p) /\ b \in Seq(Tokens) /\ b # <<>>
             /\ Last(a) = s[p + n] /\ Head(b) = s[p + n + 1]
  <2>1. a \in Seq(Tokens) /\ Len(a) = n /\ a[n] = s[p + n]
    <3>1. p + 1 \in 1 .. Len(s) + 1 /\ p + n \in 0 .. Len(s)
      BY <1>1
    <3>2. a \in Seq(Tokens) /\ Len(a) = n /\ \A i \in 1 .. n : a[i] = s[(p + 1) + i - 1]
      <4>1. p + 1 <= p + n + 1 /\ (p + n) - (p + 1) + 1 = n
        OBVIOUS
      <4> QED BY <3>1, <4>1, <1>1, SubSeqProperties
    <3>3. n \in 1 .. n /\ (p + 1) + n - 1 = p + n
      OBVIOUS
    <3> QED BY <3>2, <3>3
  <2>2. b \in Seq(Tokens) /\ Len(b) = Len(s) - (p + n) /\ b[1] = s[p + n + 1]
    <3>1. p + n + 1 \in 1 .. Len(s) + 1 /\ Len(s) \in 0 .. Len(s)
      BY <1>1
    <3>2. 1 \in 1 .. Len(s) - (p + n) /\ (p + n + 1) + 1 - 1 = p + n + 1
      BY <1>1, <1>3
    <3> QED BY <3>1, <3>2, <1>1, SubSeqProperties DEF Ahead
  <2>3. b # <<>>
    <3>1. Len(b) # 0
      BY <1>1, <1>3, <2>2
    <3> QED BY <3>1, <2>2, EmptySeq
  <2>4. Last(a) = s[p + n]
    BY <2>1 DEF Last
  <2>5. Head(b) = s[p + n + 1]
    BY <2>2, <2>3, HeadTailProperties
  <2>6. a \o b = Ahead(s, p)
    <3>1. p + 1 \in 1 .. Len(s) + 1 /\ p + n \in p + 1 - 1 .. Len(s) /\ Len(s) \in p + n .. Len(s)
      BY <1>1
    <3> QED BY <3>1, <1>1, ConcatAdjacentSubSeq DEF Ahead
  <2> QED BY <2>1, <2>2, <2>3, <2>4, <2>5, <2>6
<1> QED BY <1>2, <1>3

(* A cut that the model does not excuse is one that the parsers do not see. *)
LEMMA CutIsFine ==
  ASSUME NEW r, r.valid \in BOOLEAN, NEW odd \in BOOLEAN, NEW p, p < Len(peer.stream),
         ~BadCut(r, odd, p)
  PROVE  ~odd /\ Fine(r, peer.stream[p], peer.stream[p + 1])
<1> DEFINE t == peer.stream[p]
           c == peer.stream[p + 1]
<1>1. /\ ~odd /\ ~CutBeforeLineEnd(r, c) /\ ~CutBeforeFolding(r, c)
      /\ t = "CR" => ~CutInBlankLine(r, c) /\ ~CutAfterData(r, c)
  BY DEF BadCut
<1> HIDE DEF t, c
<1>2. CASE r.valid
  <2>1. Section(r) = r.chunk.trailers
    BY <1>2 DEF Section
  <2>2. ASSUME r.chunk.st = "VALID", ~r.chunk.valid, r.chunk.size = 0
        PROVE  FineCut(r.chunk.trailers, t, c)
    <3>1. t = "CR" => c = "LF"
      BY <1>1, <1>2, <2>2 DEF CutInBlankLine, InChunk
    <3> QED BY <1>1, <2>1, <3>1 DEF CutBeforeLineEnd, CutBeforeFolding, FineCut
  <2>3. ASSUME r.chunk.st = "VALID", ~r.chunk.valid, r.chunk.size # 0,
               r.chunk.data = r.chunk.size, t = "CR"
        PROVE  ~(c = "CR" \/ (conf.strict /\ c = "LF"))
    BY <1>1, <1>2, <2>3 DEF CutAfterData, InChunk
  <2>4. FineChunkCut(r.chunk, t, c)
    BY <2>2, <2>3 DEF FineChunkCut
  <2> QED BY <1>1, <1>2, <2>4 DEF Fine, t, c
<1>3. CASE ~r.valid
  <2>1. Section(r) = r.headers
    BY <1>3 DEF Section
  <2>2. ASSUME r.line.st = "VALID" PROVE FineCut(r.headers, t, c)
    <3>1. t = "CR" => c = "LF"
      BY <1>1, <1>3, <2>2 DEF CutInBlankLine
    <3> QED BY <1>1, <2>1, <3>1 DEF CutBeforeLineEnd, CutBeforeFolding, FineCut
  <2>3. FineHeadCut(r, t, c)
    BY <2>2 DEF FineHeadCut
  <2> QED BY <1>1, <1>3, <2>3 DEF Fine, t, c
<1> QED BY <1>2, <1>3

(* Nothing has been read: the rest of the stream is the stream.           *)
LEMMA InitCut == Init => CutInv
<1> SUFFICES ASSUME Init PROVE CutInv
  OBVIOUS
<1> DEFINE s == peer.stream
<1>1. s \in Seq(Tokens) /\ pos = 0 /\ rx = NewRx /\ out = <<>>
  BY MessagesAssumption DEF Init
<1>2. ~Refused
  BY <1>1 DEF Refused
<1> HIDE DEF s
<1>3. CASE Done
  <2>1. Len(s) = 0
    BY <1>1, <1>2, <1>3 DEF Done, s
  <2>2. s = <<>>
    BY <1>1, <2>1, EmptySeq
  <2>3. out = Whole
    BY <1>1, <2>2, LoopOverNothing DEF Whole, s
  <2> QED BY <1>3, <2>3 DEF CutInv
<1>4. CASE ~Done
  <2>1. Ahead(s, pos) = s
    BY <1>1, SubSeqFull DEF Ahead
  <2>2. ReceiveLoop(rx, Ahead(peer.stream, pos), out).out = Whole
    BY <1>1, <2>1 DEF Whole, s
  <2> QED BY <1>4, <2>2 DEF CutInv
<1> QED BY <1>3, <1>4

(* A read at a cut that is not excused keeps it: the rest of the stream is the
   read and what follows it, and the loop splits there.                   *)
LEMMA ReadKeepsCut ==
  ASSUME ReceiverInv, CutInv, NEW n \in ReadSizes \union {Len(peer.stream) - pos}, Read(n)
  PROVE  CutInv'
<1> DEFINE s == peer.stream
           a == SubSeq(s, pos + 1, pos + n)
           b == Ahead(s, pos + n)
           l == ReceiveLoop(rx, a, out)
<1>1. /\ ~Done /\ pos + n <= Len(s)
      /\ rx' = l.rx /\ out' = l.out /\ excused' = (excused \/ BadCut(l.rx, l.odd, pos + n))
      /\ pos' = pos + n /\ conf' = conf /\ peer' = peer
  BY DEF Read
<1>2. /\ a \in Seq(Tokens) /\ a # <<>> /\ pos + n \in 0 .. Len(s)
      /\ l \in LoopStates(a, ~excused, Len(a)) /\ l.on = FALSE
  BY <1>1, ReadLoops
<1>3. s \in Seq(Tokens) /\ Len(s) \in Nat /\ pos \in Nat /\ pos <= Len(s)
  BY MessagesAssumption, LenProperties DEF ReceiverInv
<1>4. pos # Len(s) /\ ~Refused
  BY <1>1 DEF Done
<1>5. n \in Nat /\ 1 <= n
  <2>1. CASE n \in ReadSizes
    BY <2>1, ReadsAssumption
  <2>2. CASE n = Len(s) - pos
    BY <1>3, <1>4, <2>2
  <2> QED BY <2>1, <2>2
<1>6. /\ pos + n = Len(s) => a = Ahead(s, pos)
      /\ pos + n < Len(s) => /\ a \o b = Ahead(s, pos) /\ b \in Seq(Tokens) /\ b # <<>>
                             /\ Last(a) = s[pos + n] /\ Head(b) = s[pos + n + 1]
  BY <1>1, <1>3, <1>5, AheadParts
<1>7. Whole' = Whole
  <2>1. /\ UNCHANGED conf /\ UNCHANGED peer
    BY <1>1
  <2> QED BY <2>1, SameReceiveLoop, SameNewRx DEF Whole
<1>8. ReceiveLoop(rx, Ahead(peer.stream, pos), out)' = ReceiveLoop(l.rx, b, l.out)
  <2>1. /\ UNCHANGED conf
    BY <1>1
  <2> QED BY <1>1, <2>1, SameReceiveLoop DEF Ahead
<1>9. CASE excused'
  BY <1>9 DEF CutInv
<1>10. CASE ~excused'
  <2>1. ~excused /\ ~BadCut(l.rx, l.odd, pos + n)
    BY <1>1, <1>10
  <2>2. ReceiveLoop(rx, Ahead(s, pos), out).out = Whole
    BY <1>1, <2>1 DEF CutInv
  <2>3. (Done <=> Refused \/ pos = Len(s))' /\ (Refused' <=> Stopped(l.out))
    BY <1>1 DEF Done, Refused, Stopped
  <2>4. CASE pos + n = Len(s)
    <3>1. l.out = Whole
      BY <1>6, <2>2, <2>4
    <3>2. Done' /\ out' = Whole'
      BY <1>1, <1>7, <2>3, <2>4, <3>1
    <3> QED BY <3>2 DEF CutInv
  <2>5. CASE pos + n # Len(s)
    <3>1. pos + n < Len(s) /\ pos < Len(s)
      BY <1>1, <1>3, <1>5, <2>5
    <3>2. Able(rx, a, out) /\ conf \in Configs /\ ~Stopped(out)
      <4>1. ~Stuck(out)
        BY <1>4 DEF Refused, Stuck
      <4> QED BY <1>2, <1>4, <2>1, <3>1, <4>1 DEF Able, ReceiverInv, ReceiversFit, Refused, Stopped
    <3>3. LoopSplit(rx, a, b, out)
      BY <1>6, <3>1, <3>2, LoopSplits
    <3>4. ReceiveLoop(rx, a \o b, out).out = Whole
      BY <1>6, <2>2, <3>1
    <3>5. l.rx.valid \in BOOLEAN /\ l.odd \in BOOLEAN
      BY <1>2 DEF LoopStates, LoopRecords, Receivers
    <3>6. ~l.odd /\ Fine(l.rx, Last(a), Head(b))
      BY <1>6, <2>1, <3>1, <3>5, CutIsFine
    <3>7. CASE Stopped(l.out)
      <4>1. l.out = Whole
        BY <3>3, <3>4, <3>7 DEF LoopSplit
      <4>2. Done' /\ out' = Whole'
        BY <1>1, <1>7, <2>3, <3>7, <4>1
      <4> QED BY <4>2 DEF CutInv
    <3>8. CASE ~Stopped(l.out)
      <4>1. ReceiveLoop(l.rx, b, l.out).out = Whole
        BY <3>3, <3>4, <3>6, <3>8 DEF LoopSplit
      <4>2. ~Done'
        BY <1>1, <2>3, <2>5, <3>8
      <4>3. (ReceiveLoop(rx, Ahead(peer.stream, pos), out).out = Whole)'
        BY <1>7, <1>8, <4>1
      <4> QED BY <4>2, <4>3 DEF CutInv
    <3> QED BY <3>7, <3>8
  <2> QED BY <2>4, <2>5
<1> QED BY <1>9, <1>10

(* A step keeps it.                                                       *)
LEMMA NextCut == ReceiverInv /\ CutInv /\ [Next]_vars => CutInv'
<1> SUFFICES ASSUME ReceiverInv, CutInv, [Next]_vars PROVE CutInv'
  OBVIOUS
<1>1. CASE Next
  <2>1. PICK n \in ReadSizes \union {Len(peer.stream) - pos} : Read(n)
    BY <1>1 DEF Next
  <2> QED BY <2>1, ReadKeepsCut
<1>2. CASE UNCHANGED vars
  <2>1. UNCHANGED conf /\ UNCHANGED peer /\ UNCHANGED pos /\ UNCHANGED rx /\ UNCHANGED out /\ UNCHANGED excused
    BY <1>2 DEF vars
  <2>2. Whole' = Whole
    BY <2>1, SameReceiveLoop, SameNewRx DEF Whole
  <2>3. ReceiveLoop(rx, Ahead(peer.stream, pos), out)' = ReceiveLoop(rx, Ahead(peer.stream, pos), out)
    BY <2>1, SameReceiveLoop DEF Ahead
  <2>4. (Done' <=> Done) /\ out' = out /\ excused' = excused
    BY <2>1 DEF Done, Refused
  <2> QED BY <2>2, <2>3, <2>4 DEF CutInv
<1> QED BY <1>1, <1>2

(* THEOREM.  The receivers of request.hpp and response.hpp and the receive loops of
   http_server.hpp and http_client.hpp hand the same events to the application, with
   any limits and any configuration, for any stream of tokens and whatever the sizes of
   the reads that bring it, unless a read has ended at one of the cuts of BadCut. *)
THEOREM CutNeverMatters == Spec => []CutDoesNotMatter
<1>1. Init => ReceiverInv /\ CutInv
  BY InitReceiver, InitCut
<1>2. ReceiverInv /\ CutInv /\ [Next]_vars => ReceiverInv' /\ CutInv'
  BY NextReceiver, NextCut
<1>3. CutInv => CutDoesNotMatter
  BY DEF CutInv, CutDoesNotMatter
<1> QED BY <1>1, <1>2, <1>3, PTL DEF Spec
=============================================================================
