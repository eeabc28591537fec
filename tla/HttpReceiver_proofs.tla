------------------------ MODULE HttpReceiver_proofs ------------------------
(***************************************************************************)
(* Proofs about HttpReceiver, for any limits, configurations, messages,     *)
(* streams of tokens and reads.                                            *)
(*                                                                         *)
(* Every parse is a loop over a buffer, written as a function of the turn.  *)
(* Turns gives such a loop its states, and CountUp carries what holds of one *)
(* turn to the last.  Results then says of a parse what it returns: a state  *)
(* of the component, a buffer that is not longer, and a component within its *)
(* limits unless the parse has failed.  From the parses follows what receive *)
(* answers (Answer), from that what a turn of the receive loop does          *)
(* (LoopStates), and from that the inductive invariant ReceiverInv.         *)
(***************************************************************************)
EXTENDS HttpReceiver, SequenceTheorems, FiniteSetTheorems, WellFoundedInduction, TLAPS

(* What the receivers are made of.                                         *)
Text  == Tokens \cup {","}
Texts == Seq(Text)

RequestLines ==
  [st : RequestStates, method : Seq(Methods), uri : Nat, version : Versions \cup {"none"},
   ws : Nat, fail : BOOLEAN]
ResponseLines ==
  [st : ResponseStates, status : Nat, statusRead : BOOLEAN, reason : Nat,
   version : Versions \cup {"none"}, ws : Nat, fail : BOOLEAN]
FieldLines ==
  [st : HeaderStates, name : Seq(Alpha), value : Texts, length : Nat, ws : Nat]

-----------------------------------------------------------------------------
(* Numbers and sequences.                                                  *)

(* A set of numbers that is not empty has a least one.                    *)
LEMMA Least ==
  ASSUME NEW S \in SUBSET Nat, S # {}
  PROVE  \E m \in S : \A n \in S : m <= n
<1> DEFINE R == OpToRel(<, Nat)
<1>1. IsWellFoundedOn(R, Nat)
  BY NatLessThanWellFounded
<1>2. \A x, y \in Nat : <<x, y>> \in R <=> x < y
  BY DEF OpToRel
<1> HIDE DEF R
<1>3. PICK m \in S : \A n \in S : ~(<<n, m>> \in R)
  BY <1>1, WFMin
<1>4. \A n \in S : m <= n
  <2> TAKE n \in S
  <2>1. m \in Nat /\ n \in Nat
    OBVIOUS
  <2>2. ~(n < m)
    BY <1>2, <1>3, <2>1
  <2> QED BY <2>1, <2>2
<1> QED BY <1>4

(* Induction over the numbers up to n, for a set of those that are good.   *)
LEMMA CountUp ==
  ASSUME NEW n \in Nat, NEW Good, 0 \in Good,
         \A i \in 1 .. n : i - 1 \in Good => i \in Good
  PROVE  0 .. n \subseteq Good
<1> SUFFICES ASSUME (0 .. n) \ Good # {} PROVE FALSE
  OBVIOUS
<1>1. PICK m \in (0 .. n) \ Good : \A i \in (0 .. n) \ Good : m <= i
  <2>1. (0 .. n) \ Good \in SUBSET Nat
    OBVIOUS
  <2> QED BY <2>1, Least
<1>2. m \in 1 .. n /\ m - 1 \in 0 .. n /\ ~(m <= m - 1)
  BY <1>1
<1>3. m - 1 \in Good
  BY <1>1, <1>2
<1> QED BY <1>1, <1>2, <1>3

(* A loop that turns n times from s, its i-th turn from the states F[i] is *)
(* about to ones that hold after it: there is a function with its states.  *)
Leads(n, H, F) == \A i \in 1 .. n : \A x \in H[i - 1] : F[i][x] \in H[i]
Turned(g, n, H, F, s) ==
  /\ DOMAIN g = 0 .. n /\ g[0] = s
  /\ \A i \in 1 .. n : g[i] = F[i][g[i - 1]]
  /\ \A i \in 0 .. n : g[i] \in H[i]

(* Such a loop has its states: what the code keeps in variables, turn by turn. *)
LEMMA Turns ==
  ASSUME NEW n \in Nat, NEW H, NEW F, NEW s, s \in H[0], Leads(n, H, F)
  PROVE  \E g : Turned(g, n, H, F, s)
<1> USE DEF Leads
<1> DEFINE Run(g, m) == /\ DOMAIN g = 0 .. m /\ g[0] = s
                        /\ \A i \in 1 .. m : g[i] = F[i][g[i - 1]]
                        /\ \A i \in 0 .. m : g[i] \in H[i]
           Good == {m \in 0 .. n : \E g : Run(g, m)}
<1>1. 0 \in Good
  <2> DEFINE g == [i \in 0 .. 0 |-> s]
  <2>1. DOMAIN g = 0 .. 0 /\ g[0] = s
    OBVIOUS
  <2> HIDE DEF g
  <2>2. Run(g, 0)
    BY <2>1
  <2>3. \E x : Run(x, 0)
    BY <2>2
  <2> HIDE DEF Run
  <2> QED BY <2>3
<1>2. ASSUME NEW m \in 1 .. n, m - 1 \in Good
      PROVE  m \in Good
  <2>1. PICK f : Run(f, m - 1)
    BY <1>2
  <2> DEFINE g == [i \in 0 .. m |-> IF i = m THEN F[m][f[m - 1]] ELSE f[i]]
  <2>2. DOMAIN g = 0 .. m /\ g[m] = F[m][f[m - 1]] /\ \A i \in 0 .. m - 1 : g[i] = f[i]
    OBVIOUS
  <2>3. \A i \in 1 .. m : i - 1 \in 0 .. m - 1 /\ (i = m \/ i \in 1 .. m - 1)
    OBVIOUS
  <2>4. \A i \in 0 .. m : i = m \/ i \in 0 .. m - 1
    OBVIOUS
  <2>5. 0 \in 0 .. m - 1 /\ m - 1 \in 0 .. m - 1 /\ \A i \in 1 .. m - 1 : i \in 0 .. m - 1
    OBVIOUS
  <2> HIDE DEF g
  <2>6. g[0] = s
    BY <2>1, <2>2, <2>5
  <2>7. \A i \in 1 .. m : g[i] = F[i][g[i - 1]]
    <3> TAKE i \in 1 .. m
    <3>1. g[i - 1] = f[i - 1]
      BY <2>2, <2>3
    <3>2. CASE i = m
      BY <2>2, <3>1, <3>2
    <3>3. CASE i \in 1 .. m - 1
      BY <2>1, <2>2, <2>5, <3>1, <3>3
    <3> QED BY <2>3, <3>2, <3>3
  <2>8. \A i \in 0 .. m : g[i] \in H[i]
    <3>1. g[m] \in H[m]
      BY <2>1, <2>2, <2>5
    <3>2. \A i \in 0 .. m - 1 : g[i] \in H[i]
      BY <2>1, <2>2
    <3> QED BY <2>4, <3>1, <3>2
  <2>9. Run(g, m)
    BY <2>2, <2>6, <2>7, <2>8
  <2>10. m \in 0 .. n
    OBVIOUS
  <2>11. \E x : Run(x, m)
    BY <2>9
  <2> HIDE DEF Run
  <2> QED BY <2>10, <2>11
<1>3. n \in Good
  <2>1. \A i \in 1 .. n : i - 1 \in Good => i \in Good
    BY <1>2
  <2> HIDE DEF Good
  <2>2. 0 .. n \subseteq Good
    BY <1>1, <2>1, CountUp
  <2> QED BY <2>2
<1> QED BY <1>3 DEF Turned

(* A number of digits, as from_hex_string and from_dec_string read it.     *)
LEMMA ValueIsNat ==
  ASSUME NEW P, NEW ds \in Seq(P), \A i \in 1 .. Len(ds) : ds[i] \in Digits, NEW base \in Nat
  PROVE  Value(ds, base) \in Nat
<1> DEFINE n == Len(ds)
           Rec(f) == f = [i \in 0 .. n |-> IF i = 0 THEN 0
                                           ELSE f[i - 1] * base + DigitOf(ds[i])]
           upTo == CHOOSE f : Rec(f)
           H == [i \in 0 .. n |-> Nat]
           F == [i \in 1 .. n |-> [x \in Nat |-> x * base + DigitOf(ds[i])]]
           zero == 0
<1>1. Value(ds, base) = upTo[n]
  BY DEF Value
<1>2. n \in Nat
  BY LenProperties
<1>3. \A i \in 1 .. n : DigitOf(ds[i]) \in Nat
  BY DEF DigitOf, Digits
<1>4. \A i \in 1 .. n : \A x \in Nat : F[i][x] = x * base + DigitOf(ds[i])
  OBVIOUS
<1>5. \A a, b, c \in Nat : a * b + c \in Nat
  OBVIOUS
<1>6. \A i \in 1 .. n : \A x \in Nat : F[i][x] \in Nat
  BY <1>3, <1>4, <1>5
<1>7. \A i \in 0 .. n : H[i] = Nat
  OBVIOUS
<1>8. \A i \in 1 .. n : i \in 0 .. n /\ i - 1 \in 0 .. n /\ i # 0
  BY <1>2
<1>9. 0 \in 0 .. n /\ n \in 0 .. n
  BY <1>2
<1> HIDE DEF n, H, F, zero
<1>10. PICK g : Turned(g, n, H, F, zero)
  <2>1. zero \in H[0]
    BY <1>7, <1>9 DEF zero
  <2>2. Leads(n, H, F)
    BY <1>6, <1>7, <1>8 DEF Leads
  <2> QED BY <1>2, <2>1, <2>2, Turns
<1>11. Rec([i \in 0 .. n |-> g[i]])
  <2> DEFINE f == [i \in 0 .. n |-> g[i]]
             e == [i \in 0 .. n |-> IF i = 0 THEN 0 ELSE f[i - 1] * base + DigitOf(ds[i])]
  <2>1. ASSUME NEW i \in 0 .. n PROVE f[i] = e[i]
    <3>1. CASE i = 0
      BY <1>10, <3>1 DEF zero, Turned
    <3>2. CASE i # 0
      <4>1. i \in 1 .. n
        BY <1>2, <3>2
      <4>2. f[i] = F[i][g[i - 1]] /\ g[i - 1] \in Nat /\ f[i - 1] = g[i - 1]
        BY <4>1, <1>7, <1>8, <1>10 DEF Turned
      <4>3. f[i] = f[i - 1] * base + DigitOf(ds[i])
        BY <1>4, <4>1, <4>2
      <4>4. e[i] = f[i - 1] * base + DigitOf(ds[i])
        BY <3>2
      <4> QED BY <4>3, <4>4
    <3> QED BY <3>1, <3>2
  <2>2. f = e
    BY <2>1
  <2> QED BY <2>2
<1>12. Rec(upTo)
  BY <1>11
<1> HIDE DEF upTo
<1>13. \A i \in 0 .. n : upTo[i] = IF i = 0 THEN 0 ELSE upTo[i - 1] * base + DigitOf(ds[i])
  BY <1>12
<1> DEFINE Good == {i \in 0 .. n : upTo[i] \in Nat}
<1>14. 0 \in Good
  BY <1>9, <1>13
<1>15. \A i \in 1 .. n : i - 1 \in Good => i \in Good
  <2> TAKE i \in 1 .. n
  <2> HAVE i - 1 \in Good
  <2>1. upTo[i] = upTo[i - 1] * base + DigitOf(ds[i])
    BY <1>8, <1>13
  <2>2. upTo[i - 1] \in Nat /\ DigitOf(ds[i]) \in Nat
    BY <1>3
  <2> QED BY <1>5, <1>8, <2>1, <2>2
<1> HIDE DEF Good
<1>16. n \in Good
  BY <1>2, <1>9, <1>14, <1>15, CountUp
<1> QED BY <1>1, <1>16 DEF Good

-----------------------------------------------------------------------------
(* The parse of a buffer, character by character.                         *)

(* What is left of a buffer, when k of its tokens have been taken: no more than
   there was, and the same last token if there is one.                    *)
EndsAs(b, buf) == b # <<>> => Last(b) = Last(buf)
Left(buf) == {b \in Seq(Tokens) : Len(b) <= Len(buf) /\ EndsAs(b, buf)}

(* The whole of it is left to begin with.                                 *)
LEMMA AllLeft ==
  ASSUME NEW buf \in Seq(Tokens)
  PROVE  buf \in Left(buf) /\ <<>> \in Left(buf)
<1>1. Len(buf) \in Nat /\ <<>> \in Seq(Tokens) /\ Len(<<>>) = 0
  BY LenProperties, EmptySeq
<1>2. EndsAs(buf, buf) /\ EndsAs(<<>>, buf)
  BY DEF EndsAs
<1>3. \A e : e \in Seq(Tokens) /\ Len(e) = 0 /\ EndsAs(e, buf) => e \in Left(buf)
  BY <1>1 DEF Left
<1> QED BY <1>1, <1>2, <1>3 DEF Left

(* What is left after k tokens is shorter by k.                           *)
LEMMA LeftOf ==
  ASSUME NEW buf \in Seq(Tokens), NEW k \in Nat, k <= Len(buf)
  PROVE  /\ From(buf, k + 1) \in Left(buf)
         /\ Len(From(buf, k + 1)) = Len(buf) - k
         /\ k = Len(buf) => From(buf, k + 1) = <<>>
<1>1. Len(buf) \in Nat
  BY LenProperties
<1>2. CASE k = Len(buf)
  <2>1. From(buf, k + 1) = <<>>
    BY <1>1, <1>2, SubSeqEmpty DEF From
  <2>2. <<>> \in Left(buf) /\ Len(<<>>) = 0
    BY AllLeft, EmptySeq
  <2> QED BY <1>1, <1>2, <2>1, <2>2
<1>3. CASE k < Len(buf)
  <2>1. k + 1 \in 1 .. Len(buf) + 1 /\ Len(buf) \in k .. Len(buf)
    BY <1>1, <1>3
  <2>2. /\ From(buf, k + 1) \in Seq(Tokens)
        /\ Len(From(buf, k + 1)) = Len(buf) - k
        /\ \A i \in 1 .. Len(buf) - k : From(buf, k + 1)[i] = buf[k + i]
    <3>1. \A i \in k + 1 .. Len(buf) : buf[i] \in Tokens
      BY <1>1, ElementOfSeq
    <3>2. /\ From(buf, k + 1) \in Seq(Tokens)
          /\ Len(From(buf, k + 1)) = IF k + 1 <= Len(buf) THEN Len(buf) - (k + 1) + 1 ELSE 0
          /\ \A i \in 1 .. Len(buf) - (k + 1) + 1 : From(buf, k + 1)[i] = buf[k + 1 + i - 1]
      <4>1. k + 1 \in Int /\ Len(buf) \in Int
        BY <1>1
      <4> QED BY <3>1, <4>1, SubSeqProperties DEF From
    <3> QED BY <1>1, <1>3, <3>2
  <2>3. EndsAs(From(buf, k + 1), buf)
    <3>1. Len(buf) - k \in 1 .. Len(buf) - k /\ k + (Len(buf) - k) = Len(buf)
      BY <1>1, <1>3
    <3>2. From(buf, k + 1)[Len(buf) - k] = buf[Len(buf)]
      BY <2>2, <3>1
    <3> QED BY <2>2, <3>2 DEF EndsAs, Last
  <2> QED BY <1>1, <1>3, <2>2, <2>3 DEF Left
<1> QED BY <1>1, <1>2, <1>3

(* A token less.                                                          *)
LEMMA LeftByTail ==
  ASSUME NEW buf \in Seq(Tokens), buf # <<>>
  PROVE  /\ Tail(buf) \in Left(buf) /\ Len(Tail(buf)) = Len(buf) - 1
         /\ Head(buf) \in Tokens
<1>1. Tail(buf) \in Seq(Tokens) /\ Len(Tail(buf)) = Len(buf) - 1 /\ Head(buf) \in Tokens
  BY HeadTailProperties
<1>2. Len(buf) \in Nat /\ 1 <= Len(buf)
  BY LenProperties, EmptySeq
<1>3. Tail(buf) = From(buf, 1 + 1)
  BY TailIsSubSeq DEF From
<1>4. Tail(buf) \in Left(buf)
  BY <1>2, <1>3, LeftOf
<1> QED BY <1>1, <1>4

(* What is left of what is left is left.                                  *)
LEMMA LeftOfLeft ==
  ASSUME NEW buf \in Seq(Tokens), NEW b \in Left(buf), NEW c \in Left(b)
  PROVE  c \in Left(buf)
<1>1. \A x \in Seq(Tokens) : Len(x) \in Nat
  BY LenProperties
<1>2. \A x, y, z \in Nat : x <= y /\ y <= z => x <= z
  OBVIOUS
<1>3. b = <<>> => c = <<>>
  <2>1. b = <<>> => Len(c) <= 0
    BY EmptySeq DEF Left
  <2> QED BY <1>1, <2>1, EmptySeq DEF Left
<1>4. EndsAs(c, buf)
  BY <1>3 DEF Left, EndsAs
<1> QED BY <1>1, <1>2, <1>4 DEF Left

(* What a parse of states S may return for a buffer: it is ok, or bad, or  *)
(* has read all of it; unless it is bad the state is within its limits.    *)
Results(S, Fine, buf) ==
  {p \in [to : S, rest : Left(buf), ok : BOOLEAN, bad : BOOLEAN] :
     /\ p.ok => ~p.bad
     /\ ~p.ok /\ ~p.bad => p.rest = <<>>
     /\ ~p.bad => p.to \in Fine}

(* A character leads from x to a state of S, within the limits if x is and   *)
(* the character is taken.                                                 *)
CharRead(S, Fine, x, r) ==
  r \in [to : S, ok : BOOLEAN] /\ (x \in Fine /\ r.ok => r.to \in Fine)
Reads(line, S, Fine) ==
  \A x \in S, c \in Tokens : CharRead(S, Fine, x, ParseChar(line, x, c))

(* The states of the loop around parse_char for the characters of buf, turn by
   turn.                                                                  *)
ScanStart(s) == [to |-> s, ok |-> TRUE, used |-> 0, open |-> TRUE]
ScanHeld(S, Fine, i) ==
  {p \in [to : S, ok : BOOLEAN, used : Nat, open : BOOLEAN] :
     /\ p.used <= i /\ (p.open => p.used = i)
     /\ p.open \/ ~p.ok \/ p.to.st = "VALID"
     /\ p.ok => p.to \in Fine}
ScanRun(g, line, S, Fine, s, buf) ==
  /\ g[0] = ScanStart(s)
  /\ \A i \in 1 .. Len(buf) : g[i] = Feed(line, g[i - 1], buf[i])
  /\ \A i \in 0 .. Len(buf) : g[i] \in ScanHeld(S, Fine, i)
  /\ Scan(line, s, buf) = Scanned(g[Len(buf)], buf)

(* The loop has such states, when each character leads to a state of S.     *)
LEMMA ScanRuns ==
  ASSUME NEW line, NEW S, NEW Fine, NEW s \in S, s \in Fine, NEW buf \in Seq(Tokens),
         Reads(line, S, Fine)
  PROVE  \E g : ScanRun(g, line, S, Fine, s, buf)
<1> DEFINE n == Len(buf)
           start == ScanStart(s)
           Rec(f) == f = [i \in 0 .. n |-> IF i = 0 THEN {start}
                                           ELSE {Feed(line, p, buf[i]) : p \in f[i - 1]}]
           after == CHOOSE f : Rec(f)
           Held(i) == ScanHeld(S, Fine, i)
           H == [i \in 0 .. n |-> Held(i)]
           F == [i \in 1 .. n |-> [p \in Held(i - 1) |-> Feed(line, p, buf[i])]]
<1> USE DEF ScanStart, ScanHeld
<1>1. Scan(line, s, buf) = Scanned(Element(after[n]), buf)
  BY DEF Scan
<1>2. n \in Nat
  BY LenProperties
<1>3. \A i \in 1 .. n : buf[i] \in Tokens
  BY ElementOfSeq
<1>4. \A i \in 1 .. n : i \in 0 .. n /\ i - 1 \in 0 .. n /\ i # 0 /\ i - 1 \in Nat /\ i \in Nat
  BY <1>2
<1>5. 0 \in 0 .. n /\ n \in 0 .. n
  BY <1>2
<1>6. ASSUME NEW i \in 1 .. n, NEW p \in Held(i - 1)
      PROVE  Feed(line, p, buf[i]) \in Held(i)
  <2> DEFINE x == ParseChar(line, p.to, buf[i])
  <2>1. /\ p \in [to : S, ok : BOOLEAN, used : Nat, open : BOOLEAN]
        /\ p.used <= i - 1 /\ (p.open => p.used = i - 1)
        /\ p.open \/ ~p.ok \/ p.to.st = "VALID"
        /\ p.ok => p.to \in Fine
    OBVIOUS
  <2>2. x \in [to : S, ok : BOOLEAN] /\ (p.to \in Fine /\ x.ok => x.to \in Fine)
    BY <1>3, <2>1 DEF Reads, CharRead
  <2>3. CASE p.open /\ p.ok /\ GoesOn(line, p.to, buf[i])
    <3> HIDE DEF x
    <3> DEFINE q == [to |-> x.to, ok |-> x.ok, used |-> p.used + 1, open |-> TRUE]
    <3>1. Feed(line, p, buf[i]) = q
      BY <2>3 DEF Feed, Fed, x
    <3>2. q \in [to : S, ok : BOOLEAN, used : Nat, open : BOOLEAN] /\ q.used = i
          /\ (q.ok => q.to \in Fine) /\ q.open = TRUE
      BY <1>4, <2>1, <2>2, <2>3
    <3> HIDE DEF q
    <3> QED BY <1>4, <3>1, <3>2
  <2>4. CASE ~(p.open /\ p.ok /\ GoesOn(line, p.to, buf[i]))
    <3> DEFINE q == [p EXCEPT !.open = FALSE]
    <3>1. Feed(line, p, buf[i]) = q
      BY <2>4 DEF Feed
    <3>2. p.open \/ ~p.ok \/ p.to.st = "VALID"
      BY <2>1
    <3>3. ~p.ok \/ p.to.st = "VALID"
      BY <2>4, <3>2 DEF GoesOn
    <3>4. /\ q.to = p.to /\ q.ok = p.ok /\ q.used = p.used /\ q.open = FALSE
          /\ q \in [to : S, ok : BOOLEAN, used : Nat, open : BOOLEAN]
      BY <2>1
    <3>5. q.used <= i
      BY <1>4, <2>1, <3>4
    <3> HIDE DEF q
    <3> QED BY <2>1, <3>1, <3>3, <3>4, <3>5
  <2> QED BY <2>3, <2>4
<1>7. start \in Held(0)
  <2>1. start \in [to : S, ok : BOOLEAN, used : Nat, open : BOOLEAN]
    OBVIOUS
  <2> QED BY <2>1
<1> HIDE DEF n, start, Held, ScanStart, ScanHeld
<1>8. /\ \A i \in 0 .. n : H[i] = Held(i)
      /\ \A i \in 1 .. n : \A p \in Held(i - 1) : F[i][p] = Feed(line, p, buf[i])
  OBVIOUS
<1> HIDE DEF H, F
<1>9. PICK g : Turned(g, n, H, F, start)
  <2>1. start \in H[0]
    BY <1>5, <1>7, <1>8
  <2>2. Leads(n, H, F)
    BY <1>4, <1>6, <1>8 DEF Leads
  <2> QED BY <1>2, <2>1, <2>2, Turns
<1>10. /\ g[0] = start
       /\ \A i \in 1 .. n : g[i] = Feed(line, g[i - 1], buf[i])
       /\ \A i \in 0 .. n : g[i] \in Held(i)
  BY <1>4, <1>8, <1>9 DEF Turned
<1>11. Rec([i \in 0 .. n |-> {g[i]}])
  <2> DEFINE f == [i \in 0 .. n |-> {g[i]}]
             e == [i \in 0 .. n |-> IF i = 0 THEN {start}
                                    ELSE {Feed(line, p, buf[i]) : p \in f[i - 1]}]
  <2>1. ASSUME NEW i \in 0 .. n PROVE f[i] = e[i]
    <3>1. CASE i = 0
      BY <1>10, <3>1
    <3>2. CASE i # 0
      <4>1. i \in 1 .. n
        BY <1>2, <3>2
      <4>2. f[i] = {Feed(line, g[i - 1], buf[i])} /\ f[i - 1] = {g[i - 1]}
        BY <4>1, <1>4, <1>10
      <4>3. e[i] = {Feed(line, p, buf[i]) : p \in f[i - 1]}
        BY <3>2
      <4> HIDE DEF f, e
      <4> QED BY <4>2, <4>3
    <3> QED BY <3>1, <3>2
  <2>2. f = e
    BY <2>1
  <2> QED BY <2>2
<1>12. Rec(after)
  BY <1>11
<1> HIDE DEF after
<1>13. \A i \in 0 .. n : after[i] = IF i = 0 THEN {start}
                                    ELSE {Feed(line, p, buf[i]) : p \in after[i - 1]}
  BY <1>12
<1> DEFINE Good == {i \in 0 .. n : after[i] = {g[i]}}
<1>14. 0 \in Good
  BY <1>5, <1>10, <1>13
<1>15. \A i \in 1 .. n : i - 1 \in Good => i \in Good
  <2> TAKE i \in 1 .. n
  <2> HAVE i - 1 \in Good
  <2>1. after[i] = {Feed(line, p, buf[i]) : p \in after[i - 1]}
    BY <1>4, <1>13
  <2>2. after[i - 1] = {g[i - 1]}
    OBVIOUS
  <2> QED BY <1>4, <1>10, <2>1, <2>2
<1> HIDE DEF Good
<1>16. n \in Good
  BY <1>2, <1>5, <1>14, <1>15, CountUp
<1>17. after[n] = {g[n]}
  BY <1>5, <1>16 DEF Good
<1>18. Scan(line, s, buf) = Scanned(g[n], buf)
  BY <1>1, <1>17 DEF Element
<1> QED BY <1>10, <1>18 DEF ScanRun, n, start, Held

(* What the loop leaves: its state is one of S, within the limits unless the last
   character was refused, and it is ok when the line is complete.         *)
LEMMA ScanResults ==
  ASSUME NEW line, NEW S, NEW Fine, NEW s \in S, s \in Fine, NEW buf \in Seq(Tokens),
         Reads(line, S, Fine)
  PROVE  /\ Scan(line, s, buf) \in Results(S, Fine, buf)
         /\ Scan(line, s, buf).ok <=> ~Scan(line, s, buf).bad /\ Scan(line, s, buf).to.st = "VALID"
<1> DEFINE n == Len(buf)
<1>1. PICK g : ScanRun(g, line, S, Fine, s, buf)
  BY ScanRuns
<1>2. n \in Nat /\ n \in 0 .. n
  BY LenProperties
<1>3. PICK e : e = g[n]
  OBVIOUS
<1>4. /\ e \in [to : S, ok : BOOLEAN, used : Nat, open : BOOLEAN]
      /\ e.used <= n /\ (e.open => e.used = n)
      /\ e.open \/ ~e.ok \/ e.to.st = "VALID"
      /\ e.ok => e.to \in Fine
  BY <1>1, <1>2, <1>3 DEF ScanRun, ScanHeld
<1> DEFINE rest == From(buf, e.used + 1)
           v == [to |-> e.to, rest |-> rest, ok |-> e.ok /\ e.to.st = "VALID", bad |-> ~e.ok]
<1>5. Scan(line, s, buf) = v
  BY <1>1, <1>3 DEF ScanRun, Scanned, Parsed
<1>6. rest \in Left(buf) /\ (e.used = n => rest = <<>>)
  BY <1>2, <1>4, LeftOf
<1> HIDE DEF rest
<1>7. /\ v.ok \in BOOLEAN /\ v.bad \in BOOLEAN
      /\ v.ok <=> e.ok /\ e.to.st = "VALID"
      /\ v.bad <=> ~e.ok
      /\ v.to = e.to
       /\ ~v.ok /\ ~v.bad => rest = <<>>
  BY <1>4, <1>6
<1>8. v \in [to : S, rest : Left(buf), ok : BOOLEAN, bad : BOOLEAN]
  BY <1>4, <1>6, <1>7
<1>9. v \in Results(S, Fine, buf)
  BY <1>4, <1>7, <1>8 DEF Results
<1> QED BY <1>5, <1>7, <1>9

-----------------------------------------------------------------------------
(* parse_char of each line: from any state of the line to one, and within the
   limits as long as the characters are taken.                            *)

FineRequestLines ==
  {q \in RequestLines : /\ q.ws <= MaxWs /\ q.fail = FALSE
                        /\ Len(q.method) <= MaxMethod /\ q.uri <= MaxUri}
FineResponseLines ==
  {q \in ResponseLines : q.ws <= MaxWs /\ q.fail = FALSE /\ q.reason <= MaxReason}
FineFieldLines(fit) == {f \in FieldLines : fit => f.length <= MaxLine}

(* The limits of the start line.                                          *)
LEMMA LineLimits ==
  /\ MaxMethod \in Nat /\ 1 <= MaxMethod /\ MaxUri \in Nat /\ MaxReason \in Nat
  /\ MaxWs \in Nat /\ 1 <= MaxWs
BY LimitAssumption

(* The limits of the header lines.                                        *)
LEMMA FieldLimits ==
  /\ MaxLine \in Nat /\ MaxStatus \in Nat /\ MaxDigits \in Nat
  /\ MaxHeaders \in Nat /\ MaxHeaderLength \in Nat
BY LimitAssumption

(* The limits of a body.                                                  *)
LEMMA BodyLimits ==
  MaxContent \in Nat /\ MaxChunk \in Nat /\ MaxBody \in Nat /\ 1 <= MaxBody
BY LimitAssumption

(* A character that is taken.                                             *)
LEMMA OkRead ==
  ASSUME NEW S, NEW Fine, NEW x, NEW y \in S, x \in Fine => y \in Fine
  PROVE  CharRead(S, Fine, x, Ok(y))
BY DEF CharRead, Ok

(* A character that is not.                                               *)
LEMMA BadRead ==
  ASSUME NEW S, NEW Fine, NEW x, NEW y \in S
  PROVE  CharRead(S, Fine, x, Bad(y))
BY DEF CharRead, Bad

(* A character that is taken within a limit.                              *)
LEMMA WithinRead ==
  ASSUME NEW S, NEW Fine, NEW x, NEW y, NEW holds \in BOOLEAN, NEW error,
         y \in S, [y EXCEPT !.st = error] \in S, x \in Fine /\ holds => y \in Fine
  PROVE  CharRead(S, Fine, x, Within(y, holds, error))
<1>1. CASE holds
  BY <1>1, OkRead DEF Within
<1>2. CASE ~holds
  BY <1>2, BadRead DEF Within
<1> QED BY <1>1, <1>2

(* A word that grows by a character.                                      *)
LEMMA AppendTo ==
  ASSUME NEW S, NEW w \in Seq(S), NEW e \in S
  PROVE  Append(w, e) \in Seq(S) /\ Len(Append(w, e)) = Len(w) + 1
BY AppendProperties

(* request_line::parse_char.                                              *)
LEMMA RequestLineReads == Reads("request", RequestLines, FineRequestLines)
<1> SUFFICES ASSUME NEW q \in RequestLines, NEW c \in Tokens
             PROVE  CharRead(RequestLines, FineRequestLines, q, RequestChar(q, c))
  BY DEF Reads, ParseChar
<1> DEFINE S == RequestLines
           Fine == FineRequestLines
<1>1. /\ q.st \in RequestStates /\ q.method \in Seq(Methods) /\ q.uri \in Nat
      /\ q.version \in Versions \cup {"none"} /\ q.ws \in Nat /\ q.fail \in BOOLEAN
      /\ Len(q.method) \in Nat
  BY LenProperties DEF RequestLines
<1>2. \A st \in RequestStates : [q EXCEPT !.st = st] \in S
  BY DEF RequestLines
<1>3. \A st \in RequestStates : q \in Fine => [q EXCEPT !.st = st] \in Fine
  BY DEF FineRequestLines, RequestLines
<1>16. q.ws < MaxWs <=> ~(q.ws >= MaxWs)
  <2>1. \A a, b \in Nat : a < b <=> ~(a >= b)
    OBVIOUS
  <2>2. q.ws \in Nat
    BY <1>1
  <2> QED BY <2>1, <2>2, LineLimits
<1>4. CharRead(S, Fine, q, Bad(q))
  BY BadRead
<1>5. CharRead(S, Fine, q, Spaced(q))
  <2> DEFINE y == [q EXCEPT !.ws = @ + 1]
  <2>1. y \in S /\ y.ws = q.ws + 1
    BY <1>1 DEF RequestLines
  <2>2. [y EXCEPT !.st = "ERROR_WS"] \in S
    BY <2>1 DEF RequestLines, RequestStates
  <2>3. q \in Fine /\ q.ws < MaxWs => y \in Fine
    BY <1>1, <2>1, LineLimits DEF FineRequestLines, RequestLines
  <2>4. (q.ws < MaxWs) \in BOOLEAN
    OBVIOUS
  <2> HIDE DEF y
  <2>5. CharRead(S, Fine, q, Within(y, q.ws < MaxWs, "ERROR_WS"))
    BY <2>1, <2>2, <2>3, <2>4, WithinRead
  <2> QED BY <2>5 DEF Spaced, y
<1>6. CASE q.st = "METHOD" /\ c \in Methods
  <2> DEFINE y == [q EXCEPT !.method = Append(@, c)]
  <2>1. Append(q.method, c) \in Seq(Methods) /\ Len(Append(q.method, c)) = Len(q.method) + 1
    BY <1>1, <1>6, AppendTo
  <2>2. y \in S /\ y.method = Append(q.method, c)
    BY <2>1 DEF RequestLines
  <2>3. [y EXCEPT !.st = "ERROR_METHOD_LENGTH"] \in S
    BY <2>2 DEF RequestLines, RequestStates
  <2>4. q \in Fine /\ Len(q.method) < MaxMethod => y \in Fine
    <3>1. y.ws = q.ws /\ y.uri = q.uri /\ y.fail = q.fail
      BY DEF RequestLines
    <3> HIDE DEF y
    <3> QED BY <1>1, <2>1, <2>2, <3>1, LineLimits DEF FineRequestLines
  <2>5. (Len(q.method) < MaxMethod) \in BOOLEAN
    OBVIOUS
  <2>6. RequestChar(q, c) = Within(y, Len(q.method) < MaxMethod, "ERROR_METHOD_LENGTH")
    BY <1>6 DEF RequestChar, Methods
  <2> HIDE DEF y
  <2> QED BY <2>2, <2>3, <2>4, <2>5, <2>6, WithinRead
<1>7. CASE q.st = "METHOD" /\ c = " " /\ q.method # <<>>
  <2> DEFINE y == [q EXCEPT !.ws = 1, !.st = "URI"]
  <2>1. y \in S /\ (q \in Fine => y \in Fine)
    BY <1>1, LineLimits DEF FineRequestLines, RequestLines, RequestStates
  <2>2. RequestChar(q, c) = Ok(y)
    BY <1>7 DEF RequestChar, Methods
  <2> HIDE DEF y
  <2> QED BY <2>1, <2>2, OkRead
<1>8. CASE q.st = "URI" /\ c = " " /\ (q.uri = 0 \/ q.ws >= MaxWs)
  <2>1. ~(q.uri # 0 /\ q.ws < MaxWs)
    BY <1>1, <1>8, <1>16
  <2>2. RequestChar(q, c) = Spaced(q)
    BY <1>8, <2>1 DEF RequestChar
  <2> QED BY <1>5, <2>2
<1>9. CASE q.st = "URI" /\ c = " " /\ q.uri # 0 /\ q.ws < MaxWs
  <2> DEFINE y == [q EXCEPT !.ws = 1, !.st = "HTTP_H"]
  <2>1. y \in S /\ (q \in Fine => y \in Fine)
    BY <1>1, LineLimits DEF FineRequestLines, RequestLines, RequestStates
  <2>2. ~(q.uri = 0 \/ q.ws >= MaxWs)
    BY <1>1, <1>9, <1>16
  <2>3. RequestChar(q, c) = Ok(y)
    BY <1>9, <2>2 DEF RequestChar
  <2> HIDE DEF y
  <2> QED BY <2>1, <2>3, OkRead
<1>10. CASE q.st = "URI" /\ c \notin Eol \cup {" "}
  <2> DEFINE y == [q EXCEPT !.uri = @ + 1]
  <2>1. y \in S /\ [y EXCEPT !.st = "ERROR_URI_LENGTH"] \in S
    <3>1. y \in S
      BY <1>1 DEF RequestLines
    <3>2. "ERROR_URI_LENGTH" \in RequestStates
      BY DEF RequestStates
    <3> HIDE DEF y
    <3>3. [y EXCEPT !.st = "ERROR_URI_LENGTH"] \in S
      BY <3>1, <3>2 DEF RequestLines
    <3> QED BY <3>1, <3>3
  <2>2. q \in Fine /\ q.uri < MaxUri => y \in Fine
    BY <1>1, LineLimits DEF FineRequestLines, RequestLines
  <2>3. (q.uri < MaxUri) \in BOOLEAN
    OBVIOUS
  <2>4. RequestChar(q, c) = Within(y, q.uri < MaxUri, "ERROR_URI_LENGTH")
    BY <1>10 DEF RequestChar
  <2> HIDE DEF y
  <2> QED BY <2>1, <2>2, <2>3, <2>4, WithinRead
<1>11. CASE q.st = "HTTP_H" /\ c = " "
  <2>1. RequestChar(q, c) = Spaced(q)
    BY <1>11 DEF RequestChar, Versions
  <2> QED BY <1>5, <2>1
<1>12. CASE q.st = "HTTP_H" /\ c \in Versions
  <2> DEFINE y == [q EXCEPT !.version = c, !.st = "CR"]
  <2>1. y \in S /\ (q \in Fine => y \in Fine)
    BY <1>1, <1>12, LineLimits DEF FineRequestLines, RequestLines, RequestStates
  <2>2. RequestChar(q, c) = Ok(y)
    BY <1>12 DEF RequestChar, Versions
  <2> HIDE DEF y
  <2> QED BY <2>1, <2>2, OkRead
<1>13. CASE q.st = "CR"
  <2>1. RequestChar(q, c) = LineEnd(q, c)
    BY <1>13 DEF RequestChar
  <2>2. "LF" \in RequestStates /\ "VALID" \in RequestStates /\ "ERROR_CRLF" \in RequestStates
    BY DEF RequestStates
  <2>3. CASE c = "CR"
    <3>1. LineEnd(q, c) = Ok([q EXCEPT !.st = "LF"])
      BY <2>3 DEF LineEnd, GoTo
    <3> QED BY <1>2, <1>3, <2>1, <2>2, <3>1, OkRead
  <2>4. CASE c = "LF" /\ ~conf.strict
    <3>1. LineEnd(q, c) = Ok([q EXCEPT !.st = "VALID"])
      BY <2>4 DEF LineEnd, GoTo
    <3> QED BY <1>2, <1>3, <2>1, <2>2, <3>1, OkRead
  <2>5. CASE ~(c = "CR") /\ ~(c = "LF" /\ ~conf.strict)
    <3>1. LineEnd(q, c) = Bad([q EXCEPT !.st = "ERROR_CRLF"])
      BY <2>5 DEF LineEnd
    <3> QED BY <1>2, <2>1, <2>2, <3>1, BadRead
  <2> QED BY <2>3, <2>4, <2>5
<1>14. CASE q.st = "LF" /\ c = "LF"
  <2>1. RequestChar(q, c) = Ok([q EXCEPT !.st = "VALID"])
    BY <1>14 DEF RequestChar, GoTo
  <2> QED BY <1>2, <1>3, <2>1, OkRead DEF RequestStates
<1>15. CASE /\ ~(q.st = "METHOD" /\ c \in Methods)
            /\ ~(q.st = "METHOD" /\ c = " " /\ q.method # <<>>)
            /\ ~(q.st = "URI" /\ c = " " /\ (q.uri = 0 \/ q.ws >= MaxWs))
            /\ ~(q.st = "URI" /\ c = " " /\ q.uri # 0 /\ q.ws < MaxWs)
            /\ ~(q.st = "URI" /\ c \notin Eol \cup {" "})
            /\ ~(q.st = "HTTP_H" /\ c = " ") /\ ~(q.st = "HTTP_H" /\ c \in Versions)
            /\ ~(q.st = "CR") /\ ~(q.st = "LF" /\ c = "LF")
  <2>1. RequestChar(q, c) = Bad(q)
    BY <1>15 DEF RequestChar
  <2> QED BY <1>4, <2>1
<1> QED BY <1>6, <1>7, <1>8, <1>9, <1>10, <1>11, <1>12, <1>13, <1>14, <1>15

(* response_line::parse_char.                                             *)
LEMMA ResponseLineReads == Reads("response", ResponseLines, FineResponseLines)
<1> SUFFICES ASSUME NEW q \in ResponseLines, NEW c \in Tokens
             PROVE  CharRead(ResponseLines, FineResponseLines, q, ResponseChar(q, c))
  BY DEF Reads, ParseChar
<1> DEFINE S == ResponseLines
           Fine == FineResponseLines
<1>1. /\ q.st \in ResponseStates /\ q.status \in Nat /\ q.statusRead \in BOOLEAN
      /\ q.reason \in Nat /\ q.version \in Versions \cup {"none"} /\ q.ws \in Nat
      /\ q.fail \in BOOLEAN
  BY DEF ResponseLines
<1>2. \A st \in ResponseStates : [q EXCEPT !.st = st] \in S
  BY DEF ResponseLines
<1>3. \A st \in ResponseStates : q \in Fine => [q EXCEPT !.st = st] \in Fine
  BY DEF FineResponseLines, ResponseLines
<1>4. CharRead(S, Fine, q, Bad(q))
  BY BadRead
<1>5. CharRead(S, Fine, q, Spaced(q))
  <2> DEFINE y == [q EXCEPT !.ws = @ + 1]
  <2>1. y \in S /\ y.ws = q.ws + 1
    BY <1>1 DEF ResponseLines
  <2>2. [y EXCEPT !.st = "ERROR_WS"] \in S
    BY <2>1 DEF ResponseLines, ResponseStates
  <2>3. q \in Fine /\ q.ws < MaxWs => y \in Fine
    BY <1>1, <2>1, LineLimits DEF FineResponseLines, ResponseLines
  <2>4. (q.ws < MaxWs) \in BOOLEAN
    OBVIOUS
  <2> HIDE DEF y
  <2>5. CharRead(S, Fine, q, Within(y, q.ws < MaxWs, "ERROR_WS"))
    BY <2>1, <2>2, <2>3, <2>4, WithinRead
  <2> QED BY <2>5 DEF Spaced, y
<1>6. CASE q.st = "HTTP_H" /\ c = " "
  <2>1. ResponseChar(q, c) = Spaced(q)
    BY <1>6 DEF ResponseChar, Versions
  <2> QED BY <1>5, <2>1
<1>7. CASE q.st = "HTTP_H" /\ c \in Versions
  <2> DEFINE y == [q EXCEPT !.version = c, !.st = "HTTP_WS"]
  <2>1. y \in S /\ (q \in Fine => y \in Fine)
    BY <1>1, <1>7, LineLimits DEF FineResponseLines, ResponseLines, ResponseStates
  <2>2. ResponseChar(q, c) = Ok(y)
    BY <1>7 DEF ResponseChar, Versions
  <2> HIDE DEF y
  <2> QED BY <2>1, <2>2, OkRead
<1>8. CASE q.st = "HTTP_WS" /\ c = " "
  <2> DEFINE y == [q EXCEPT !.ws = 1, !.st = "STATUS"]
  <2>1. y \in S /\ (q \in Fine => y \in Fine)
    BY <1>1, LineLimits DEF FineResponseLines, ResponseLines, ResponseStates
  <2>2. ResponseChar(q, c) = Ok(y)
    BY <1>8 DEF ResponseChar
  <2> HIDE DEF y
  <2> QED BY <2>1, <2>2, OkRead
<1>9. CASE q.st = "STATUS" /\ c \in Digits
  <2> DEFINE n == q.status * 10 + DigitOf(c)
             y == [q EXCEPT !.status = n, !.statusRead = TRUE]
  <2>1. n \in Nat
    <3>1. DigitOf(c) \in Nat
      BY <1>9 DEF DigitOf, Digits
    <3>2. \A a, b \in Nat : a * 10 + b \in Nat
      OBVIOUS
    <3> QED BY <1>1, <3>1, <3>2
  <2>2. ResponseChar(q, c) = Within(y, n <= MaxStatus, "ERROR_STATUS_VALUE")
    BY <1>9 DEF ResponseChar, Digits
  <2> HIDE DEF n
  <2>3. y \in S /\ (q \in Fine => y \in Fine)
    BY <1>1, <2>1 DEF FineResponseLines, ResponseLines
  <2>4. [y EXCEPT !.st = "ERROR_STATUS_VALUE"] \in S
    BY <2>3 DEF ResponseLines, ResponseStates
  <2>5. (n <= MaxStatus) \in BOOLEAN
    OBVIOUS
  <2> HIDE DEF y
  <2> QED BY <2>2, <2>3, <2>4, <2>5, WithinRead
<1>10. CASE q.st = "STATUS" /\ c = " " /\ q.statusRead
  <2> DEFINE y == [q EXCEPT !.ws = 1, !.st = "REASON"]
  <2>1. y \in S /\ (q \in Fine => y \in Fine)
    BY <1>1, LineLimits DEF FineResponseLines, ResponseLines, ResponseStates
  <2>2. ResponseChar(q, c) = Ok(y)
    BY <1>10 DEF ResponseChar, Digits
  <2> HIDE DEF y
  <2> QED BY <2>1, <2>2, OkRead
<1>11. CASE q.st = "STATUS" /\ c = " " /\ ~q.statusRead
  <2>1. ResponseChar(q, c) = Spaced(q)
    BY <1>11 DEF ResponseChar, Digits
  <2> QED BY <1>5, <2>1
<1>12. CASE q.st = "REASON" /\ c = " " /\ q.reason = 0
  <2>1. ResponseChar(q, c) = Spaced(q)
    BY <1>12 DEF ResponseChar, Eol
  <2> QED BY <1>5, <2>1
<1>13. CASE q.st = "REASON" /\ c \notin Eol /\ ~(c = " " /\ q.reason = 0)
  <2> DEFINE y == [q EXCEPT !.reason = @ + 1]
  <2>1. y \in S /\ [y EXCEPT !.st = "ERROR_REASON_LENGTH"] \in S
    <3>1. y \in S
      BY <1>1 DEF ResponseLines
    <3>2. "ERROR_REASON_LENGTH" \in ResponseStates
      BY DEF ResponseStates
    <3> HIDE DEF y
    <3>3. [y EXCEPT !.st = "ERROR_REASON_LENGTH"] \in S
      BY <3>1, <3>2 DEF ResponseLines
    <3> QED BY <3>1, <3>3
  <2>2. q \in Fine /\ q.reason < MaxReason => y \in Fine
    BY <1>1, LineLimits DEF FineResponseLines, ResponseLines
  <2>3. (q.reason < MaxReason) \in BOOLEAN
    OBVIOUS
  <2>4. ResponseChar(q, c) = Within(y, q.reason < MaxReason, "ERROR_REASON_LENGTH")
    BY <1>13 DEF ResponseChar
  <2> HIDE DEF y
  <2> QED BY <2>1, <2>2, <2>3, <2>4, WithinRead
<1>14. CASE q.st \in {"CR", "LF"} \/ (q.st = "REASON" /\ c \in Eol)
  <2>1. ResponseChar(q, c) = ResponseLineEnd(q, c)
    BY <1>14 DEF ResponseChar, Eol
  <2>2. "LF" \in ResponseStates /\ "VALID" \in ResponseStates /\ "ERROR_CRLF" \in ResponseStates
    BY DEF ResponseStates
  <2>3. CASE q.st # "LF" /\ c = "CR"
    <3>1. ResponseLineEnd(q, c) = Ok([q EXCEPT !.st = "LF"])
      BY <2>3 DEF ResponseLineEnd, LineEnd, GoTo
    <3> QED BY <1>2, <1>3, <2>1, <2>2, <3>1, OkRead
  <2>4. CASE q.st # "LF" /\ c = "LF" /\ ~conf.strict
    <3>1. ResponseLineEnd(q, c) = Ok([q EXCEPT !.st = "VALID"])
      BY <2>4 DEF ResponseLineEnd, LineEnd, GoTo
    <3> QED BY <1>2, <1>3, <2>1, <2>2, <3>1, OkRead
  <2>5. CASE q.st # "LF" /\ ~(c = "CR") /\ ~(c = "LF" /\ ~conf.strict)
    <3>1. ResponseLineEnd(q, c) = Bad([q EXCEPT !.st = "ERROR_CRLF"])
      BY <2>5 DEF ResponseLineEnd, LineEnd
    <3> QED BY <1>2, <2>1, <2>2, <3>1, BadRead
  <2>6. CASE q.st = "LF" /\ c = "LF"
    <3>1. ResponseLineEnd(q, c) = Ok([q EXCEPT !.st = "VALID"])
      BY <2>6 DEF ResponseLineEnd, GoTo
    <3> QED BY <1>2, <1>3, <2>1, <2>2, <3>1, OkRead
  <2>7. CASE q.st = "LF" /\ c # "LF"
    <3>1. ResponseLineEnd(q, c) = Bad(q)
      BY <2>7 DEF ResponseLineEnd
    <3> QED BY <1>4, <2>1, <3>1
  <2> QED BY <2>3, <2>4, <2>5, <2>6, <2>7
<1>15. CASE /\ ~(q.st = "HTTP_H" /\ c = " ") /\ ~(q.st = "HTTP_H" /\ c \in Versions)
            /\ ~(q.st = "HTTP_WS" /\ c = " ") /\ ~(q.st = "STATUS" /\ c \in Digits)
            /\ ~(q.st = "STATUS" /\ c = " " /\ q.statusRead)
            /\ ~(q.st = "STATUS" /\ c = " " /\ ~q.statusRead)
            /\ ~(q.st = "REASON" /\ c = " " /\ q.reason = 0)
            /\ ~(q.st = "REASON" /\ c \notin Eol /\ ~(c = " " /\ q.reason = 0))
            /\ ~(q.st \in {"CR", "LF"} \/ (q.st = "REASON" /\ c \in Eol))
  <2>1. ResponseChar(q, c) = Bad(q)
    BY <1>15 DEF ResponseChar
  <2> QED BY <1>4, <2>1
<1> QED BY <1>6, <1>7, <1>8, <1>9, <1>10, <1>11, <1>12, <1>13, <1>14, <1>15

(* The characters and words of a header line.                             *)
LEMMA TextsRead ==
  /\ Tokens \subseteq Text /\ " " \in Text /\ "," \in Text
  /\ \A w \in Texts, c \in Text : Append(w, c) \in Texts
<1>1. Tokens \subseteq Text /\ " " \in Text /\ "," \in Text
  BY DEF Text, Tokens
<1>2. ASSUME NEW w \in Texts, NEW c \in Text PROVE Append(w, c) \in Texts
  BY AppendTo DEF Texts
<1> QED BY <1>1, <1>2

(* field_line::parse_char, with or without a length within MaxLine before it. *)
LEMMA FieldLineReads ==
  ASSUME NEW fit \in BOOLEAN
  PROVE  Reads("field", FieldLines, FineFieldLines(fit))
<1> SUFFICES ASSUME NEW f \in FieldLines, NEW c \in Tokens
             PROVE  CharRead(FieldLines, FineFieldLines(fit), f, FieldChar(f, c))
  BY DEF Reads, ParseChar
<1> DEFINE S == FieldLines
           Fine == FineFieldLines(fit)
           folded == IF f.st = "VALID"
                       THEN [f EXCEPT !.value = Append(@, " "), !.st = "VALUE_LS"] ELSE f
           g == [folded EXCEPT !.length = @ + 1]
           valuing == g.st \in {"VALUE_LS", "VALUE"}
           Rest == CASE g.st = "NAME" /\ c \in Alpha -> Ok([g EXCEPT !.name = Append(@, c)])
                     [] g.st = "NAME" /\ c = ":" -> GoTo(g, "VALUE_LS")
                     [] g.st = "VALUE_LS" /\ c = " " -> Spaced(g)
                     [] valuing /\ c \notin Eol /\ ~(g.st = "VALUE_LS" /\ c = " ") ->
                          Ok([g EXCEPT !.st = "VALUE", !.value = Append(@, c)])
                     [] valuing /\ c \in Eol -> ValueEnd(g, c)
                     [] g.st = "LF" /\ c = "LF" -> GoTo(g, "VALID")
                     [] OTHER -> Bad(g)
<1>1. FieldChar(f, c) = IF g.length > MaxLine THEN Bad([g EXCEPT !.st = "ERROR_LENGTH"]) ELSE Rest
  BY DEF FieldChar
<1>2. /\ f.st \in HeaderStates /\ f.name \in Seq(Alpha) /\ f.value \in Texts
      /\ f.length \in Nat /\ f.ws \in Nat
  BY DEF FieldLines
<1>3. folded \in S
  <2>1. Append(f.value, " ") \in Texts
    BY <1>2, TextsRead
  <2>2. "VALUE_LS" \in HeaderStates
    BY DEF HeaderStates
  <2> QED BY <1>2, <2>1, <2>2 DEF FieldLines
<1> HIDE DEF folded
<1>4. g \in S
  BY <1>3 DEF FieldLines
<1>5. /\ g.st \in HeaderStates /\ g.name \in Seq(Alpha) /\ g.value \in Texts
      /\ g.length \in Nat /\ g.ws \in Nat
  BY <1>4 DEF FieldLines
<1> HIDE DEF g
<1>6. \A st \in HeaderStates : [g EXCEPT !.st = st] \in S
  BY <1>4 DEF FieldLines
<1>7. /\ "ERROR_LENGTH" \in HeaderStates /\ "VALUE_LS" \in HeaderStates /\ "LF" \in HeaderStates
      /\ "VALUE" \in HeaderStates /\ "VALID" \in HeaderStates /\ "ERROR_CRLF" \in HeaderStates
      /\ "ERROR_WS" \in HeaderStates
  BY DEF HeaderStates
<1>8. CASE g.length > MaxLine
  BY <1>1, <1>6, <1>7, <1>8, BadRead
<1>9. CASE ~(g.length > MaxLine)
  <2>1. g.length <= MaxLine
    BY <1>5, <1>9, FieldLimits
  <2>2. \A y \in S : y.length = g.length => y \in Fine
    BY <2>1 DEF FineFieldLines
  <2>3. FieldChar(f, c) = Rest
    BY <1>1, <1>9
  <2> HIDE DEF Rest
  <2>4. ASSUME NEW st \in HeaderStates PROVE CharRead(S, Fine, f, GoTo(g, st))
    <3> DEFINE y == [g EXCEPT !.st = st]
    <3>1. y \in S /\ y.length = g.length
      BY <1>4, <1>6 DEF FieldLines
    <3> HIDE DEF y
    <3>2. CharRead(S, Fine, f, Ok(y))
      BY <2>2, <3>1, OkRead
    <3> QED BY <3>2 DEF GoTo, y
  <2>5. CASE g.st = "NAME" /\ c \in Alpha
    <3> DEFINE y == [g EXCEPT !.name = Append(@, c)]
    <3>1. Rest = Ok(y)
      BY <2>5 DEF Rest, Alpha, Methods, Names
    <3>2. Append(g.name, c) \in Seq(Alpha)
      BY <1>5, <2>5, AppendTo
    <3>3. y \in S /\ y.length = g.length
      BY <1>4, <3>2 DEF FieldLines
    <3> HIDE DEF y
    <3> QED BY <2>2, <2>3, <3>1, <3>3, OkRead
  <2>6. CASE g.st = "NAME" /\ c = ":"
    <3>1. Rest = GoTo(g, "VALUE_LS")
      BY <2>6 DEF Rest, Alpha, Methods, Names
    <3> QED BY <1>7, <2>3, <2>4, <3>1
  <2>7. CASE g.st = "VALUE_LS" /\ c = " "
    <3>1. Rest = Spaced(g)
      BY <2>7 DEF Rest, Eol
    <3> DEFINE y == [g EXCEPT !.ws = @ + 1]
    <3>2. y \in S /\ y.length = g.length
      BY <1>4, <1>5 DEF FieldLines
    <3>3. [y EXCEPT !.st = "ERROR_WS"] \in S
      BY <1>7, <3>2 DEF FieldLines
    <3>4. (g.ws < MaxWs) \in BOOLEAN
      OBVIOUS
    <3>5. Rest = Within(y, g.ws < MaxWs, "ERROR_WS")
      BY <3>1 DEF Spaced
    <3> HIDE DEF y
    <3> QED BY <2>2, <2>3, <3>2, <3>3, <3>4, <3>5, WithinRead
  <2>8. CASE valuing /\ c \notin Eol /\ ~(g.st = "VALUE_LS" /\ c = " ")
    <3> DEFINE y == [g EXCEPT !.st = "VALUE", !.value = Append(@, c)]
    <3>1. Rest = Ok(y)
      BY <2>8 DEF Rest
    <3>2. Append(g.value, c) \in Texts
      BY <1>5, TextsRead
    <3>3. y \in S /\ y.length = g.length
      BY <1>4, <1>7, <3>2 DEF FieldLines
    <3> HIDE DEF y
    <3> QED BY <2>2, <2>3, <3>1, <3>3, OkRead
  <2>9. CASE valuing /\ c \in Eol
    <3>1. Rest = ValueEnd(g, c)
      BY <2>9 DEF Rest, Eol
    <3>2. CASE c = "CR"
      <4>1. ValueEnd(g, c) = GoTo(g, "LF")
        BY <3>2 DEF ValueEnd
      <4> QED BY <1>7, <2>3, <2>4, <3>1, <4>1
    <3>3. CASE c = "LF" /\ conf.strict
      <4>1. ValueEnd(g, c) = Bad([g EXCEPT !.st = "ERROR_CRLF"])
        BY <3>3 DEF ValueEnd
      <4> QED BY <1>6, <1>7, <2>3, <3>1, <4>1, BadRead
    <3>4. CASE ~(c = "CR") /\ ~(c = "LF" /\ conf.strict)
      <4>1. ValueEnd(g, c) = GoTo(g, "VALID")
        BY <3>4 DEF ValueEnd
      <4> QED BY <1>7, <2>3, <2>4, <3>1, <4>1
    <3> QED BY <3>2, <3>3, <3>4
  <2>10. CASE g.st = "LF" /\ c = "LF"
    <3>1. Rest = GoTo(g, "VALID")
      BY <2>10 DEF Rest
    <3> QED BY <1>7, <2>3, <2>4, <3>1
  <2>11. CASE /\ ~(g.st = "NAME" /\ c \in Alpha) /\ ~(g.st = "NAME" /\ c = ":")
              /\ ~(g.st = "VALUE_LS" /\ c = " ")
              /\ ~(valuing /\ c \notin Eol /\ ~(g.st = "VALUE_LS" /\ c = " "))
              /\ ~(valuing /\ c \in Eol) /\ ~(g.st = "LF" /\ c = "LF")
    <3>1. Rest = Bad(g)
      BY <2>11 DEF Rest
    <3> QED BY <1>4, <2>3, <3>1, BadRead
  <2> QED BY <2>5, <2>6, <2>7, <2>8, <2>9, <2>10, <2>11
<1> QED BY <1>8, <1>9

-----------------------------------------------------------------------------
(* Chunks: the header, the data, the trailers.                            *)

FieldMaps == {m \in UNION {[D -> Texts] : D \in SUBSET Seq(Alpha)} : IsFiniteSet(DOMAIN m)}
Headers ==
  [fields : FieldMaps, field : FieldLines, length : Nat, valid : BOOLEAN]
Chunks ==
  [st : ChunkStates, ws : Nat, length : Nat, hex : Seq(Digits), size : Nat, data : Nat,
   trailers : Headers, valid : BOOLEAN]

(* The states of a chunk header whose size has been read and is accepted.   *)
SizeKnown == {"LF", "EXTENSION_LS", "EXTENSION", "VALID"}
ChunkLines(t) ==
  {k \in Chunks : /\ k.data = 0 /\ k.valid = FALSE /\ k.trailers = t
                  /\ k.st \in SizeKnown => k.size <= MaxChunk}

(* chunk_header::parse_char: an accepted size is at most MaxChunk.        *)
LEMMA ChunkLineReads ==
  ASSUME NEW t \in Headers
  PROVE  Reads("chunk", ChunkLines(t), ChunkLines(t))
<1> SUFFICES ASSUME NEW k \in ChunkLines(t), NEW c \in Tokens
             PROVE  CharRead(ChunkLines(t), ChunkLines(t), k, ChunkChar(k, c))
  BY DEF Reads, ParseChar
<1> DEFINE S == ChunkLines(t)
           g == [k EXCEPT !.length = @ + 1]
           sizing == g.st \in {"SIZE_LS", "SIZE"}
           extending == g.st \in {"EXTENSION_LS", "EXTENSION"}
           Rest == CASE g.st = "SIZE_LS" /\ c = " " -> Spaced(g)
                     [] sizing /\ c \in Digits ->
                          Within([g EXCEPT !.hex = Append(@, c), !.st = "SIZE"],
                                 Len(g.hex) < MaxDigits, "ERROR_SIZE")
                     [] sizing /\ c \in Eol \cup {";"} -> SizeEnd(g, c)
                     [] g.st = "EXTENSION_LS" /\ c = " " ->
                          IF g.ws < MaxWs THEN Spaced(g) ELSE Bad([g EXCEPT !.ws = @ + 1])
                     [] extending /\ c \notin Eol /\ ~(g.st = "EXTENSION_LS" /\ c = " ") ->
                          GoTo(g, "EXTENSION")
                     [] extending /\ c \in Eol -> ValueEnd(g, c)
                     [] g.st = "LF" /\ c = "LF" -> GoTo(g, "VALID")
                     [] OTHER -> Bad(g)
<1>1. ChunkChar(k, c) = IF g.length > MaxLine THEN Bad([g EXCEPT !.st = "ERROR_LENGTH"]) ELSE Rest
  BY DEF ChunkChar
<1>2. g \in S
  BY DEF ChunkLines, Chunks
<1>3. /\ g.st \in ChunkStates /\ g.ws \in Nat /\ g.hex \in Seq(Digits) /\ g.size \in Nat
      /\ g \in Chunks
  BY <1>2 DEF ChunkLines, Chunks
<1> HIDE DEF g
<1>4. ASSUME NEW st \in ChunkStates, st \notin SizeKnown PROVE [g EXCEPT !.st = st] \in S
  BY <1>2, <1>4 DEF ChunkLines, Chunks
<1>5. ASSUME NEW st \in ChunkStates, g.st \in SizeKnown PROVE [g EXCEPT !.st = st] \in S
  BY <1>2, <1>5 DEF ChunkLines, Chunks
<1>6. /\ \A st \in {"ERROR_LENGTH", "ERROR_SIZE", "ERROR_CRLF", "ERROR_WS", "SIZE"} :
           st \in ChunkStates /\ st \notin SizeKnown
      /\ \A st \in SizeKnown : st \in ChunkStates
  BY DEF ChunkStates, SizeKnown
<1>9. [g EXCEPT !.ws = @ + 1] \in S
  <2>1. \A w \in Nat : [g EXCEPT !.ws = w] \in S
    BY <1>2 DEF ChunkLines, Chunks
  <2>2. g.ws + 1 \in Nat
    BY <1>3
  <2> QED BY <2>1, <2>2
<1>7. CASE g.length > MaxLine
  BY <1>1, <1>4, <1>6, <1>7, BadRead
<1>8. CASE ~(g.length > MaxLine)
  <2>1. ChunkChar(k, c) = Rest
    BY <1>1, <1>8
  <2> HIDE DEF Rest
  <2>2. ASSUME NEW st \in SizeKnown, g.st \in SizeKnown
        PROVE  CharRead(S, S, k, GoTo(g, st))
    BY <1>5, <1>6, <2>2, OkRead DEF GoTo
  <2>3. CharRead(S, S, k, Spaced(g))
    <3> DEFINE y == [g EXCEPT !.ws = @ + 1]
    <3>1. y \in S /\ [y EXCEPT !.st = "ERROR_WS"] \in S
      <4>1. y \in S
        BY <1>9
      <4> HIDE DEF y
      <4>2. [y EXCEPT !.st = "ERROR_WS"] \in S
        BY <4>1, <1>6 DEF ChunkLines, Chunks
      <4> QED BY <4>1, <4>2
    <3>2. (g.ws < MaxWs) \in BOOLEAN
      OBVIOUS
    <3> HIDE DEF y
    <3>3. CharRead(S, S, k, Within(y, g.ws < MaxWs, "ERROR_WS"))
      BY <3>1, <3>2, WithinRead
    <3> QED BY <3>3 DEF Spaced, y
  <2>4. CASE g.st = "SIZE_LS" /\ c = " "
    <3>1. Rest = Spaced(g)
      BY <2>4 DEF Rest, Digits, Eol
    <3> QED BY <2>1, <2>3, <3>1
  <2>5. CASE sizing /\ c \in Digits
    <3> DEFINE y == [g EXCEPT !.hex = Append(@, c), !.st = "SIZE"]
    <3>1. Rest = Within(y, Len(g.hex) < MaxDigits, "ERROR_SIZE")
      BY <2>5 DEF Rest, Digits, Eol
    <3>2. Append(g.hex, c) \in Seq(Digits)
      BY <1>3, <2>5, AppendTo
    <3>3. y \in S
      BY <1>2, <1>6, <3>2 DEF ChunkLines, Chunks
    <3> HIDE DEF y
    <3>4. [y EXCEPT !.st = "ERROR_SIZE"] \in S
      BY <1>6, <3>3 DEF ChunkLines, Chunks
    <3>5. (Len(g.hex) < MaxDigits) \in BOOLEAN
      OBVIOUS
    <3> QED BY <2>1, <3>1, <3>3, <3>4, <3>5, WithinRead
  <2>6. CASE sizing /\ c \in Eol \cup {";"}
    <3> DEFINE v == Value(g.hex, 16)
               y == [g EXCEPT !.st = "SIZE", !.size = v]
               long == g.hex = <<>> \/ y.size > MaxChunk
    <3>1. Rest = SizeEnd(g, c)
      BY <2>6 DEF Rest, Digits, Eol
    <3>2. v \in Nat
      <4>1. \A i \in 1 .. Len(g.hex) : g.hex[i] \in Digits
        BY <1>3, ElementOfSeq
      <4>2. 16 \in Nat
        OBVIOUS
      <4> QED BY <1>3, <4>1, <4>2, ValueIsNat
    <3>3. SizeEnd(g, c) =
            CASE long -> Bad([y EXCEPT !.st = "ERROR_SIZE"])
              [] ~long /\ c = ";" -> Ok([y EXCEPT !.ws = 0, !.st = "EXTENSION_LS"])
              [] ~long /\ c = "CR" -> GoTo(y, "LF")
              [] OTHER -> IF conf.strict THEN Bad(y) ELSE GoTo(y, "VALID")
      BY DEF SizeEnd
    <3> HIDE DEF v
    <3>4. y \in S /\ y.size = v
      BY <1>2, <1>3, <1>6, <3>2 DEF ChunkLines, Chunks
    <3>5. ~long => y.size <= MaxChunk
      BY <3>2, <3>4, BodyLimits
    <3> HIDE DEF y, long
    <3>6. [y EXCEPT !.st = "ERROR_SIZE"] \in S
      BY <1>6, <3>4 DEF ChunkLines, Chunks
    <3>7. ASSUME NEW st \in SizeKnown, ~long PROVE [y EXCEPT !.st = st] \in S
      BY <1>6, <3>4, <3>5, <3>7 DEF ChunkLines, Chunks
    <3>8. "LF" \in SizeKnown /\ "EXTENSION_LS" \in SizeKnown /\ "VALID" \in SizeKnown
      BY DEF SizeKnown
    <3>9. CASE long
      <4>1. SizeEnd(g, c) = Bad([y EXCEPT !.st = "ERROR_SIZE"])
        BY <3>3, <3>9
      <4> QED BY <2>1, <3>1, <3>6, <4>1, BadRead
    <3>10. CASE ~long /\ c = ";"
      <4> DEFINE z == [y EXCEPT !.ws = 0, !.st = "EXTENSION_LS"]
      <4>1. SizeEnd(g, c) = Ok(z)
        BY <3>3, <3>10
      <4>2. z \in S
        BY <1>6, <3>4, <3>5, <3>8, <3>10 DEF ChunkLines, Chunks
      <4> HIDE DEF z
      <4> QED BY <2>1, <3>1, <4>1, <4>2, OkRead
    <3>11. CASE ~long /\ c = "CR"
      <4>1. SizeEnd(g, c) = Ok([y EXCEPT !.st = "LF"])
        BY <3>3, <3>11 DEF GoTo
      <4> QED BY <2>1, <3>1, <3>7, <3>8, <3>11, <4>1, OkRead
    <3>12. CASE ~long /\ ~(c = ";") /\ ~(c = "CR")
      <4>1. SizeEnd(g, c) = IF conf.strict THEN Bad(y) ELSE Ok([y EXCEPT !.st = "VALID"])
        BY <3>3, <3>12 DEF GoTo
      <4>2. [y EXCEPT !.st = "VALID"] \in S
        BY <3>7, <3>8, <3>12
      <4>3. CASE conf.strict
        BY <2>1, <3>1, <3>4, <4>1, <4>3, BadRead
      <4>4. CASE ~conf.strict
        BY <2>1, <3>1, <4>1, <4>2, <4>4, OkRead
      <4> QED BY <4>3, <4>4
    <3> QED BY <3>9, <3>10, <3>11, <3>12
  <2>7. CASE g.st = "EXTENSION_LS" /\ c = " "
    <3>1. Rest = IF g.ws < MaxWs THEN Spaced(g) ELSE Bad([g EXCEPT !.ws = @ + 1])
      BY <2>7 DEF Rest, Eol
    <3>2. [g EXCEPT !.ws = @ + 1] \in S
      BY <1>9
    <3>3. CASE g.ws < MaxWs
      BY <2>1, <2>3, <3>1, <3>3
    <3>4. CASE ~(g.ws < MaxWs)
      BY <2>1, <3>1, <3>2, <3>4, BadRead
    <3> QED BY <3>3, <3>4
  <2>8. CASE extending /\ c \notin Eol /\ ~(g.st = "EXTENSION_LS" /\ c = " ")
    <3>1. Rest = GoTo(g, "EXTENSION")
      BY <2>8 DEF Rest
    <3> QED BY <2>1, <2>2, <2>8, <3>1 DEF SizeKnown
  <2>9. CASE extending /\ c \in Eol
    <3>1. Rest = ValueEnd(g, c)
      BY <2>9 DEF Rest, Eol
    <3>2. g.st \in SizeKnown /\ "LF" \in SizeKnown /\ "VALID" \in SizeKnown
      BY <2>9 DEF SizeKnown
    <3>3. CASE c = "CR"
      <4>1. ValueEnd(g, c) = GoTo(g, "LF")
        BY <3>3 DEF ValueEnd
      <4> QED BY <2>1, <2>2, <3>1, <3>2, <4>1
    <3>4. CASE c = "LF" /\ conf.strict
      <4>1. ValueEnd(g, c) = Bad([g EXCEPT !.st = "ERROR_CRLF"])
        BY <3>4 DEF ValueEnd
      <4> QED BY <1>4, <1>6, <2>1, <3>1, <4>1, BadRead
    <3>5. CASE ~(c = "CR") /\ ~(c = "LF" /\ conf.strict)
      <4>1. ValueEnd(g, c) = GoTo(g, "VALID")
        BY <3>5 DEF ValueEnd
      <4> QED BY <2>1, <2>2, <3>1, <3>2, <4>1
    <3> QED BY <3>3, <3>4, <3>5
  <2>10. CASE g.st = "LF" /\ c = "LF"
    <3>1. Rest = GoTo(g, "VALID")
      BY <2>10 DEF Rest
    <3> QED BY <2>1, <2>2, <2>10, <3>1 DEF SizeKnown
  <2>11. CASE /\ ~(g.st = "SIZE_LS" /\ c = " ") /\ ~(sizing /\ c \in Digits)
              /\ ~(sizing /\ c \in Eol \cup {";"}) /\ ~(g.st = "EXTENSION_LS" /\ c = " ")
              /\ ~(extending /\ c \notin Eol /\ ~(g.st = "EXTENSION_LS" /\ c = " "))
              /\ ~(extending /\ c \in Eol) /\ ~(g.st = "LF" /\ c = "LF")
    <3>1. Rest = Bad(g)
      BY <2>11 DEF Rest
    <3> QED BY <1>2, <2>1, <3>1, BadRead
  <2> QED BY <2>4, <2>5, <2>6, <2>7, <2>8, <2>9, <2>10, <2>11
<1> QED BY <1>7, <1>8

-----------------------------------------------------------------------------
(* Blocks of header lines.                                                *)

(* A block of header lines within its limits.                              *)
Fit(h) ==
  /\ h.field.st # "VALID"
  /\ h.field.length <= MaxLine /\ h.length <= MaxHeaderLength
  /\ Cardinality(DOMAIN h.fields) <= MaxHeaders
HeadersFit(fit) == {h \in Headers : fit => Fit(h)}

(* The maps of header fields, without the set of all of them.             *)
LEMMA FieldMapIs ==
  ASSUME NEW m
  PROVE  m \in FieldMaps <=> /\ m \in [DOMAIN m -> Texts] /\ DOMAIN m \subseteq Seq(Alpha)
                             /\ IsFiniteSet(DOMAIN m)
<1>1. \A D : m \in [D -> Texts] => DOMAIN m = D
  OBVIOUS
<1>2. ASSUME m \in FieldMaps
      PROVE  m \in [DOMAIN m -> Texts] /\ DOMAIN m \subseteq Seq(Alpha) /\ IsFiniteSet(DOMAIN m)
  <2>1. PICK D \in SUBSET Seq(Alpha) : m \in [D -> Texts]
    BY <1>2 DEF FieldMaps
  <2> QED BY <1>1, <1>2, <2>1 DEF FieldMaps
<1>3. ASSUME m \in [DOMAIN m -> Texts], DOMAIN m \subseteq Seq(Alpha), IsFiniteSet(DOMAIN m)
      PROVE  m \in FieldMaps
  <2>1. DOMAIN m \in SUBSET Seq(Alpha)
    BY <1>3
  <2> QED BY <1>3, <2>1 DEF FieldMaps
<1> QED BY <1>2, <1>3

(* The map of a message without header lines.                             *)
LEMMA NoFields == <<>> \in FieldMaps /\ Cardinality(DOMAIN <<>>) = 0
<1>1. DOMAIN <<>> = {}
  OBVIOUS
<1>2. <<>> \in [DOMAIN <<>> -> Texts]
  BY <1>1
<1> QED BY <1>1, <1>2, FieldMapIs, FS_EmptySet

(* message_headers::add keeps a finite map of names to words.             *)
LEMMA AddFieldKeeps ==
  ASSUME NEW fields \in FieldMaps, NEW name \in Seq(Alpha), NEW value \in Texts
  PROVE  AddField(fields, name, value) \in FieldMaps
<1>1. /\ fields \in [DOMAIN fields -> Texts] /\ DOMAIN fields \subseteq Seq(Alpha)
      /\ IsFiniteSet(DOMAIN fields)
  BY FieldMapIs
<1>2. CASE name \in DOMAIN fields
  <2> DEFINE v == fields[name] \o <<",">> \o value
             m == [fields EXCEPT ![name] = v]
  <2>1. v \in Texts
    <3>1. <<",">> \in Seq(Text)
      <4>1. \A c \in Text : <<c>> \in Seq(Text)
        OBVIOUS
      <4> QED BY <4>1, TextsRead
    <3>2. fields[name] \in Seq(Text)
      BY <1>1, <1>2 DEF Texts
    <3>3. \A a, b \in Seq(Text) : a \o b \in Seq(Text)
      BY ConcatProperties
    <3> QED BY <3>1, <3>2, <3>3 DEF Texts
  <2>2. AddField(fields, name, value) = m
    BY <1>2 DEF AddField
  <2> HIDE DEF v
  <2>3. DOMAIN m = DOMAIN fields /\ m \in [DOMAIN fields -> Texts]
    BY <1>1, <2>1
  <2> HIDE DEF m
  <2> QED BY <1>1, <2>2, <2>3, FieldMapIs
<1>3. CASE name \notin DOMAIN fields
  <2> DEFINE D == DOMAIN fields \cup {name}
             m == [n \in D |-> IF n = name THEN value ELSE fields[n]]
  <2>1. AddField(fields, name, value) = m
    BY <1>3 DEF AddField
  <2>2. DOMAIN m = D /\ m \in [D -> Texts]
    BY <1>1
  <2>3. IsFiniteSet(D) /\ D \subseteq Seq(Alpha)
    BY <1>1, FS_AddElement
  <2> HIDE DEF m, D
  <2> QED BY <2>1, <2>2, <2>3, FieldMapIs
<1> QED BY <1>2, <1>3

(* The headers of a cleared receiver.                                     *)
LEMMA NewHeadersFit == NewHeaders \in HeadersFit(TRUE) /\ NewHeaders.valid = FALSE
<1>1. NewField \in FieldLines /\ NewField.length = 0 /\ NewField.st = "NAME"
  <2>1. <<>> \in Seq(Alpha) /\ <<>> \in Texts
    BY EmptySeq DEF Texts
  <2>2. "NAME" \in HeaderStates
    BY DEF HeaderStates
  <2> QED BY <2>1, <2>2 DEF NewField, FieldLines
<1> HIDE DEF NewField
<1> DEFINE none == <<>>
<1>2. none \in FieldMaps /\ Cardinality(DOMAIN none) = 0
  BY NoFields
<1>3. NewHeaders = [fields |-> none, field |-> NewField, length |-> 0, valid |-> FALSE]
  BY DEF NewHeaders
<1> HIDE DEF none
<1>4. NewHeaders \in Headers
  BY <1>1, <1>2, <1>3 DEF Headers
<1>5. Fit(NewHeaders)
  BY <1>1, <1>2, <1>3, FieldLimits DEF Fit
<1> QED BY <1>3, <1>4, <1>5 DEF HeadersFit

(* The blank line: what is left is shorter, if there is one.               *)
LEMMA BlankLineResults ==
  ASSUME NEW fit \in BOOLEAN, NEW h \in HeadersFit(fit), NEW buf \in Seq(Tokens)
  PROVE  LET p == BlankLine(h, buf)
         IN  /\ p \in Results(Headers, HeadersFit(fit), buf)
             /\ p.ok => p.to.valid = TRUE /\ Len(p.rest) < Len(buf)
<1> DEFINE r == IF buf # <<>> /\ Head(buf) = "CR" THEN Tail(buf) ELSE buf
           p == BlankLine(h, buf)
           y == [h EXCEPT !.valid = TRUE]
<1>1. Len(buf) \in Nat /\ buf \in Left(buf)
  BY LenProperties, AllLeft
<1>2. r \in Left(buf)
  BY <1>1, LeftByTail
<1>3. p = IF r # <<>> /\ Head(r) = "LF" THEN Parsed(y, Tail(r), TRUE, FALSE)
                                        ELSE Parsed(h, r, FALSE, r # <<>>)
  BY DEF BlankLine
<1>4. h \in Headers
  BY DEF HeadersFit
<1>5. y \in HeadersFit(fit) /\ y \in Headers /\ y.valid = TRUE
  BY DEF HeadersFit, Headers, Fit
<1> HIDE DEF r, y, p
<1>6. CASE r # <<>> /\ Head(r) = "LF"
  <2>1. p = [to |-> y, rest |-> Tail(r), ok |-> TRUE, bad |-> FALSE]
    BY <1>3, <1>6 DEF Parsed
  <2>2. r \in Seq(Tokens) /\ Len(r) <= Len(buf) /\ Len(r) \in Nat
    BY <1>2, LenProperties DEF Left
  <2>3. Tail(r) \in Left(r) /\ Len(Tail(r)) = Len(r) - 1
    BY <1>6, <2>2, LeftByTail
  <2>4. Tail(r) \in Left(buf)
    BY <1>2, <2>3, LeftOfLeft
  <2>5. Len(Tail(r)) < Len(buf)
    <3>1. \A a, b, c \in Nat : a <= b /\ c = a - 1 => c < b
      OBVIOUS
    <3>2. Len(Tail(r)) \in Nat
      BY <2>3, LenProperties DEF Left
    <3> QED BY <1>1, <2>2, <2>3, <3>1, <3>2
  <2> QED BY <1>5, <2>1, <2>4, <2>5 DEF Results, p
<1>7. CASE ~(r # <<>> /\ Head(r) = "LF")
  <2>1. p = [to |-> h, rest |-> r, ok |-> FALSE, bad |-> (r # <<>>)]
    BY <1>3, <1>7 DEF Parsed
  <2>2. (r # <<>>) \in BOOLEAN
    OBVIOUS
  <2> DEFINE b == r # <<>>
  <2>3. ~b => r = <<>>
    OBVIOUS
  <2> HIDE DEF b
  <2>4. p = [to |-> h, rest |-> r, ok |-> FALSE, bad |-> b] /\ b \in BOOLEAN
    BY <2>1, <2>2 DEF b
  <2>5. p \in [to : Headers, rest : Left(buf), ok : BOOLEAN, bad : BOOLEAN]
    BY <1>2, <1>4, <2>4
  <2>6. p.ok = FALSE /\ p.bad = b /\ p.rest = r /\ p.to = h
    BY <2>4
  <2> QED BY <2>3, <2>5, <2>6 DEF Results, p
<1> QED BY <1>6, <1>7 DEF p

(* The result of the parse of what is left is one of the parse of the buffer. *)
LEMMA ResultsOfLeft ==
  ASSUME NEW S, NEW Fine, NEW buf \in Seq(Tokens), NEW b \in Left(buf),
         NEW p \in Results(S, Fine, b)
  PROVE  p \in Results(S, Fine, buf)
<1>1. p.rest \in Left(buf)
  BY LeftOfLeft DEF Results
<1> QED BY <1>1 DEF Results

(* A header line that has been read, and the block that gets it.           *)
LEMMA FieldParsedResults ==
  ASSUME NEW fit \in BOOLEAN, NEW h \in HeadersFit(fit), NEW buf \in Seq(Tokens),
         NEW p \in Results(FieldLines, FineFieldLines(fit), buf),
         p.ok <=> ~p.bad /\ p.to.st = "VALID"
  PROVE  FieldParsed(p, h) \in Results(Headers, HeadersFit(fit), buf)
<1> DEFINE f == p.to
           n == h.length + Len(f.name) + Len(f.value)
           m == AddField(h.fields, f.name, f.value)
           next == [h EXCEPT !.length = n, !.fields = m, !.field = NewField]
           over == next.length > MaxHeaderLength \/ Cardinality(DOMAIN next.fields) > MaxHeaders
           part == [h EXCEPT !.field = f]
           v == FieldParsed(p, h)
<1>1. v = IF p.ok THEN [to |-> next, rest |-> p.rest, ok |-> ~over, bad |-> over]
                  ELSE [to |-> part, rest |-> p.rest, ok |-> FALSE, bad |-> p.bad]
  BY DEF FieldParsed, Parsed
<1>2. /\ f \in FieldLines /\ p.rest \in Left(buf) /\ p.ok \in BOOLEAN /\ p.bad \in BOOLEAN
      /\ (~p.ok /\ ~p.bad => p.rest = <<>>) /\ (~p.bad => f \in FineFieldLines(fit))
      /\ (~p.ok /\ ~p.bad => f.st # "VALID")
  BY DEF Results
<1> HIDE DEF f
<1>3. f.name \in Seq(Alpha) /\ f.value \in Texts
  BY <1>2 DEF FieldLines
<1>4. h \in Headers /\ h.length \in Nat /\ h.fields \in FieldMaps
  BY DEF HeadersFit, Headers
<1>5. n \in Nat
  <2>1. Len(f.name) \in Nat /\ Len(f.value) \in Nat
    BY <1>3, LenProperties DEF Texts
  <2> QED BY <1>4, <2>1
<1>6. m \in FieldMaps
  BY <1>3, <1>4, AddFieldKeeps
<1> HIDE DEF n, m
<1>7. NewField \in FieldLines /\ NewField.length <= MaxLine /\ NewField.st # "VALID"
  <2>1. NewHeaders.field = NewField
    BY DEF NewHeaders
  <2>2. NewHeaders \in Headers /\ Fit(NewHeaders)
    BY NewHeadersFit DEF HeadersFit
  <2> QED BY <2>1, <2>2 DEF Headers, Fit
<1>8. next \in Headers /\ next.length = n /\ next.fields = m /\ next.field = NewField
  BY <1>4, <1>5, <1>6, <1>7 DEF Headers
<1>9. ~over => Fit(next)
  <2>1. Cardinality(DOMAIN m) \in Nat
    BY <1>6, FS_CardinalityType DEF FieldMaps
  <2>2. \A a, b \in Nat : ~(a > b) => a <= b
    OBVIOUS
  <2> HIDE DEF next
  <2> QED BY <1>5, <1>7, <1>8, <2>1, <2>2, FieldLimits DEF Fit
<1>10. part \in Headers /\ part.field = f /\ part.length = h.length /\ part.fields = h.fields
  BY <1>2, <1>4 DEF Headers
<1>11. ~p.ok /\ ~p.bad => part \in HeadersFit(fit)
  <2> HIDE DEF part
  <2>1. fit => Fit(h)
    BY DEF HeadersFit
  <2> QED BY <1>2, <1>10, <2>1 DEF HeadersFit, Fit, FineFieldLines
<1>12. over \in BOOLEAN
  OBVIOUS
<1> HIDE DEF next, over, part, v
<1>13. CASE p.ok
  <2>1. v \in [to : Headers, rest : Left(buf), ok : BOOLEAN, bad : BOOLEAN]
        /\ v.to = next /\ (v.ok <=> ~over) /\ (v.bad <=> over)
    BY <1>1, <1>2, <1>8, <1>12, <1>13
  <2> QED BY <1>8, <1>9, <2>1 DEF Results, v, HeadersFit
<1>14. CASE ~p.ok
  <2>1. v \in [to : Headers, rest : Left(buf), ok : BOOLEAN, bad : BOOLEAN]
        /\ v.to = part /\ v.ok = FALSE /\ v.bad = p.bad /\ v.rest = p.rest
    BY <1>1, <1>2, <1>10, <1>14
  <2> QED BY <1>2, <1>11, <1>14, <2>1 DEF Results, v
<1> QED BY <1>13, <1>14

(* A turn of the loop of message_headers::parse.                          *)
LEMMA FieldTurnResults ==
  ASSUME NEW fit \in BOOLEAN, NEW buf \in Seq(Tokens),
         NEW p \in Results(Headers, HeadersFit(fit), buf)
  PROVE  FieldTurn(p) \in Results(Headers, HeadersFit(fit), buf)
<1>1. CASE p.ok /\ p.rest # <<>> /\ Head(p.rest) \notin Eol
  <2>1. /\ p.rest \in Left(buf) /\ p.rest \in Seq(Tokens) /\ p.to \in HeadersFit(fit)
    BY <1>1 DEF Results, Left
  <2>2. p.to.field \in FieldLines /\ p.to.field \in FineFieldLines(fit)
    BY <2>1 DEF HeadersFit, Headers, Fit, FineFieldLines
  <2> DEFINE e == Scan("field", p.to.field, p.rest)
  <2>3. e \in Results(FieldLines, FineFieldLines(fit), p.rest)
    BY <2>1, <2>2, FieldLineReads, ScanResults
  <2>4. e.ok <=> ~e.bad /\ e.to.st = "VALID"
    BY <2>1, <2>2, FieldLineReads, ScanResults
  <2>5. FieldTurn(p) = FieldParsed(e, p.to)
    BY <1>1 DEF FieldTurn
  <2> HIDE DEF e
  <2>6. FieldParsed(e, p.to) \in Results(Headers, HeadersFit(fit), p.rest)
    BY <2>1, <2>3, <2>4, FieldParsedResults
  <2> QED BY <2>1, <2>5, <2>6, ResultsOfLeft
<1>2. CASE ~(p.ok /\ p.rest # <<>> /\ Head(p.rest) \notin Eol)
  BY <1>2 DEF FieldTurn
<1> QED BY <1>1, <1>2

(* The states of the loop of message_headers::parse, turn by turn.          *)
HeadersRun(g, fit, h, buf) ==
  /\ g[0] = Parsed(h, buf, TRUE, FALSE)
  /\ \A i \in 1 .. Len(buf) : g[i] = FieldTurn(g[i - 1])
  /\ \A i \in 0 .. Len(buf) : g[i] \in Results(Headers, HeadersFit(fit), buf)
  /\ HeadersParse(h, buf) = FieldsParsed(g[Len(buf)])

(* The loop has such states.                                              *)
LEMMA HeadersRuns ==
  ASSUME NEW fit \in BOOLEAN, NEW h \in HeadersFit(fit), NEW buf \in Seq(Tokens)
  PROVE  \E g : HeadersRun(g, fit, h, buf)
<1> DEFINE n == Len(buf)
           start == Parsed(h, buf, TRUE, FALSE)
           Rec(f) == f = [i \in 0 .. n |-> IF i = 0 THEN {start}
                                           ELSE {FieldTurn(p) : p \in f[i - 1]}]
           after == CHOOSE f : Rec(f)
           Held == Results(Headers, HeadersFit(fit), buf)
           H == [i \in 0 .. n |-> Held]
           F == [i \in 1 .. n |-> [p \in Held |-> FieldTurn(p)]]
<1>1. HeadersParse(h, buf) = FieldsParsed(Element(after[n]))
  BY DEF HeadersParse
<1>2. n \in Nat
  BY LenProperties
<1>3. \A i \in 1 .. n : i \in 0 .. n /\ i - 1 \in 0 .. n /\ i # 0
  BY <1>2
<1>4. 0 \in 0 .. n /\ n \in 0 .. n
  BY <1>2
<1>5. \A p \in Held : FieldTurn(p) \in Held
  BY FieldTurnResults
<1>6. start \in Held
  <2>1. buf \in Left(buf)
    BY <1>2, AllLeft
  <2>2. h \in Headers
    BY DEF HeadersFit
  <2>3. start \in [to : Headers, rest : Left(buf), ok : BOOLEAN, bad : BOOLEAN]
    BY <2>1, <2>2 DEF Parsed
  <2>4. start.ok = TRUE /\ start.bad = FALSE /\ start.to = h
    BY DEF Parsed
  <2> HIDE DEF start
  <2> QED BY <2>3, <2>4 DEF Results
<1> HIDE DEF n, start, Held
<1>7. /\ \A i \in 0 .. n : H[i] = Held
      /\ \A i \in 1 .. n : \A p \in Held : F[i][p] = FieldTurn(p)
  OBVIOUS
<1> HIDE DEF H, F
<1>8. PICK g : Turned(g, n, H, F, start)
  <2>1. start \in H[0]
    BY <1>4, <1>6, <1>7
  <2>2. Leads(n, H, F)
    BY <1>3, <1>5, <1>7 DEF Leads
  <2> QED BY <1>2, <2>1, <2>2, Turns
<1>9. /\ g[0] = start
      /\ \A i \in 1 .. n : g[i] = FieldTurn(g[i - 1])
      /\ \A i \in 0 .. n : g[i] \in Held
  BY <1>3, <1>7, <1>8 DEF Turned
<1>10. Rec([i \in 0 .. n |-> {g[i]}])
  <2> DEFINE f == [i \in 0 .. n |-> {g[i]}]
             e == [i \in 0 .. n |-> IF i = 0 THEN {start} ELSE {FieldTurn(p) : p \in f[i - 1]}]
  <2>1. ASSUME NEW i \in 0 .. n PROVE f[i] = e[i]
    <3>1. CASE i = 0
      BY <1>9, <3>1
    <3>2. CASE i # 0
      <4>1. i \in 1 .. n
        BY <1>2, <3>2
      <4>2. f[i] = {FieldTurn(g[i - 1])} /\ f[i - 1] = {g[i - 1]}
        BY <4>1, <1>3, <1>9
      <4>3. e[i] = {FieldTurn(p) : p \in f[i - 1]}
        BY <3>2
      <4> HIDE DEF f, e
      <4> QED BY <4>2, <4>3
    <3> QED BY <3>1, <3>2
  <2>2. f = e
    BY <2>1
  <2> QED BY <2>2
<1>11. Rec(after)
  BY <1>10
<1> HIDE DEF after
<1>12. \A i \in 0 .. n : after[i] = IF i = 0 THEN {start} ELSE {FieldTurn(p) : p \in after[i - 1]}
  BY <1>11
<1> DEFINE Good == {i \in 0 .. n : after[i] = {g[i]}}
<1>13. 0 \in Good
  BY <1>4, <1>9, <1>12
<1>14. \A i \in 1 .. n : i - 1 \in Good => i \in Good
  <2> TAKE i \in 1 .. n
  <2> HAVE i - 1 \in Good
  <2>1. after[i] = {FieldTurn(p) : p \in after[i - 1]}
    BY <1>3, <1>12
  <2>2. after[i - 1] = {g[i - 1]}
    OBVIOUS
  <2> QED BY <1>3, <1>9, <2>1, <2>2
<1> HIDE DEF Good
<1>15. n \in Good
  BY <1>2, <1>4, <1>13, <1>14, CountUp
<1>16. after[n] = {g[n]}
  BY <1>4, <1>15 DEF Good
<1>17. HeadersParse(h, buf) = FieldsParsed(g[n])
  BY <1>1, <1>16 DEF Element
<1> QED BY <1>9, <1>17 DEF HeadersRun, n, start, Held

(* message_headers::parse: complete headers are valid and within the limits, and
   the blank line after them has been taken from the buffer.              *)
LEMMA HeadersParseResults ==
  ASSUME NEW fit \in BOOLEAN, NEW h \in HeadersFit(fit), NEW buf \in Seq(Tokens)
  PROVE  LET p == HeadersParse(h, buf)
         IN  /\ p \in Results(Headers, HeadersFit(fit), buf)
             /\ p.ok => p.to.valid = TRUE /\ Len(p.rest) < Len(buf)
<1>1. PICK g : HeadersRun(g, fit, h, buf)
  BY HeadersRuns
<1>2. Len(buf) \in 0 .. Len(buf)
  BY LenProperties
<1>3. PICK e : e = g[Len(buf)]
  OBVIOUS
<1>4. HeadersParse(h, buf) = FieldsParsed(e) /\ e \in Results(Headers, HeadersFit(fit), buf)
  BY <1>1, <1>2, <1>3 DEF HeadersRun
<1>5. CASE e.ok
  <2>1. e.rest \in Left(buf) /\ e.rest \in Seq(Tokens) /\ e.to \in HeadersFit(fit)
    BY <1>4, <1>5 DEF Results, Left
  <2> DEFINE b == BlankLine(e.to, e.rest)
  <2>2. HeadersParse(h, buf) = b
    BY <1>4, <1>5 DEF FieldsParsed
  <2>3. /\ b \in Results(Headers, HeadersFit(fit), e.rest)
        /\ b.ok => b.to.valid = TRUE /\ Len(b.rest) < Len(e.rest)
    BY <2>1, BlankLineResults
  <2> HIDE DEF b
  <2>4. b \in Results(Headers, HeadersFit(fit), buf)
    BY <2>1, <2>3, ResultsOfLeft
  <2>5. Len(b.rest) \in Nat /\ Len(e.rest) \in Nat /\ Len(buf) \in Nat /\ Len(e.rest) <= Len(buf)
    BY <2>1, <2>4, LenProperties DEF Results, Left
  <2>6. \A x, y, z \in Nat : x < y /\ y <= z => x < z
    OBVIOUS
  <2>7. b.ok => Len(b.rest) < Len(buf)
    BY <2>3, <2>5, <2>6
  <2> QED BY <2>2, <2>3, <2>4, <2>7
<1>6. CASE ~e.ok
  <2>1. HeadersParse(h, buf) = e
    BY <1>4, <1>6 DEF FieldsParsed
  <2> QED BY <1>4, <1>6, <2>1
<1> QED BY <1>5, <1>6

-----------------------------------------------------------------------------
(* What the headers say of the body.                                       *)

(* The value of a header field is a word.                                 *)
LEMMA FieldValueIsText ==
  ASSUME NEW h \in Headers, NEW name \in {"host", "content-length", "transfer-encoding", "expect"}
  PROVE  FieldValue(h, name) \in Texts
<1>1. h.fields \in [DOMAIN h.fields -> Texts]
  BY FieldMapIs DEF Headers
<1>2. <<>> \in Texts
  BY EmptySeq DEF Texts
<1>3. CASE <<name>> \in DOMAIN h.fields
  BY <1>1, <1>3 DEF FieldValue
<1>4. CASE ~(<<name>> \in DOMAIN h.fields)
  BY <1>2, <1>4 DEF FieldValue
<1> QED BY <1>3, <1>4

(* content_length is a number, -1 if it cannot be read.                   *)
LEMMA ContentLengthIsInt ==
  ASSUME NEW h \in Headers
  PROVE  /\ ContentLength(h) \in Int
         /\ FieldValue(h, "content-length") = <<>> => ContentLength(h) = 0
<1> DEFINE v == FieldValue(h, "content-length")
<1>1. v \in Seq(Text)
  BY FieldValueIsText DEF Texts
<1>2. ContentLength(h) = CASE v = <<>> -> 0
                           [] v # <<>> /\ Range(v) \subseteq Digits -> Value(v, 10)
                           [] OTHER -> -1
  BY DEF ContentLength
<1> HIDE DEF v
<1>3. CASE v = <<>>
  BY <1>2, <1>3 DEF v
<1>4. CASE v # <<>> /\ Range(v) \subseteq Digits
  <2>1. \A i \in 1 .. Len(v) : v[i] \in Digits
    <3>1. DOMAIN v = 1 .. Len(v)
      BY <1>1, LenProperties
    <3> QED BY <1>4, <3>1 DEF Range
  <2>2. 10 \in Nat
    OBVIOUS
  <2>3. Value(v, 10) \in Nat
    BY <1>1, <2>1, <2>2, ValueIsNat
  <2>4. ContentLength(h) = Value(v, 10)
    BY <1>2, <1>4
  <2> QED BY <1>4, <2>3, <2>4 DEF v
<1>5. CASE v # <<>> /\ ~(Range(v) \subseteq Digits)
  BY <1>2, <1>5 DEF v
<1> QED BY <1>3, <1>4, <1>5

(* The chunks the receivers keep: data only after the header, never more   *)
(* than its size, which is within the limit.                               *)
ChunksFit(fit) ==
  {k \in Chunks : /\ k.st \in SizeKnown => k.size <= MaxChunk
                  /\ k.st = "VALID" => k.data <= k.size
                  /\ k.st # "VALID" => k.data = 0
                  /\ fit => Fit(k.trailers)}
Shorter(p, buf) == p.ok => Len(p.rest) < Len(buf)

(* The chunk of a cleared receiver.                                       *)
LEMMA NewChunkFits == NewChunk \in ChunksFit(TRUE) /\ NewChunk.valid = FALSE
<1>1. NewHeaders \in Headers /\ Fit(NewHeaders)
  BY NewHeadersFit DEF HeadersFit
<1>2. <<>> \in Seq(Digits)
  BY EmptySeq
<1>3. "SIZE_LS" \in ChunkStates /\ "SIZE_LS" \notin SizeKnown
  BY DEF ChunkStates, SizeKnown
<1>4. NewChunk \in Chunks /\ NewChunk.st = "SIZE_LS" /\ NewChunk.data = 0
      /\ NewChunk.trailers = NewHeaders /\ NewChunk.valid = FALSE
  BY <1>1, <1>2, <1>3 DEF NewChunk, Chunks
<1> QED BY <1>1, <1>3, <1>4 DEF ChunksFit

(* The data of a chunk never exceeds its size.                            *)
LEMMA ChunkDataResults ==
  ASSUME NEW fit \in BOOLEAN, NEW k \in ChunksFit(fit), k.st = "VALID", NEW buf \in Seq(Tokens)
  PROVE  LET p == ChunkData(k, buf)
         IN  p \in Results(ChunksFit(FALSE), ChunksFit(fit), buf) /\ Shorter(p, buf)
<1> DEFINE need == k.size - k.data
           full == [k EXCEPT !.data = k.size]
           after == From(buf, need + 1)
           r == IF Head(after) = "CR" THEN Tail(after) ELSE after
           p == ChunkData(k, buf)
           done == [full EXCEPT !.valid = TRUE]
           part == [k EXCEPT !.data = @ + Len(buf)]
<1>1. /\ k.size \in Nat /\ k.data \in Nat /\ k.data <= k.size /\ k.size <= MaxChunk
      /\ k \in Chunks /\ (fit => Fit(k.trailers))
  BY DEF ChunksFit, Chunks, SizeKnown
<1>2. need \in Nat /\ Len(buf) \in Nat
  BY <1>1, LenProperties
<1>3. p = CASE Len(buf) <= need -> Parsed(part, <<>>, FALSE, FALSE)
            [] Len(buf) > need /\ Head(after) # "CR" /\ conf.strict ->
                 Parsed(full, after, FALSE, TRUE)
            [] Len(buf) > need /\ (Head(after) = "CR" \/ ~conf.strict) ->
                 IF r = <<>> \/ Head(r) # "LF" THEN Parsed(full, r, FALSE, r # <<>>)
                                               ELSE Parsed(done, Tail(r), TRUE, FALSE)
  BY DEF ChunkData
<1>4. Len(buf) > need <=> ~(Len(buf) <= need)
  BY <1>2
<1>5. ASSUME NEW d \in Nat, d <= k.size
      PROVE  [k EXCEPT !.data = d] \in ChunksFit(fit) /\ [k EXCEPT !.data = d] \in ChunksFit(FALSE)
  <2> DEFINE y == [k EXCEPT !.data = d]
  <2>1. y \in Chunks /\ y.data = d /\ y.size = k.size /\ y.st = k.st /\ y.trailers = k.trailers
    BY <1>1, <1>5 DEF Chunks
  <2> HIDE DEF y
  <2>2. y \in ChunksFit(fit) /\ y \in ChunksFit(FALSE)
    BY <1>1, <1>5, <2>1 DEF ChunksFit
  <2> QED BY <2>2 DEF y
<1>6. full \in ChunksFit(fit) /\ full \in ChunksFit(FALSE)
  <2>1. k.size <= k.size
    BY <1>1
  <2> QED BY <1>1, <1>5, <2>1
<1>7. done \in ChunksFit(fit) /\ done \in ChunksFit(FALSE)
  <2> HIDE DEF full
  <2> QED BY <1>6 DEF ChunksFit, Chunks
<1>8. CASE Len(buf) <= need
  <2>1. k.data + Len(buf) \in Nat /\ k.data + Len(buf) <= k.size
    BY <1>1, <1>2, <1>8
  <2>2. part \in ChunksFit(fit) /\ part \in ChunksFit(FALSE)
    BY <1>5, <2>1
  <2>3. p = Parsed(part, <<>>, FALSE, FALSE)
    BY <1>3, <1>4, <1>8
  <2>4. <<>> \in Left(buf)
    BY <1>2, LeftOf
  <2> HIDE DEF part, p
  <2>5. /\ p \in [to : ChunksFit(FALSE), rest : Left(buf), ok : BOOLEAN, bad : BOOLEAN]
        /\ p.ok = FALSE /\ p.bad = FALSE /\ p.rest = <<>> /\ p.to = part
    BY <2>2, <2>3, <2>4 DEF Parsed
  <2> QED BY <2>2, <2>5 DEF Results, Shorter, p
<1>9. CASE Len(buf) > need
  <2>1. after \in Left(buf) /\ Len(after) = Len(buf) - need
    BY <1>2, <1>9, LeftOf
  <2>2. after \in Seq(Tokens) /\ after # <<>>
    <3>1. after \in Seq(Tokens)
      BY <2>1 DEF Left
    <3>2. Len(after) # 0
      BY <1>2, <1>9, <2>1
    <3> HIDE DEF after
    <3>3. Len(<<>>) = 0
      BY EmptySeq
    <3> QED BY <3>1, <3>2, <3>3
  <2> HIDE DEF after, need
  <2>3. r \in Left(after)
    <3>1. after \in Left(after)
      BY <2>2, AllLeft
    <3> QED BY <2>2, <3>1, LeftByTail
  <2>4. r \in Left(buf) /\ r \in Seq(Tokens)
    BY <2>1, <2>3, LeftOfLeft DEF Left
  <2> HIDE DEF r, full, done, p
  <2>5. CASE Head(after) # "CR" /\ conf.strict
    <3>1. p = Parsed(full, after, FALSE, TRUE)
      BY <1>3, <1>4, <1>9, <2>5
    <3>2. /\ p \in [to : ChunksFit(FALSE), rest : Left(buf), ok : BOOLEAN, bad : BOOLEAN]
          /\ p.ok = FALSE /\ p.bad = TRUE
      BY <1>6, <2>1, <3>1 DEF Parsed
    <3> QED BY <3>2 DEF Results, Shorter, p
  <2>6. CASE Head(after) = "CR" \/ ~conf.strict
    <3>1. p = IF r = <<>> \/ Head(r) # "LF" THEN Parsed(full, r, FALSE, r # <<>>)
                                            ELSE Parsed(done, Tail(r), TRUE, FALSE)
      BY <1>3, <1>4, <1>9, <2>6
    <3>2. CASE r = <<>> \/ Head(r) # "LF"
      <4> DEFINE b == r # <<>>
      <4>1. b \in BOOLEAN /\ (~b => r = <<>>)
        OBVIOUS
      <4>2. p = Parsed(full, r, FALSE, b)
        BY <3>1, <3>2
      <4> HIDE DEF b
      <4>3. /\ p \in [to : ChunksFit(FALSE), rest : Left(buf), ok : BOOLEAN, bad : BOOLEAN]
            /\ p.ok = FALSE /\ p.bad = b /\ p.rest = r /\ p.to = full
        BY <1>6, <2>4, <4>1, <4>2 DEF Parsed
      <4> QED BY <1>6, <4>1, <4>3 DEF Results, Shorter, p
    <3>3. CASE ~(r = <<>> \/ Head(r) # "LF")
      <4>1. Tail(r) \in Left(r) /\ Len(Tail(r)) = Len(r) - 1
        BY <2>4, <3>3, LeftByTail
      <4>2. Tail(r) \in Left(buf)
        BY <2>4, <4>1, LeftOfLeft
      <4>3. Len(Tail(r)) < Len(buf)
        <5>1. \A a, b, c \in Nat : a <= b /\ c = a - 1 => c < b
          OBVIOUS
        <5>2. Len(Tail(r)) \in Nat /\ Len(r) \in Nat /\ Len(r) <= Len(buf)
          BY <2>4, <4>1, LenProperties DEF Left
        <5> QED BY <1>2, <4>1, <5>1, <5>2
      <4>4. p = Parsed(done, Tail(r), TRUE, FALSE)
        BY <3>1, <3>3
      <4>5. /\ p \in [to : ChunksFit(FALSE), rest : Left(buf), ok : BOOLEAN, bad : BOOLEAN]
            /\ p.ok = TRUE /\ p.bad = FALSE /\ p.to = done /\ p.rest = Tail(r)
        BY <1>7, <4>2, <4>4 DEF Parsed
      <4> QED BY <1>7, <4>3, <4>5 DEF Results, Shorter, p
    <3> QED BY <3>2, <3>3
  <2> QED BY <2>5, <2>6
<1> QED BY <1>4, <1>8, <1>9 DEF p

(* The trailers of the last chunk.                                        *)
LEMMA TrailersResults ==
  ASSUME NEW fit \in BOOLEAN, NEW k \in ChunksFit(fit), NEW buf \in Seq(Tokens)
  PROVE  LET p == TrailersParsed(HeadersParse(k.trailers, buf), k)
         IN  p \in Results(ChunksFit(FALSE), ChunksFit(fit), buf) /\ Shorter(p, buf)
<1> DEFINE t == HeadersParse(k.trailers, buf)
           y == [k EXCEPT !.trailers = t.to, !.valid = t.ok]
           p == [t EXCEPT !.to = y]
<1>1. k.trailers \in HeadersFit(fit)
  BY DEF ChunksFit, Chunks, HeadersFit
<1>2. /\ t \in Results(Headers, HeadersFit(fit), buf)
      /\ t.ok => Len(t.rest) < Len(buf)
  BY <1>1, HeadersParseResults
<1>3. TrailersParsed(t, k) = p
  BY DEF TrailersParsed
<1> HIDE DEF t
<1>4. /\ t.to \in Headers /\ t.rest \in Left(buf) /\ t.ok \in BOOLEAN /\ t.bad \in BOOLEAN
      /\ (t.ok => ~t.bad) /\ (~t.ok /\ ~t.bad => t.rest = <<>>)
      /\ (~t.bad => t.to \in HeadersFit(fit))
      /\ t = [to |-> t.to, rest |-> t.rest, ok |-> t.ok, bad |-> t.bad]
  BY <1>2 DEF Results
<1>5. y \in Chunks /\ y.st = k.st /\ y.size = k.size /\ y.data = k.data /\ y.trailers = t.to
  BY <1>4 DEF ChunksFit, Chunks
<1> HIDE DEF y
<1>6. y \in ChunksFit(FALSE) /\ (~t.bad => y \in ChunksFit(fit))
  BY <1>4, <1>5 DEF ChunksFit, HeadersFit
<1>7. p = [to |-> y, rest |-> t.rest, ok |-> t.ok, bad |-> t.bad]
  BY <1>4
<1> HIDE DEF p
<1>8. p \in Results(ChunksFit(FALSE), ChunksFit(fit), buf) /\ Shorter(p, buf)
  BY <1>2, <1>4, <1>6, <1>7 DEF Results, Shorter
<1> QED BY <1>3, <1>8 DEF t

(* rx_chunk::parse.                                                       *)
LEMMA ChunkParseResults ==
  ASSUME NEW fit \in BOOLEAN, NEW k \in ChunksFit(fit), k.valid = FALSE, NEW buf \in Seq(Tokens)
  PROVE  LET p == ChunkParse(k, buf)
         IN  p \in Results(ChunksFit(FALSE), ChunksFit(fit), buf) /\ Shorter(p, buf)
<1> DEFINE e == IF k.st = "VALID" THEN Parsed(k, buf, TRUE, FALSE) ELSE Scan("chunk", k, buf)
           Held == Results(ChunksFit(FALSE), ChunksFit(fit), buf)
<1>1. ChunkParse(k, buf) = ChunkHeaderParsed(e)
  BY DEF ChunkParse
<1>2. k \in Chunks /\ k.trailers \in Headers /\ (fit => Fit(k.trailers))
  BY DEF ChunksFit, Chunks
<1>3. e \in Held /\ (e.ok => e.to.st = "VALID" /\ e.to \in ChunksFit(fit))
  <2>1. CASE k.st = "VALID"
    <3>1. buf \in Left(buf)
      BY AllLeft
    <3>2. e = [to |-> k, rest |-> buf, ok |-> TRUE, bad |-> FALSE]
      BY <2>1 DEF Parsed
    <3>3. k \in ChunksFit(FALSE)
      BY DEF ChunksFit
    <3> HIDE DEF e
    <3> QED BY <2>1, <3>1, <3>2, <3>3 DEF Results
  <2>2. CASE k.st # "VALID"
    <3> DEFINE S == ChunkLines(k.trailers)
    <3>1. k \in S
      BY <1>2, <2>2 DEF ChunkLines, ChunksFit
    <3>2. Scan("chunk", k, buf) \in Results(S, S, buf)
          /\ (Scan("chunk", k, buf).ok => Scan("chunk", k, buf).to.st = "VALID")
      BY <1>2, <3>1, ChunkLineReads, ScanResults
    <3>3. e = Scan("chunk", k, buf)
      BY <2>2
    <3>4. \A c \in S : c \in ChunksFit(fit) /\ c \in ChunksFit(FALSE)
      <4> TAKE c \in S
      <4>1. c \in Chunks /\ c.data = 0 /\ c.trailers = k.trailers /\ c.size \in Nat
            /\ (c.st \in SizeKnown => c.size <= MaxChunk)
        BY DEF ChunkLines, Chunks
      <4>2. c.data <= c.size
        BY <4>1
      <4> QED BY <1>2, <4>1, <4>2 DEF ChunksFit
    <3> HIDE DEF e, S
    <3>5. e \in Results(S, S, buf) /\ (e.ok => e.to.st = "VALID")
      BY <3>2, <3>3
    <3> QED BY <3>4, <3>5 DEF Results
  <2> QED BY <2>1, <2>2
<1> HIDE DEF e
<1>4. CASE ~e.ok
  <2>1. ChunkParse(k, buf) = e
    BY <1>1, <1>4 DEF ChunkHeaderParsed
  <2> QED BY <1>3, <1>4, <2>1 DEF Shorter
<1>5. CASE e.ok
  <2>1. e.rest \in Left(buf) /\ e.rest \in Seq(Tokens) /\ e.to.st = "VALID" /\ e.to \in ChunksFit(fit)
    BY <1>3, <1>5 DEF Results, Left
  <2>2. ASSUME NEW p, p \in Results(ChunksFit(FALSE), ChunksFit(fit), e.rest), Shorter(p, e.rest)
        PROVE  p \in Held /\ Shorter(p, buf)
    <3>1. p \in Held
      BY <2>1, <2>2, ResultsOfLeft
    <3>2. \A x, y, z \in Nat : x < y /\ y <= z => x < z
      OBVIOUS
    <3>3. Len(p.rest) \in Nat /\ Len(e.rest) \in Nat /\ Len(buf) \in Nat /\ Len(e.rest) <= Len(buf)
      BY <2>1, <3>1, LenProperties DEF Results, Left
    <3> QED BY <2>2, <3>1, <3>2, <3>3 DEF Shorter
  <2>3. CASE e.to.size = 0
    <3>1. ChunkParse(k, buf) = TrailersParsed(HeadersParse(e.to.trailers, e.rest), e.to)
      BY <1>1, <1>5, <2>3 DEF ChunkHeaderParsed
    <3> QED BY <2>1, <2>2, <3>1, TrailersResults
  <2>4. CASE e.to.size # 0
    <3>1. ChunkParse(k, buf) = ChunkData(e.to, e.rest)
      BY <1>1, <1>5, <2>4 DEF ChunkHeaderParsed
    <3> QED BY <2>1, <2>2, <3>1, ChunkDataResults
  <2> QED BY <2>3, <2>4
<1> QED BY <1>4, <1>5

-----------------------------------------------------------------------------
(* The receivers, and the parse of the start line and the headers.        *)

LinesOf(kind)     == IF kind = "request" THEN RequestLines ELSE ResponseLines
FineLinesOf(kind) == IF kind = "request" THEN FineRequestLines ELSE FineResponseLines
Codes ==
  {"NO_CONTENT", "BAD_REQUEST", "PAYLOAD_TOO_LARGE", "LENGTH_REQUIRED", "METHOD_NOT_ALLOWED",
   "CONTINUE", "NOT_IMPLEMENTED", "REQUEST_URI_TOO_LONG"}

(* Any receiver; and one between two calls of receive, its start line and,  *)
(* when fit, its header lines within their limits.                         *)
Receivers(kind) ==
  [line : LinesOf(kind), headers : Headers, valid : BOOLEAN, chunk : ChunksFit(FALSE),
   body : Nat, code : Codes, continued : BOOLEAN, head : BOOLEAN]
FitRx(r) == Fit(r.headers) /\ Fit(r.chunk.trailers)
ReceiversFit(kind, fit) ==
  {r \in Receivers(kind) : r.line \in FineLinesOf(kind) /\ (fit => FitRx(r))}

(* The start line of a cleared receiver.                                  *)
LEMMA NewLineFits ==
  ASSUME conf \in Configs
  PROVE  NewLine \in LinesOf(conf.kind) /\ NewLine \in FineLinesOf(conf.kind)
<1>1. conf.kind \in {"request", "response"}
  BY ConfigsAssumption
<1>2. <<>> \in Seq(Methods) /\ Len(<<>>) = 0
  BY EmptySeq
<1>3. CASE conf.kind = "request"
  <2>1. "METHOD" \in RequestStates
    BY DEF RequestStates
  <2>2. NewRequestLine \in RequestLines
    BY <1>2, <2>1 DEF NewRequestLine, RequestLines
  <2>3. /\ NewRequestLine.ws = 0 /\ NewRequestLine.fail = FALSE /\ NewRequestLine.uri = 0
        /\ NewRequestLine.method = <<>>
    BY DEF NewRequestLine
  <2>4. Len(NewRequestLine.method) <= MaxMethod
    BY <1>2, <2>3, LineLimits
  <2>5. NewRequestLine \in FineRequestLines
    BY <2>2, <2>3, <2>4, LineLimits DEF FineRequestLines
  <2> QED BY <1>3, <2>2, <2>5 DEF NewLine, LinesOf, FineLinesOf
<1>4. CASE conf.kind # "request"
  <2>1. NewResponseLine \in ResponseLines
    BY DEF NewResponseLine, ResponseLines, ResponseStates
  <2>2. NewResponseLine.ws = 0 /\ NewResponseLine.fail = FALSE /\ NewResponseLine.reason = 0
    BY DEF NewResponseLine
  <2>3. NewResponseLine \in FineResponseLines
    BY <2>1, <2>2, LineLimits DEF FineResponseLines
  <2> QED BY <1>4, <2>1, <2>3 DEF NewLine, LinesOf, FineLinesOf
<1> QED BY <1>3, <1>4

(* A receiver that has been cleared.                                       *)
LEMMA CodedRx ==
  ASSUME conf \in Configs, NEW code \in Codes
  PROVE  LET r == [NewRx EXCEPT !.code = code]
         IN  /\ r \in ReceiversFit(conf.kind, TRUE) /\ r \in Receivers(conf.kind)
             /\ r.valid = FALSE /\ r.body = 0 /\ NewRx \in Receivers(conf.kind)
<1> DEFINE r == [NewRx EXCEPT !.code = code]
<1>1. NewLine \in LinesOf(conf.kind) /\ NewLine \in FineLinesOf(conf.kind)
  BY NewLineFits
<1>2. NewHeaders \in Headers /\ Fit(NewHeaders)
  BY NewHeadersFit DEF HeadersFit
<1>3. NewChunk \in ChunksFit(FALSE) /\ Fit(NewChunk.trailers)
  BY NewChunkFits DEF ChunksFit
<1>4. NewRx \in Receivers(conf.kind)
  <2>1. "NO_CONTENT" \in Codes
    BY DEF Codes
  <2> QED BY <1>1, <1>2, <1>3, <2>1 DEF NewRx, Receivers
<1>5. /\ NewRx.line = NewLine /\ NewRx.headers = NewHeaders /\ NewRx.chunk = NewChunk
      /\ NewRx.valid = FALSE /\ NewRx.body = 0
  BY DEF NewRx
<1>6. /\ r \in Receivers(conf.kind) /\ r.line = NewRx.line /\ r.headers = NewRx.headers
      /\ r.chunk = NewRx.chunk /\ r.valid = NewRx.valid /\ r.body = NewRx.body
  BY <1>4 DEF Receivers
<1> HIDE DEF r
<1> QED BY <1>1, <1>2, <1>3, <1>4, <1>5, <1>6 DEF ReceiversFit, FitRx, r

(* clear: nothing is left of the message before, but the response code.   *)
LEMMA ClearedRx ==
  ASSUME conf \in Configs, NEW r \in Receivers(conf.kind)
  PROVE  /\ Clear(r) \in ReceiversFit(conf.kind, TRUE) /\ Clear(r) \in Receivers(conf.kind)
         /\ Clear(r).valid = FALSE /\ Clear(r).body = 0
BY CodedRx DEF Clear, Receivers

(* The parse of the start line: fail_ is set when it goes wrong.          *)
LEMMA LineParseResults ==
  ASSUME conf \in Configs, NEW l \in LinesOf(conf.kind), l \in FineLinesOf(conf.kind),
         NEW buf \in Seq(Tokens)
  PROVE  LET p == LineParse(l, buf)
         IN  /\ p \in Results(LinesOf(conf.kind), FineLinesOf(conf.kind), buf)
             /\ p.bad => p.to.fail = TRUE
<1> DEFINE p == LineParse(l, buf)
<1>1. conf.kind \in {"request", "response"}
  BY ConfigsAssumption
<1>2. CASE l.st = "VALID"
  <2>1. p = [to |-> l, rest |-> buf, ok |-> TRUE, bad |-> FALSE]
    BY <1>2 DEF LineParse, Parsed
  <2>2. buf \in Left(buf)
    BY AllLeft
  <2> HIDE DEF p
  <2>3. p \in Results(LinesOf(conf.kind), FineLinesOf(conf.kind), buf) /\ p.bad = FALSE
    BY <2>1, <2>2 DEF Results
  <2> QED BY <2>3 DEF p
<1>3. CASE l.st # "VALID" /\ conf.kind = "request"
  <2> DEFINE e == Scan("request", l, buf)
  <2>1. l \in RequestLines /\ l \in FineRequestLines
    BY <1>3 DEF LinesOf, FineLinesOf
  <2>2. e \in Results(RequestLines, FineRequestLines, buf)
    BY <2>1, RequestLineReads, ScanResults
  <2>3. p = [e EXCEPT !.to.fail = e.bad]
    BY <1>3 DEF LineParse, RequestLineParse, Failing
  <2> HIDE DEF e, p
  <2>4. /\ e.to \in RequestLines /\ e.bad \in BOOLEAN /\ (~e.bad => e.to \in FineRequestLines)
        /\ e.ok \in BOOLEAN /\ e.rest \in Left(buf)
        /\ e = [to |-> e.to, rest |-> e.rest, ok |-> e.ok, bad |-> e.bad]
    BY <2>2 DEF Results
  <2> DEFINE y == [e.to EXCEPT !.fail = e.bad]
  <2>5. p = [to |-> y, rest |-> e.rest, ok |-> e.ok, bad |-> e.bad]
    BY <2>3, <2>4
  <2>6. y \in RequestLines /\ y.fail = e.bad
    BY <2>4 DEF RequestLines
  <2>7. ~e.bad => y \in FineRequestLines
    <3>1. y.ws = e.to.ws /\ y.method = e.to.method /\ y.uri = e.to.uri
      BY <2>4 DEF RequestLines
    <3> HIDE DEF y
    <3> QED BY <2>4, <2>6, <3>1 DEF FineRequestLines
  <2> HIDE DEF y
  <2>8. p \in Results(RequestLines, FineRequestLines, buf) /\ (p.bad => p.to.fail = TRUE)
    BY <2>2, <2>4, <2>5, <2>6, <2>7 DEF Results
  <2> QED BY <1>3, <2>8 DEF LinesOf, FineLinesOf, p
<1>4. CASE l.st # "VALID" /\ conf.kind = "response"
  <2> DEFINE e == Scan("response", l, buf)
  <2>1. l \in ResponseLines /\ l \in FineResponseLines
    BY <1>4 DEF LinesOf, FineLinesOf
  <2>2. e \in Results(ResponseLines, FineResponseLines, buf)
    BY <2>1, ResponseLineReads, ScanResults
  <2>3. p = [e EXCEPT !.to.fail = e.bad]
    BY <1>4 DEF LineParse, ResponseLineParse, Failing
  <2> HIDE DEF e, p
  <2>4. /\ e.to \in ResponseLines /\ e.bad \in BOOLEAN /\ (~e.bad => e.to \in FineResponseLines)
        /\ e.ok \in BOOLEAN /\ e.rest \in Left(buf)
        /\ e = [to |-> e.to, rest |-> e.rest, ok |-> e.ok, bad |-> e.bad]
    BY <2>2 DEF Results
  <2> DEFINE y == [e.to EXCEPT !.fail = e.bad]
  <2>5. p = [to |-> y, rest |-> e.rest, ok |-> e.ok, bad |-> e.bad]
    BY <2>3, <2>4
  <2>6. y \in ResponseLines /\ y.fail = e.bad
    BY <2>4 DEF ResponseLines
  <2>7. ~e.bad => y \in FineResponseLines
    <3>1. y.ws = e.to.ws /\ y.reason = e.to.reason
      BY <2>4 DEF ResponseLines
    <3> HIDE DEF y
    <3> QED BY <2>4, <2>6, <3>1 DEF FineResponseLines
  <2> HIDE DEF y
  <2>8. p \in Results(ResponseLines, FineResponseLines, buf) /\ (p.bad => p.to.fail = TRUE)
    BY <2>2, <2>4, <2>5, <2>6, <2>7 DEF Results
  <2> QED BY <1>4, <2>8 DEF LinesOf, FineLinesOf, p
<1> QED BY <1>1, <1>2, <1>3, <1>4

(* The start line and the headers: what the receiver has got of them, and  *)
(* the rest of what it holds, as it was.                                   *)
MessageParsed(p, r) ==
  /\ p.to.valid = p.ok /\ p.to.body = r.body /\ p.to.chunk = r.chunk
  /\ p.to.line \in FineLinesOf(conf.kind) \/ p.to.line.fail = TRUE

(* rx_request::parse and rx_response::parse.                              *)
LEMMA MessageParseResults ==
  ASSUME conf \in Configs, NEW fit \in BOOLEAN, NEW r \in ReceiversFit(conf.kind, fit),
         r.valid = FALSE, NEW buf \in Seq(Tokens)
  PROVE  LET p == MessageParse(r, buf)
         IN  /\ p \in Results(Receivers(conf.kind), ReceiversFit(conf.kind, fit), buf)
             /\ MessageParsed(p, r) /\ Shorter(p, buf)
<1> DEFINE k == conf.kind
           l == LineParse(r.line, buf)
           p == MessageParse(r, buf)
           q == [r EXCEPT !.line = l.to]
<1>1. /\ r.line \in LinesOf(k) /\ r.line \in FineLinesOf(k) /\ r.headers \in Headers
      /\ r.headers \in HeadersFit(fit) /\ (fit => Fit(r.chunk.trailers)) /\ r \in Receivers(k)
  BY DEF ReceiversFit, Receivers, FitRx, HeadersFit
<1>2. /\ l \in Results(LinesOf(k), FineLinesOf(k), buf)
      /\ l.bad => l.to.fail = TRUE
  BY <1>1, LineParseResults
<1>3. p = IF l.ok THEN HeadersParsed(HeadersParse(r.headers, l.rest), q) ELSE [l EXCEPT !.to = q]
  BY DEF MessageParse, LineParsed
<1> HIDE DEF l, p
<1>4. /\ l.to \in LinesOf(k) /\ l.rest \in Left(buf) /\ l.ok \in BOOLEAN /\ l.bad \in BOOLEAN
      /\ (l.ok => ~l.bad) /\ (~l.ok /\ ~l.bad => l.rest = <<>>)
      /\ (~l.bad => l.to \in FineLinesOf(k))
      /\ l = [to |-> l.to, rest |-> l.rest, ok |-> l.ok, bad |-> l.bad]
  BY <1>2 DEF Results
<1>5. /\ q \in Receivers(k) /\ q.line = l.to /\ q.headers = r.headers /\ q.valid = FALSE
      /\ q.chunk = r.chunk /\ q.body = r.body
  BY <1>1, <1>4 DEF Receivers
<1> HIDE DEF q
<1>6. ~l.bad => q \in ReceiversFit(k, fit)
  BY <1>1, <1>4, <1>5 DEF ReceiversFit, FitRx, HeadersFit
<1>7. CASE ~l.ok
  <2>1. p = [to |-> q, rest |-> l.rest, ok |-> l.ok, bad |-> l.bad]
    BY <1>3, <1>4, <1>7
  <2>2. p \in Results(Receivers(k), ReceiversFit(k, fit), buf)
    BY <1>4, <1>5, <1>6, <2>1 DEF Results
  <2>3. MessageParsed(p, r) /\ Shorter(p, buf)
    BY <1>2, <1>4, <1>5, <1>7, <2>1 DEF MessageParsed, Shorter
  <2> QED BY <2>2, <2>3 DEF p
<1>8. CASE l.ok
  <2> DEFINE h == HeadersParse(r.headers, l.rest)
             y == [q EXCEPT !.headers = h.to, !.valid = h.ok]
  <2>1. l.rest \in Seq(Tokens) /\ l.to \in FineLinesOf(k)
    BY <1>4, <1>8 DEF Left
  <2>2. /\ h \in Results(Headers, HeadersFit(fit), l.rest)
        /\ h.ok => Len(h.rest) < Len(l.rest)
    BY <1>1, <2>1, HeadersParseResults
  <2>3. p = [h EXCEPT !.to = y]
    BY <1>3, <1>8 DEF HeadersParsed
  <2> HIDE DEF h
  <2>4. h \in Results(Headers, HeadersFit(fit), buf)
    BY <1>4, <2>2, ResultsOfLeft
  <2>5. /\ h.to \in Headers /\ h.rest \in Left(buf) /\ h.ok \in BOOLEAN /\ h.bad \in BOOLEAN
        /\ (h.ok => ~h.bad) /\ (~h.ok /\ ~h.bad => h.rest = <<>>)
        /\ (~h.bad => h.to \in HeadersFit(fit))
        /\ h = [to |-> h.to, rest |-> h.rest, ok |-> h.ok, bad |-> h.bad]
    BY <2>4 DEF Results
  <2>6. /\ y \in Receivers(k) /\ y.line = l.to /\ y.headers = h.to /\ y.valid = h.ok
        /\ y.chunk = r.chunk /\ y.body = r.body
    BY <1>5, <2>5 DEF Receivers
  <2>7. p = [to |-> y, rest |-> h.rest, ok |-> h.ok, bad |-> h.bad]
    BY <2>3, <2>5
  <2> HIDE DEF y
  <2>8. ~h.bad => y \in ReceiversFit(k, fit)
    BY <1>1, <2>1, <2>5, <2>6 DEF ReceiversFit, FitRx, HeadersFit
  <2>9. p \in Results(Receivers(k), ReceiversFit(k, fit), buf)
    BY <2>5, <2>6, <2>7, <2>8 DEF Results
  <2>10. MessageParsed(p, r)
    BY <2>1, <2>6, <2>7 DEF MessageParsed
  <2>11. Shorter(p, buf)
    <3>1. \A a, b, c \in Nat : a < b /\ b <= c => a < c
      OBVIOUS
    <3>2. Len(h.rest) \in Nat /\ Len(l.rest) \in Nat /\ Len(buf) \in Nat /\ Len(l.rest) <= Len(buf)
      BY <1>4, <2>5, LenProperties DEF Left
    <3> QED BY <2>2, <2>7, <3>1, <3>2 DEF Shorter
  <2> QED BY <2>9, <2>10, <2>11 DEF p
<1> QED BY <1>4, <1>7, <1>8

-----------------------------------------------------------------------------
(* What receive answers: the body of a message.                           *)

(* How much of the body of a message with these headers is ever kept, and   *)
(* what a receiver between two calls of receive has of it.                 *)
Bound(kind, h) ==
  IF kind = "response" /\ FieldValue(h, "content-length") = <<>> THEN MaxBody
                                                                 ELSE ContentLength(h)
BodyOk(kind, r) ==
  /\ r.valid = FALSE => r.body = 0
  /\ kind = "request" => r.body <= MaxContent
  /\ r.valid = TRUE /\ ~IsChunked(r.headers) =>
       /\ 0 <= ContentLength(r.headers) /\ r.body # ContentLength(r.headers)
       /\ r.body <= Bound(kind, r.headers)

(* What a verdict v of receive on a receiver r and a buffer keeps, and that *)
(* it takes something of the buffer, but for the response without a length. *)
Verdicts == {"VALID", "INVALID", "CHUNK", "EXPECT_CONTINUE", "INCOMPLETE"}
Answered(v, buf) ==
  v \in [to : Receivers(conf.kind), rest : Left(buf), verdict : Verdicts, bad : BOOLEAN]
Keeps(v, fit) ==
  v.verdict # "INVALID" =>
    /\ v.to.line \in FineLinesOf(conf.kind)
    /\ ~Finished(v) => BodyOk(conf.kind, v.to)
    /\ v.bad = FALSE /\ fit => FitRx(v.to)
    /\ v.bad = TRUE => /\ v.verdict = "INCOMPLETE" /\ v.rest = <<>>
                       /\ fit /\ v.to.valid = TRUE => Fit(v.to.headers)
Full(r) == conf.kind = "response" /\ Bare(r) /\ r.body = MaxBody
Takes(v, r, buf) ==
  /\ v.verdict \in {"VALID", "CHUNK", "EXPECT_CONTINUE"} => Len(v.rest) < Len(buf)
  /\ v.verdict = "INCOMPLETE" =>
       \/ v.rest = <<>> \/ Len(v.rest) < Len(buf)
       \/ v.to = r /\ v.rest = buf /\ Full(r)
Answer(v, r, buf, fit) == Answered(v, buf) /\ Keeps(v, fit) /\ Takes(v, r, buf)

(* The receiver q with the start line and the headers, and what is left b   *)
(* of the buffer, when receive goes on to the body.                        *)
Started(q, b, r, buf) ==
  /\ b \in Left(buf) /\ q.valid = TRUE
  /\ \/ q = r /\ b = buf /\ buf # <<>> /\ BodyOk(conf.kind, r)
     \/ q.body = 0 /\ Len(b) < Len(buf)

(* A refusal clears the receiver.                                         *)
LEMMA RefuseAnswers ==
  ASSUME conf \in Configs, NEW fit, NEW r, NEW buf, NEW q \in Receivers(conf.kind),
         NEW rest \in Left(buf), NEW code \in Codes
  PROVE  Answer(Refuse(q, rest, code), r, buf, fit)
<1> DEFINE c == Clear([q EXCEPT !.code = code])
           v == Refuse(q, rest, code)
<1>1. [q EXCEPT !.code = code] \in Receivers(conf.kind)
  BY DEF Receivers
<1>2. c \in Receivers(conf.kind)
  BY <1>1, ClearedRx
<1> HIDE DEF c
<1>3. v = [to |-> c, rest |-> rest, verdict |-> "INVALID", bad |-> TRUE]
  BY DEF Refuse, Verdict, c
<1> HIDE DEF v
<1>4. Answered(v, buf) /\ v.verdict = "INVALID"
  BY <1>2, <1>3 DEF Answered, Verdicts
<1> QED BY <1>4 DEF Answer, Keeps, Takes, v

(* A verdict that is not a refusal.                                        *)
LEMMA VerdictAnswers ==
  ASSUME NEW fit, NEW r, NEW buf, NEW q, NEW rest, NEW verdict \in Verdicts, NEW bad \in BOOLEAN,
         q \in Receivers(conf.kind), rest \in Left(buf), q.line \in FineLinesOf(conf.kind),
         ~Finished(Verdict(q, rest, verdict, bad)) => BodyOk(conf.kind, q),
         bad = FALSE => (fit => FitRx(q)),
         bad = TRUE => verdict = "INCOMPLETE" /\ rest = <<>> /\ (fit /\ q.valid = TRUE => Fit(q.headers)),
         Len(rest) < Len(buf) \/ (verdict = "INCOMPLETE" /\ rest = <<>>)
  PROVE  Answer(Verdict(q, rest, verdict, bad), r, buf, fit)
<1> DEFINE v == Verdict(q, rest, verdict, bad)
<1>1. v = [to |-> q, rest |-> rest, verdict |-> verdict, bad |-> bad]
  BY DEF Verdict
<1> HIDE DEF v
<1>2. Answered(v, buf)
  BY <1>1 DEF Answered
<1>3. v.to = q /\ v.rest = rest /\ v.verdict = verdict /\ v.bad = bad
  BY <1>1
<1>4. Keeps(v, fit)
  BY <1>3 DEF Keeps, v
<1>5. Takes(v, r, buf)
  BY <1>3 DEF Takes
<1> QED BY <1>2, <1>4, <1>5 DEF Answer, v

(* The body of a message whose length is n: it is complete, or the buffer   *)
(* is at its end.                                                          *)
BodyTaken(t, q, b, n, fit) ==
  /\ t.to \in ReceiversFit(conf.kind, fit) /\ t.rest \in Left(b)
  /\ t.to.headers = q.headers /\ t.to.valid = q.valid /\ t.to.line = q.line
  /\ t.to.body \in Nat /\ q.body <= t.to.body /\ t.to.body <= n
  /\ t.to.body # n => t.rest = <<>>
  /\ Len(t.rest) < Len(b) \/ (t.to = q /\ t.rest = b)
  /\ q.body < n /\ b # <<>> => Len(t.rest) < Len(b)
  /\ t = [to |-> t.to, rest |-> t.rest]

(* The body is taken up to its length, or to the end of the buffer.       *)
LEMMA TakeBodyTakes ==
  ASSUME NEW fit \in BOOLEAN, NEW q \in ReceiversFit(conf.kind, fit), NEW b \in Seq(Tokens),
         NEW n \in Nat, q.body <= n
  PROVE  BodyTaken(TakeBody(q, b, n), q, b, n, fit)
<1> DEFINE t == TakeBody(q, b, n)
           take == IF Len(b) > n - q.body THEN n - q.body ELSE Len(b)
           y == [q EXCEPT !.body = q.body + take]
<1>1. q \in Receivers(conf.kind) /\ q.body \in Nat /\ Len(b) \in Nat
  BY LenProperties DEF ReceiversFit, Receivers
<1>2. take \in Nat /\ take <= Len(b) /\ q.body + take <= n /\ (q.body + take # n => take = Len(b))
  <2>1. CASE Len(b) > n - q.body
    BY <1>1, <2>1
  <2>2. CASE ~(Len(b) > n - q.body)
    BY <1>1, <2>2
  <2> QED BY <2>1, <2>2
<1>3. t.to = y /\ t.rest = From(b, take + 1)
  BY DEF TakeBody
<1>4. t = [to |-> t.to, rest |-> t.rest]
  BY DEF TakeBody
<1> HIDE DEF take
<1>5. /\ y \in Receivers(conf.kind) /\ y.body = q.body + take /\ y.headers = q.headers
      /\ y.valid = q.valid /\ y.line = q.line /\ y.chunk = q.chunk
  <2>1. q.body + take \in Nat
    BY <1>1, <1>2
  <2> QED BY <1>1, <2>1 DEF Receivers
<1>6. y \in ReceiversFit(conf.kind, fit)
  <2> HIDE DEF y
  <2> QED BY <1>5 DEF ReceiversFit, FitRx
<1>7. take = 0 => y = q
  <2>1. take = 0 => q.body + take = q.body
    BY <1>1
  <2>2. [q EXCEPT !.body = q.body] = q
    BY <1>1 DEF Receivers
  <2> QED BY <2>1, <2>2
<1>8. /\ From(b, take + 1) \in Left(b) /\ Len(From(b, take + 1)) = Len(b) - take
      /\ take = Len(b) => From(b, take + 1) = <<>>
  BY <1>2, LeftOf
<1>9. take = 0 => From(b, take + 1) = b
  BY SubSeqFull DEF From
<1>10. Len(b) \in Nat /\ (b # <<>> => Len(b) > 0)
  BY EmptySeq, LenProperties
<1> HIDE DEF t, y
<1>14. take # 0 => Len(t.rest) < Len(b)
  <2>1. \A i, j \in Nat : i # 0 /\ i <= j => j - i < j
    OBVIOUS
  <2> QED BY <1>1, <1>2, <1>3, <1>8, <2>1
<1>11. Len(t.rest) < Len(b) \/ (t.to = q /\ t.rest = b)
  <2>1. CASE take = 0
    BY <1>3, <1>7, <1>9, <2>1
  <2>2. CASE take # 0
    BY <1>14, <2>2
  <2> QED BY <2>1, <2>2
<1>12. q.body < n /\ b # <<>> => Len(t.rest) < Len(b)
  <2> HAVE q.body < n /\ b # <<>>
  <2>1. take # 0
    BY <1>1, <1>2, <1>10
  <2> QED BY <1>14, <2>1
<1>13. t.to.body \in Nat /\ q.body <= t.to.body /\ t.to.body <= n /\ (t.to.body # n => t.rest = <<>>)
  BY <1>1, <1>2, <1>3, <1>5, <1>8
<1> QED BY <1>3, <1>4, <1>5, <1>6, <1>8, <1>11, <1>12, <1>13 DEF BodyTaken, t

(* What the body leaves of the buffer that receive was called with.       *)
LEMMA StartedTakes ==
  ASSUME NEW fit, NEW r, NEW buf \in Seq(Tokens), NEW q, NEW b, Started(q, b, r, buf),
         NEW n \in Nat, NEW t, BodyTaken(t, q, b, n, fit)
  PROVE  /\ t.rest \in Left(buf)
         /\ Len(t.rest) < Len(buf) \/ (t.to = r /\ t.rest = buf /\ q = r)
         /\ q.body < n => Len(t.rest) < Len(buf)
<1>1. b \in Left(buf) /\ b \in Seq(Tokens) /\ t.rest \in Left(b)
  BY DEF Started, BodyTaken, Left
<1>2. t.rest \in Left(buf)
  BY <1>1, LeftOfLeft
<1>3. /\ Len(t.rest) \in Nat /\ Len(b) \in Nat /\ Len(buf) \in Nat
      /\ Len(t.rest) <= Len(b) /\ Len(b) <= Len(buf)
  BY <1>1, LenProperties DEF Left
<1>4. \A i, j, k \in Nat : (i < j /\ j <= k) \/ (i <= j /\ j < k) => i < k
  OBVIOUS
<1>5. CASE q = r /\ b = buf /\ buf # <<>>
  BY <1>2, <1>5 DEF BodyTaken
<1>6. CASE Len(b) < Len(buf)
  BY <1>2, <1>3, <1>4, <1>6
<1> QED BY <1>5, <1>6 DEF Started

(* The body of a request: a request that is not complete keeps at most
   max_content_length_ of it, and something of the buffer is taken.       *)
LEMMA RequestBodyAnswers ==
  ASSUME conf \in Configs, conf.kind = "request", NEW fit \in BOOLEAN, NEW r,
         NEW buf \in Seq(Tokens), NEW q \in ReceiversFit(conf.kind, fit), NEW b,
         Started(q, b, r, buf), ~IsChunked(q.headers)
  PROVE  Answer(RequestBody(q, b), r, buf, fit)
<1> DEFINE n == ContentLength(q.headers)
           t == TakeBody(q, b, n)
           x == IF IsMethod(q, "TRACE") THEN [t.to EXCEPT !.code = "METHOD_NOT_ALLOWED"] ELSE t.to
           method == IF IsMethod(q, "HEAD") /\ conf.translate THEN <<"GET">> ELSE x.line.method
           done == [x EXCEPT !.head = IsMethod(q, "HEAD"), !.line.method = method]
           wrong == n < 0 \/ (IsMethod(q, "TRACE") /\ n # 0)
           large == n > MaxContent /\ ~IsMethod(q, "TRACE")
           missing == n = 0 /\ b # <<>> /\ FieldValue(q.headers, "content-length") = <<>>
           v == RequestBody(q, b)
<1>1. v = CASE wrong -> Refuse(q, b, "BAD_REQUEST")
            [] large -> Refuse(q, b, "PAYLOAD_TOO_LARGE")
            [] missing -> Refuse(q, b, "LENGTH_REQUIRED")
            [] OTHER -> IF x.body = n THEN Verdict(done, t.rest, "VALID", FALSE)
                                      ELSE Verdict(x, t.rest, "INCOMPLETE", FALSE)
  BY DEF RequestBody
<1>2. /\ q \in Receivers(conf.kind) /\ q.headers \in Headers /\ q.body \in Nat
      /\ b \in Left(buf) /\ b \in Seq(Tokens) /\ q.valid = TRUE
  BY DEF ReceiversFit, Receivers, Started, Left
<1>3. n \in Int
  BY <1>2, ContentLengthIsInt
<1>4. {"BAD_REQUEST", "PAYLOAD_TOO_LARGE", "LENGTH_REQUIRED", "METHOD_NOT_ALLOWED"} \subseteq Codes
  BY DEF Codes
<1>5. ~(wrong /\ large) /\ ~(wrong /\ missing) /\ ~(large /\ missing)
  <2>1. \A i \in Int : ~(i < 0 /\ i > MaxContent) /\ ~(i = 0 /\ i > MaxContent) /\ ~(i = 0 /\ i < 0)
    BY BodyLimits
  <2> QED BY <1>3, <2>1
<1>6. q.body # n \/ q.body = 0
  BY DEF Started, BodyOk
<1>7. 0 <= n => q.body <= n
  <2>1. Bound("request", q.headers) = n
    BY DEF Bound
  <2> QED BY <1>2, <1>3, <2>1 DEF Started, BodyOk
<1>8. ~wrong /\ ~large => n \in Nat /\ n <= MaxContent
  <2>1. \A i \in Int : ~(i < 0) => i \in Nat
    OBVIOUS
  <2>2. \A i \in Int : ~(i > MaxContent) => i <= MaxContent
    BY BodyLimits
  <2>3. 0 <= MaxContent
    BY BodyLimits
  <2> QED BY <1>3, <2>1, <2>2, <2>3
<1>9. CASE wrong
  <2>1. v = Refuse(q, b, "BAD_REQUEST")
    BY <1>1, <1>5, <1>9
  <2> QED BY <1>2, <1>4, <2>1, RefuseAnswers
<1>10. CASE large
  <2>1. v = Refuse(q, b, "PAYLOAD_TOO_LARGE")
    BY <1>1, <1>5, <1>10
  <2> QED BY <1>2, <1>4, <2>1, RefuseAnswers
<1>11. CASE missing
  <2>1. v = Refuse(q, b, "LENGTH_REQUIRED")
    BY <1>1, <1>5, <1>11
  <2> QED BY <1>2, <1>4, <2>1, RefuseAnswers
<1>12. CASE ~wrong /\ ~large /\ ~missing
  <2>1. n \in Nat /\ n <= MaxContent /\ q.body <= n
    BY <1>7, <1>8, <1>12
  <2>2. v = IF x.body = n THEN Verdict(done, t.rest, "VALID", FALSE)
                          ELSE Verdict(x, t.rest, "INCOMPLETE", FALSE)
    BY <1>1, <1>12
  <2> HIDE DEF wrong, large, missing, v, n
  <2>3. BodyTaken(t, q, b, n, fit)
    BY <1>2, <2>1, TakeBodyTakes
  <2> HIDE DEF t
  <2>4. /\ t.rest \in Left(buf) /\ (q.body < n => Len(t.rest) < Len(buf))
        /\ Len(t.rest) < Len(buf) \/ (t.to = r /\ t.rest = buf /\ q = r)
    BY <2>1, <2>3, StartedTakes
  <2>5. /\ t.to \in Receivers(conf.kind) /\ t.to \in ReceiversFit(conf.kind, fit)
        /\ t.to.line \in FineLinesOf(conf.kind) /\ (fit => FitRx(t.to))
        /\ t.to.body \in Nat /\ t.to.body <= n /\ (t.to.body # n => t.rest = <<>>)
        /\ t.to.headers = q.headers /\ t.to.valid = TRUE
    BY <1>2, <2>3 DEF BodyTaken, ReceiversFit
  <2>6. /\ x \in Receivers(conf.kind) /\ x.line = t.to.line /\ x.headers = q.headers
        /\ x.body = t.to.body /\ x.valid = TRUE /\ x.chunk = t.to.chunk
    <3>1. CASE IsMethod(q, "TRACE")
      BY <1>4, <2>5, <3>1 DEF Receivers
    <3>2. CASE ~IsMethod(q, "TRACE")
      BY <2>5, <3>2
    <3> QED BY <3>1, <3>2
  <2> HIDE DEF x
  <2>7. fit => FitRx(x)
    BY <2>5, <2>6 DEF FitRx
  <2>8. CASE x.body = n
    <3>1. v = Verdict(done, t.rest, "VALID", FALSE)
      BY <2>2, <2>8
    <3>2. x.line \in RequestLines /\ x.line \in FineRequestLines
      BY <2>5, <2>6 DEF FineLinesOf, LinesOf, Receivers
    <3>3. method \in Seq(Methods) /\ Len(method) <= MaxMethod
      <4>1. CASE IsMethod(q, "HEAD") /\ conf.translate
        <5>1. "GET" \in Methods
          BY DEF Methods
        <5>2. <<"GET">> \in Seq(Methods) /\ Len(<<"GET">>) = 1
          BY <5>1
        <5> QED BY <4>1, <5>2, LineLimits
      <4>2. CASE ~(IsMethod(q, "HEAD") /\ conf.translate)
        BY <3>2, <4>2 DEF FineRequestLines, RequestLines
      <4> QED BY <4>1, <4>2
    <3> HIDE DEF method
    <3> DEFINE l == [x.line EXCEPT !.method = method]
    <3>4. l \in FineRequestLines /\ l \in RequestLines
      <4>1. l \in RequestLines /\ l.method = method /\ l.ws = x.line.ws /\ l.fail = x.line.fail
            /\ l.uri = x.line.uri
        BY <3>2, <3>3 DEF RequestLines
      <4> HIDE DEF l
      <4> QED BY <3>2, <3>3, <4>1 DEF FineRequestLines
    <3>5. IsMethod(q, "HEAD") \in BOOLEAN
      BY DEF IsMethod
    <3>6. done = [x EXCEPT !.head = IsMethod(q, "HEAD"), !.line = l]
      BY <2>6, <3>2 DEF Receivers, RequestLines
    <3> HIDE DEF l
    <3>7. /\ done \in Receivers(conf.kind) /\ done.line = l /\ done.headers = q.headers
          /\ done.chunk = x.chunk
      BY <2>6, <3>4, <3>5, <3>6 DEF Receivers, LinesOf
    <3> HIDE DEF done
    <3>8. Finished(Verdict(done, t.rest, "VALID", FALSE))
      BY <3>7 DEF Finished, Verdict
    <3>9. Len(t.rest) < Len(buf)
      <4>1. CASE q = r
        <5>1. q.body # n \/ Len(b) < Len(buf)
          BY <4>1 DEF Started, BodyOk, n
        <5>2. \A i, j \in Nat : i <= j /\ i # j => i < j
          OBVIOUS
        <5>3. CASE q.body # n
          BY <1>2, <2>1, <2>4, <5>2, <5>3
        <5>4. CASE Len(b) < Len(buf)
          <6>1. t.rest \in Left(b)
            BY <2>3 DEF BodyTaken
          <6>2. Len(t.rest) \in Nat /\ Len(b) \in Nat /\ Len(buf) \in Nat /\ Len(t.rest) <= Len(b)
            BY <1>2, <6>1, LenProperties DEF Left
          <6>3. \A i, j, k \in Nat : i <= j /\ j < k => i < k
            OBVIOUS
          <6> QED BY <5>4, <6>2, <6>3
        <5> QED BY <5>1, <5>3, <5>4
      <4>2. CASE q # r
        BY <2>4, <4>2
      <4> QED BY <4>1, <4>2
    <3>10. fit => FitRx(done)
      BY <2>6, <2>7, <3>7 DEF FitRx
    <3>11. "VALID" \in Verdicts /\ FALSE \in BOOLEAN /\ l \in FineLinesOf(conf.kind)
      BY <3>4 DEF Verdicts, FineLinesOf
    <3>12. Answer(Verdict(done, t.rest, "VALID", FALSE), r, buf, fit)
      BY <2>4, <3>7, <3>8, <3>9, <3>10, <3>11, VerdictAnswers
    <3> QED BY <3>1, <3>12 DEF v
  <2>9. CASE x.body # n
    <3>1. v = Verdict(x, t.rest, "INCOMPLETE", FALSE)
      BY <2>2, <2>9
    <3>2. t.rest = <<>>
      BY <2>5, <2>6, <2>9
    <3>3. BodyOk(conf.kind, x)
      <4>1. x.body <= MaxContent
        BY <2>1, <2>5, <2>6, BodyLimits
      <4>2. Bound(conf.kind, x.headers) = n /\ ContentLength(x.headers) = n
        BY <2>6 DEF Bound, n
      <4> QED BY <2>1, <2>5, <2>6, <2>9, <4>1, <4>2 DEF BodyOk
    <3>4. "INCOMPLETE" \in Verdicts /\ FALSE \in BOOLEAN
      BY DEF Verdicts
    <3>5. Answer(Verdict(x, t.rest, "INCOMPLETE", FALSE), r, buf, fit)
      BY <2>4, <2>5, <2>6, <2>7, <3>2, <3>3, <3>4, VerdictAnswers
    <3> QED BY <3>1, <3>5 DEF v
  <2> QED BY <2>8, <2>9
<1> QED BY <1>9, <1>10, <1>11, <1>12

(* The body of a response: nothing of the buffer is taken only when there is no
   length and max_body_size_ has been kept.                               *)
LEMMA ResponseBodyAnswers ==
  ASSUME conf \in Configs, conf.kind = "response", NEW fit \in BOOLEAN, NEW r,
         NEW buf \in Seq(Tokens), NEW q \in ReceiversFit(conf.kind, fit), NEW b,
         Started(q, b, r, buf), ~IsChunked(q.headers)
  PROVE  Answer(ResponseBody(q, b), r, buf, fit)
<1> DEFINE n == ContentLength(q.headers)
           bare == FieldValue(q.headers, "content-length") = <<>>
           open == b # <<>> /\ n = 0 /\ bare
           N == IF open THEN MaxBody ELSE n
           t == TakeBody(q, b, N)
           verdict == IF t.to.body = n THEN "VALID" ELSE "INCOMPLETE"
           v == ResponseBody(q, b)
<1>1. v = IF n < 0 THEN Refuse(q, b, q.code) ELSE Verdict(t.to, t.rest, verdict, FALSE)
  BY DEF ResponseBody
<1>2. /\ q \in Receivers(conf.kind) /\ q.headers \in Headers /\ q.body \in Nat /\ q.code \in Codes
      /\ b \in Left(buf) /\ b \in Seq(Tokens) /\ q.valid = TRUE
  BY DEF ReceiversFit, Receivers, Started, Left
<1>3. n \in Int
  BY <1>2, ContentLengthIsInt
<1>4. bare => n = 0
  BY DEF ContentLength
<1>5. Bound(conf.kind, q.headers) = IF bare THEN MaxBody ELSE n
  BY DEF Bound
<1>6. \/ q = r /\ b = buf /\ buf # <<>> /\ q.body # n /\ q.body <= (IF bare THEN MaxBody ELSE n)
      \/ q.body = 0 /\ Len(b) < Len(buf)
  BY <1>2, <1>5 DEF Started, BodyOk
<1>7. MaxBody \in Nat
  BY BodyLimits
<1>8. CASE n < 0
  <2>1. v = Refuse(q, b, q.code)
    BY <1>1, <1>8
  <2> QED BY <1>2, <2>1, RefuseAnswers
<1>9. CASE ~(n < 0)
  <2>1. n \in Nat
    BY <1>3, <1>9
  <2>2. v = Verdict(t.to, t.rest, verdict, FALSE)
    BY <1>1, <1>9
  <2> HIDE DEF v
  <2>3. N \in Nat /\ q.body <= N
    <3>1. CASE q.body = 0
      BY <1>7, <2>1, <3>1
    <3>2. CASE q = r /\ b = buf /\ buf # <<>> /\ q.body <= (IF bare THEN MaxBody ELSE n)
      BY <1>4, <1>7, <2>1, <3>2
    <3> QED BY <1>6, <3>1, <3>2
  <2>4. ~open => N = n
    OBVIOUS
  <2>5. open => N = MaxBody /\ n = 0 /\ bare
    OBVIOUS
  <2>6. bare /\ ~open => b = <<>> /\ n = 0
    BY <1>4
  <2> HIDE DEF n, N, open
  <2>7. BodyTaken(t, q, b, N, fit)
    BY <1>2, <2>3, TakeBodyTakes
  <2> HIDE DEF t
  <2>8. /\ t.rest \in Left(buf) /\ (q.body < N => Len(t.rest) < Len(buf))
        /\ Len(t.rest) < Len(buf) \/ (t.to = r /\ t.rest = buf /\ q = r)
    BY <2>3, <2>7, StartedTakes
  <2>9. /\ t.to \in Receivers(conf.kind) /\ t.to \in ReceiversFit(conf.kind, fit)
        /\ t.to.line \in FineLinesOf(conf.kind) /\ (fit => FitRx(t.to))
        /\ t.to.body \in Nat /\ t.to.body <= N /\ q.body <= t.to.body
        /\ t.to.body # N => t.rest = <<>>
        /\ t.to.headers = q.headers /\ t.to.valid = TRUE
    BY <1>2, <2>7 DEF BodyTaken, ReceiversFit
  <2>10. "VALID" \in Verdicts /\ "INCOMPLETE" \in Verdicts /\ FALSE \in BOOLEAN
    BY DEF Verdicts
  <2>11. CASE t.to.body = n
    <3>1. verdict = "VALID"
      BY <2>11
    <3> HIDE DEF verdict
    <3>2. Finished(Verdict(t.to, t.rest, "VALID", FALSE))
      BY <2>9 DEF Finished, Verdict
    <3>3. Len(t.rest) < Len(buf)
      <4>1. CASE q.body = 0 /\ Len(b) < Len(buf)
        <5>1. t.rest \in Left(b)
          BY <2>7 DEF BodyTaken
        <5>2. Len(t.rest) \in Nat /\ Len(b) \in Nat /\ Len(buf) \in Nat /\ Len(t.rest) <= Len(b)
          BY <1>2, <5>1, LenProperties DEF Left
        <5>3. \A i, j, k \in Nat : i <= j /\ j < k => i < k
          OBVIOUS
        <5> QED BY <4>1, <5>2, <5>3
      <4>2. CASE q.body # n
        <5>1. CASE open
          BY <1>2, <2>5, <2>9, <2>11, <4>2, <5>1
        <5>2. CASE ~open
          <6>1. \A i, j \in Nat : i <= j /\ i # j => i < j
            OBVIOUS
          <6> QED BY <1>2, <2>1, <2>3, <2>4, <2>8, <4>2, <5>2, <6>1
        <5> QED BY <5>1, <5>2
      <4> QED BY <1>6, <4>1, <4>2
    <3>4. Answer(Verdict(t.to, t.rest, "VALID", FALSE), r, buf, fit)
      BY <2>8, <2>9, <2>10, <3>2, <3>3, VerdictAnswers
    <3> QED BY <2>2, <3>1, <3>4 DEF v
  <2>12. CASE t.to.body # n
    <3>1. verdict = "INCOMPLETE"
      BY <2>12
    <3> HIDE DEF verdict
    <3> DEFINE w == Verdict(t.to, t.rest, "INCOMPLETE", FALSE)
    <3>2. w = [to |-> t.to, rest |-> t.rest, verdict |-> "INCOMPLETE", bad |-> FALSE]
      BY DEF Verdict
    <3> HIDE DEF w
    <3>3. BodyOk(conf.kind, t.to)
      <4>1. t.to.body <= (IF bare THEN MaxBody ELSE n)
        <5>1. CASE open
          BY <2>5, <2>9, <5>1
        <5>2. CASE ~open /\ bare
          BY <1>7, <2>1, <2>4, <2>6, <2>9, <2>12, <5>2
        <5>3. CASE ~open /\ ~bare
          BY <2>4, <2>9, <5>3
        <5> QED BY <5>1, <5>2, <5>3
      <4>2. Bound(conf.kind, t.to.headers) = (IF bare THEN MaxBody ELSE n)
            /\ ContentLength(t.to.headers) = n
        BY <1>5, <2>9 DEF n
      <4>3. 0 <= n
        BY <2>1
      <4> QED BY <2>9, <2>12, <4>1, <4>2, <4>3 DEF BodyOk
    <3>4. Answered(w, buf)
      BY <2>8, <2>9, <2>10, <3>2 DEF Answered
    <3>5. Keeps(w, fit)
      BY <2>9, <3>2, <3>3 DEF Keeps
    <3>6. Takes(w, r, buf)
      <4>1. w.verdict = "INCOMPLETE" /\ w.rest = t.rest /\ w.to = t.to
        BY <3>2
      <4>2. CASE ~open
        BY <2>4, <2>9, <2>12, <4>1, <4>2 DEF Takes
      <4>3. CASE open /\ t.to.body # MaxBody
        BY <2>5, <2>9, <4>1, <4>3 DEF Takes
      <4>4. CASE open /\ t.to.body = MaxBody
        <5>1. CASE Len(t.rest) < Len(buf)
          BY <4>1, <5>1 DEF Takes
        <5>2. CASE t.to = r /\ t.rest = buf /\ q = r
          <6>1. Full(r)
            BY <2>5, <4>4, <5>2 DEF Full, Bare
          <6> QED BY <4>1, <5>2, <6>1 DEF Takes
        <5> QED BY <2>8, <5>1, <5>2
      <4> QED BY <4>2, <4>3, <4>4
    <3> QED BY <2>2, <3>1, <3>4, <3>5, <3>6 DEF Answer, v, w
  <2> QED BY <2>11, <2>12
<1> QED BY <1>8, <1>9

-----------------------------------------------------------------------------
(* What receive answers: a chunk.                                         *)

(* The chunk that the parse goes on with.                                 *)
LEMMA ChunkFits ==
  ASSUME NEW fit \in BOOLEAN, NEW kind, NEW q \in ReceiversFit(kind, fit)
  PROVE  Chunk(q) \in ChunksFit(fit) /\ Chunk(q).valid = FALSE
<1>1. q.chunk \in ChunksFit(FALSE) /\ (fit => Fit(q.chunk.trailers))
  BY DEF ReceiversFit, Receivers, FitRx
<1>2. q.chunk \in ChunksFit(fit) /\ q.chunk.valid \in BOOLEAN
  BY <1>1 DEF ChunksFit, Chunks
<1>3. NewChunk \in ChunksFit(fit) /\ NewChunk.valid = FALSE
  BY NewChunkFits DEF ChunksFit
<1> QED BY <1>2, <1>3 DEF Chunk

(* A receiver of a chunked message that is given another chunk.            *)
Rechunked(y, q, k, kind, fit) ==
  /\ y \in Receivers(kind) /\ y.line \in FineLinesOf(kind) /\ BodyOk(kind, y)
  /\ y.chunk = k /\ y.headers = q.headers /\ y.body = q.body /\ y.valid = TRUE
  /\ fit => Fit(y.headers)
  /\ fit /\ Fit(k.trailers) => FitRx(y)

LEMMA RechunkedRx ==
  ASSUME NEW fit \in BOOLEAN, NEW kind, NEW q \in ReceiversFit(kind, fit), q.valid = TRUE,
         IsChunked(q.headers), kind = "request" => q.body <= MaxContent,
         NEW k \in ChunksFit(FALSE)
  PROVE  Rechunked([q EXCEPT !.chunk = k], q, k, kind, fit)
<1> DEFINE y == [q EXCEPT !.chunk = k]
<1>1. q \in Receivers(kind) /\ q.line \in FineLinesOf(kind) /\ (fit => Fit(q.headers))
  BY DEF ReceiversFit, FitRx
<1>2. /\ y \in Receivers(kind) /\ y.chunk = k /\ y.headers = q.headers /\ y.body = q.body
      /\ y.code = q.code /\ y.valid = TRUE /\ y.line = q.line
  BY <1>1 DEF Receivers
<1> HIDE DEF y
<1> QED BY <1>1, <1>2 DEF FitRx, BodyOk, Rechunked, y

(* What the chunk that has been parsed leaves of the buffer.               *)
LEMMA ChunkStarted ==
  ASSUME NEW fit \in BOOLEAN, NEW r, NEW buf \in Seq(Tokens),
         NEW q \in ReceiversFit(conf.kind, fit), NEW b, Started(q, b, r, buf)
  PROVE  LET p == ChunkParse(Chunk(q), b)
         IN  /\ p.to \in ChunksFit(FALSE) /\ p.rest \in Left(buf)
             /\ p.ok \in BOOLEAN /\ p.bad \in BOOLEAN
             /\ p.ok => p.bad = FALSE /\ Len(p.rest) < Len(buf)
             /\ p.bad = FALSE /\ fit => Fit(p.to.trailers)
             /\ conf.kind = "request" => q.body <= MaxContent
<1> DEFINE p == ChunkParse(Chunk(q), b)
<1>1. b \in Left(buf) /\ b \in Seq(Tokens)
  BY DEF Started, Left
<1>2. p \in Results(ChunksFit(FALSE), ChunksFit(fit), b) /\ Shorter(p, b)
  BY <1>1, ChunkFits, ChunkParseResults
<1> HIDE DEF p
<1>3. /\ p.to \in ChunksFit(FALSE) /\ p.ok \in BOOLEAN /\ p.bad \in BOOLEAN
      /\ (p.ok => p.bad = FALSE) /\ (p.bad = FALSE => p.to \in ChunksFit(fit)) /\ p.rest \in Left(b)
  BY <1>2 DEF Results
<1>4. p.rest \in Left(buf)
  BY <1>1, <1>3, LeftOfLeft
<1>5. p.ok => Len(p.rest) < Len(buf)
  <2>1. Len(p.rest) \in Nat /\ Len(b) \in Nat /\ Len(buf) \in Nat /\ Len(b) <= Len(buf)
    BY <1>1, <1>4, LenProperties DEF Left
  <2>2. \A i, j, k \in Nat : i < j /\ j <= k => i < k
    OBVIOUS
  <2> QED BY <1>2, <2>1, <2>2 DEF Shorter
<1>6. conf.kind = "request" => q.body <= MaxContent
  <2>1. 0 <= MaxContent
    BY BodyLimits
  <2> QED BY <2>1 DEF Started, BodyOk
<1> QED BY <1>3, <1>4, <1>5, <1>6 DEF p, ChunksFit

(* A chunk of a request, kept or handed on.                               *)
LEMMA RequestChunkParsedAnswers ==
  ASSUME conf \in Configs, conf.kind = "request", NEW fit \in BOOLEAN, NEW r,
         NEW buf \in Seq(Tokens), NEW q \in ReceiversFit(conf.kind, fit), NEW b,
         Started(q, b, r, buf), IsChunked(q.headers)
  PROVE  Answer(RequestChunkParsed(ChunkParse(Chunk(q), b), q), r, buf, fit)
<1> DEFINE p == ChunkParse(Chunk(q), b)
           y == [q EXCEPT !.chunk = p.to]
           v == RequestChunkParsed(p, q)
<1>1. /\ p.to \in ChunksFit(FALSE) /\ p.rest \in Left(buf)
      /\ p.ok \in BOOLEAN /\ p.bad \in BOOLEAN
      /\ p.ok => p.bad = FALSE /\ Len(p.rest) < Len(buf)
      /\ p.bad = FALSE /\ fit => Fit(p.to.trailers)
      /\ q.body <= MaxContent
  BY ChunkStarted
<1>2. v = CASE ~p.ok -> IF p.rest # <<>> THEN Refuse(y, p.rest, "BAD_REQUEST")
                                         ELSE Verdict(y, <<>>, "INCOMPLETE", p.bad)
            [] p.ok /\ ~conf.concat -> Verdict(y, p.rest, "CHUNK", FALSE)
            [] p.ok /\ conf.concat /\ p.to.size = 0 -> Verdict(y, p.rest, "VALID", FALSE)
            [] OTHER ->
                 IF q.body + p.to.data > MaxContent
                   THEN Refuse(y, p.rest, "PAYLOAD_TOO_LARGE")
                   ELSE Verdict([y EXCEPT !.body = @ + p.to.data], p.rest, "INCOMPLETE", FALSE)
  BY DEF RequestChunkParsed
<1> HIDE DEF p, v
<1>3. q.valid = TRUE
  BY DEF Started
<1>4. /\ y \in Receivers(conf.kind) /\ y.line \in FineLinesOf(conf.kind) /\ BodyOk(conf.kind, y)
      /\ y.chunk = p.to /\ y.headers = q.headers /\ y.body = q.body /\ y.valid = TRUE
      /\ fit => Fit(y.headers)
      /\ fit /\ Fit(p.to.trailers) => FitRx(y)
  <2>1. Rechunked(y, q, p.to, conf.kind, fit)
    BY <1>1, <1>3, RechunkedRx
  <2> QED BY <2>1 DEF Rechunked
<1> HIDE DEF y
<1>5. {"VALID", "CHUNK", "INCOMPLETE"} \subseteq Verdicts /\ FALSE \in BOOLEAN
  BY DEF Verdicts
<1>6. {"BAD_REQUEST", "PAYLOAD_TOO_LARGE"} \subseteq Codes
  BY DEF Codes
<1>7. CASE ~p.ok /\ p.rest # <<>>
  <2>1. v = Refuse(y, p.rest, "BAD_REQUEST")
    BY <1>2, <1>7
  <2> QED BY <1>1, <1>4, <1>6, <2>1, RefuseAnswers DEF p, v
<1>8. CASE ~p.ok /\ p.rest = <<>>
  <2>1. v = Verdict(y, <<>>, "INCOMPLETE", p.bad)
    BY <1>2, <1>8
  <2>2. <<>> \in Left(buf)
    BY <1>1, <1>8
  <2>3. Answer(Verdict(y, <<>>, "INCOMPLETE", p.bad), r, buf, fit)
    BY <1>1, <1>4, <1>5, <2>2, VerdictAnswers
  <2> QED BY <2>1, <2>3 DEF p, v
<1>9. CASE p.ok /\ ~conf.concat
  <2>1. v = Verdict(y, p.rest, "CHUNK", FALSE)
    BY <1>2, <1>9
  <2>2. Answer(Verdict(y, p.rest, "CHUNK", FALSE), r, buf, fit)
    BY <1>1, <1>4, <1>5, <1>9, VerdictAnswers
  <2> QED BY <2>1, <2>2 DEF p, v
<1>10. CASE p.ok /\ conf.concat /\ p.to.size = 0
  <2>1. v = Verdict(y, p.rest, "VALID", FALSE)
    BY <1>2, <1>10
  <2>2. Answer(Verdict(y, p.rest, "VALID", FALSE), r, buf, fit)
    BY <1>1, <1>4, <1>5, <1>10, VerdictAnswers
  <2> QED BY <2>1, <2>2 DEF p, v
<1>11. CASE p.ok /\ conf.concat /\ p.to.size # 0
  <2> DEFINE n == q.body + p.to.data
             z == [y EXCEPT !.body = @ + p.to.data]
  <2>1. v = IF n > MaxContent THEN Refuse(y, p.rest, "PAYLOAD_TOO_LARGE")
                              ELSE Verdict(z, p.rest, "INCOMPLETE", FALSE)
    BY <1>2, <1>11
  <2>2. n \in Nat
    <3>1. q.body \in Nat /\ p.to.data \in Nat
      BY <1>1 DEF ReceiversFit, Receivers, ChunksFit, Chunks
    <3> QED BY <3>1
  <2>3. z = [y EXCEPT !.body = n]
    BY <1>4
  <2> HIDE DEF n
  <2>4. /\ z \in Receivers(conf.kind) /\ z.line = y.line /\ z.headers = y.headers /\ z.body = n
        /\ z.valid = TRUE /\ z.chunk = y.chunk
    BY <1>4, <2>2, <2>3 DEF Receivers
  <2> HIDE DEF z
  <2>5. CASE n > MaxContent
    BY <1>1, <1>4, <1>6, <2>1, <2>5, RefuseAnswers DEF p, v
  <2>6. CASE ~(n > MaxContent)
    <3>1. n <= MaxContent
      BY <2>2, <2>6, BodyLimits
    <3>2. BodyOk(conf.kind, z)
      BY <1>4, <2>4, <3>1 DEF BodyOk
    <3>3. fit => FitRx(z)
      BY <1>1, <1>4, <1>11, <2>4 DEF FitRx
    <3>4. z.line \in FineLinesOf(conf.kind)
      BY <1>4, <2>4
    <3>5. Answer(Verdict(z, p.rest, "INCOMPLETE", FALSE), r, buf, fit)
      BY <1>1, <1>5, <1>11, <2>4, <3>2, <3>3, <3>4, VerdictAnswers
    <3> QED BY <2>1, <2>6, <3>5 DEF p, v
  <2> QED BY <2>5, <2>6
<1> QED BY <1>7, <1>8, <1>9, <1>10, <1>11

(* A chunk of a response.                                                 *)
LEMMA ResponseChunkParsedAnswers ==
  ASSUME conf \in Configs, conf.kind = "response", NEW fit \in BOOLEAN, NEW r,
         NEW buf \in Seq(Tokens), NEW q \in ReceiversFit(conf.kind, fit), NEW b,
         Started(q, b, r, buf), IsChunked(q.headers)
  PROVE  Answer(ResponseChunkParsed(ChunkParse(Chunk(q), b), q), r, buf, fit)
<1> DEFINE p == ChunkParse(Chunk(q), b)
           y == [q EXCEPT !.chunk = p.to]
           v == ResponseChunkParsed(p, q)
<1>1. /\ p.to \in ChunksFit(FALSE) /\ p.rest \in Left(buf)
      /\ p.ok \in BOOLEAN /\ p.bad \in BOOLEAN
      /\ p.ok => p.bad = FALSE /\ Len(p.rest) < Len(buf)
      /\ p.bad = FALSE /\ fit => Fit(p.to.trailers)
  BY ChunkStarted
<1>2. v = CASE p.ok -> Verdict(y, p.rest, "CHUNK", FALSE)
            [] ~p.ok /\ p.rest # <<>> -> Refuse(y, p.rest, q.code)
            [] OTHER -> Verdict(y, <<>>, "INCOMPLETE", p.bad)
  BY DEF ResponseChunkParsed
<1> HIDE DEF p, v
<1>3. q.valid = TRUE /\ q.code \in Codes
  BY DEF Started, ReceiversFit, Receivers
<1>4. /\ y \in Receivers(conf.kind) /\ y.line \in FineLinesOf(conf.kind) /\ BodyOk(conf.kind, y)
      /\ y.chunk = p.to /\ y.headers = q.headers /\ y.body = q.body /\ y.valid = TRUE
      /\ fit => Fit(y.headers)
      /\ fit /\ Fit(p.to.trailers) => FitRx(y)
  <2>1. Rechunked(y, q, p.to, conf.kind, fit)
    BY <1>1, <1>3, RechunkedRx
  <2> QED BY <2>1 DEF Rechunked
<1> HIDE DEF y
<1>5. {"CHUNK", "INCOMPLETE"} \subseteq Verdicts /\ FALSE \in BOOLEAN
  BY DEF Verdicts
<1>6. CASE p.ok
  <2>1. Answer(Verdict(y, p.rest, "CHUNK", FALSE), r, buf, fit)
    BY <1>1, <1>4, <1>5, <1>6, VerdictAnswers
  <2> QED BY <1>2, <1>6, <2>1 DEF p, v
<1>7. CASE ~p.ok /\ p.rest # <<>>
  <2>1. v = Refuse(y, p.rest, q.code)
    BY <1>2, <1>7
  <2> QED BY <1>1, <1>3, <1>4, <2>1, RefuseAnswers DEF p, v
<1>8. CASE ~p.ok /\ p.rest = <<>>
  <2>1. v = Verdict(y, <<>>, "INCOMPLETE", p.bad)
    BY <1>2, <1>8
  <2>2. <<>> \in Left(buf)
    BY <1>1, <1>8
  <2>3. Answer(Verdict(y, <<>>, "INCOMPLETE", p.bad), r, buf, fit)
    BY <1>1, <1>4, <1>5, <2>2, VerdictAnswers
  <2> QED BY <2>1, <2>3 DEF p, v
<1> QED BY <1>6, <1>7, <1>8

-----------------------------------------------------------------------------
(* What receive answers.                                                  *)

(* A verdict that ends the loop, without clear.                           *)
LEMMA InvalidAnswers ==
  ASSUME NEW fit, NEW r, NEW buf, NEW q \in Receivers(conf.kind), NEW rest \in Left(buf)
  PROVE  Answer(Verdict(q, rest, "INVALID", TRUE), r, buf, fit)
<1> DEFINE v == Verdict(q, rest, "INVALID", TRUE)
<1>1. v = [to |-> q, rest |-> rest, verdict |-> "INVALID", bad |-> TRUE]
  BY DEF Verdict
<1> HIDE DEF v
<1>2. Answered(v, buf) /\ v.verdict = "INVALID"
  BY <1>1 DEF Answered, Verdicts
<1> QED BY <1>2 DEF Answer, Keeps, Takes, v

(* The headers have been completed by this buffer.                        *)
LEMMA StartedShorter ==
  ASSUME NEW r, NEW buf, NEW q, NEW b, Started(q, b, r, buf), r.valid = FALSE
  PROVE  Len(b) < Len(buf) /\ b \in Left(buf)
BY DEF Started

(* A chunked request, from the end of its headers on.                     *)
LEMMA RequestChunkAnswers ==
  ASSUME conf \in Configs, conf.kind = "request", NEW fit \in BOOLEAN, NEW r,
         NEW buf \in Seq(Tokens), NEW q \in ReceiversFit(conf.kind, fit), NEW b,
         Started(q, b, r, buf), IsChunked(q.headers), NEW parsed \in BOOLEAN,
         parsed => r.valid = FALSE
  PROVE  Answer(RequestChunk(q, b, parsed), r, buf, fit)
<1> DEFINE c == [q EXCEPT !.chunk = Chunk(q)]
           w == [c EXCEPT !.code = "CONTINUE"]
           expects == ExpectContinue(q) /\ ~q.continued
           v == RequestChunk(q, b, parsed)
<1>1. v = CASE parsed /\ expects -> Verdict(w, b, "EXPECT_CONTINUE", FALSE)
            [] parsed /\ ~expects /\ ~conf.concat -> Verdict(c, b, "VALID", FALSE)
            [] OTHER -> RequestChunkParsed(ChunkParse(Chunk(q), b), q)
  BY DEF RequestChunk
<1>2. q.valid = TRUE /\ q.body <= MaxContent
  BY ChunkStarted DEF Started
<1>3. Chunk(q) \in ChunksFit(fit) /\ Chunk(q) \in ChunksFit(FALSE)
  BY ChunkFits DEF ChunksFit
<1>4. Rechunked(c, q, Chunk(q), conf.kind, fit)
  BY <1>2, <1>3, RechunkedRx
<1> HIDE DEF c, expects, v
<1>5. /\ c \in Receivers(conf.kind) /\ c.line \in FineLinesOf(conf.kind) /\ BodyOk(conf.kind, c)
      /\ fit => FitRx(c)
  BY <1>3, <1>4 DEF Rechunked, ChunksFit
<1>6. {"VALID", "EXPECT_CONTINUE"} \subseteq Verdicts /\ FALSE \in BOOLEAN
  BY DEF Verdicts
<1>7. CASE parsed /\ expects
  <2>1. "CONTINUE" \in Codes
    BY DEF Codes
  <2>2. /\ w \in Receivers(conf.kind) /\ w.line = c.line /\ w.headers = c.headers
        /\ w.chunk = c.chunk /\ w.body = c.body /\ w.valid = c.valid
    BY <1>5, <2>1 DEF Receivers
  <2> HIDE DEF w
  <2>3. BodyOk(conf.kind, w) /\ (fit => FitRx(w)) /\ w.line \in FineLinesOf(conf.kind)
    BY <1>5, <2>2 DEF BodyOk, FitRx
  <2>4. b \in Left(buf) /\ Len(b) < Len(buf)
    BY <1>7, StartedShorter
  <2>5. Answer(Verdict(w, b, "EXPECT_CONTINUE", FALSE), r, buf, fit)
    BY <1>6, <2>2, <2>3, <2>4, VerdictAnswers
  <2>6. v = Verdict(w, b, "EXPECT_CONTINUE", FALSE)
    BY <1>1, <1>7
  <2> QED BY <2>5, <2>6 DEF v
<1>8. CASE parsed /\ ~expects /\ ~conf.concat
  <2>1. b \in Left(buf) /\ Len(b) < Len(buf)
    BY <1>8, StartedShorter
  <2>2. Answer(Verdict(c, b, "VALID", FALSE), r, buf, fit)
    BY <1>5, <1>6, <2>1, VerdictAnswers
  <2>3. v = Verdict(c, b, "VALID", FALSE)
    BY <1>1, <1>8
  <2> QED BY <2>2, <2>3 DEF v
<1>9. CASE ~(parsed /\ expects) /\ ~(parsed /\ ~expects /\ ~conf.concat)
  <2>1. v = RequestChunkParsed(ChunkParse(Chunk(q), b), q)
    BY <1>1, <1>9
  <2> QED BY <2>1, RequestChunkParsedAnswers DEF v
<1> QED BY <1>7, <1>8, <1>9

(* A chunked response, from the end of its headers on.                    *)
LEMMA ResponseChunkAnswers ==
  ASSUME conf \in Configs, conf.kind = "response", NEW fit \in BOOLEAN, NEW r,
         NEW buf \in Seq(Tokens), NEW q \in ReceiversFit(conf.kind, fit), NEW b,
         Started(q, b, r, buf), IsChunked(q.headers), NEW parsed \in BOOLEAN,
         parsed => r.valid = FALSE
  PROVE  Answer(ResponseChunk(q, b, parsed), r, buf, fit)
<1> DEFINE c == [q EXCEPT !.chunk = Chunk(q)]
<1>1. q.valid = TRUE
  BY DEF Started
<1>2. Chunk(q) \in ChunksFit(fit) /\ Chunk(q) \in ChunksFit(FALSE)
  BY ChunkFits DEF ChunksFit
<1>3. Rechunked(c, q, Chunk(q), conf.kind, fit)
  BY <1>1, <1>2, RechunkedRx
<1>4. CASE parsed
  <2>1. ResponseChunk(q, b, parsed) = Verdict(c, b, "VALID", FALSE)
    BY <1>4 DEF ResponseChunk
  <2> HIDE DEF c
  <2>2. /\ c \in Receivers(conf.kind) /\ c.line \in FineLinesOf(conf.kind)
        /\ BodyOk(conf.kind, c) /\ (fit => FitRx(c))
    BY <1>2, <1>3 DEF Rechunked, ChunksFit
  <2>3. "VALID" \in Verdicts /\ FALSE \in BOOLEAN
    BY DEF Verdicts
  <2>4. b \in Left(buf) /\ Len(b) < Len(buf)
    BY <1>4, StartedShorter
  <2>5. Answer(Verdict(c, b, "VALID", FALSE), r, buf, fit)
    BY <2>2, <2>3, <2>4, VerdictAnswers
  <2> QED BY <2>1, <2>5
<1>5. CASE ~parsed
  <2>1. ResponseChunk(q, b, parsed) = ResponseChunkParsed(ChunkParse(Chunk(q), b), q)
    BY <1>5 DEF ResponseChunk
  <2> QED BY <2>1, ResponseChunkParsedAnswers
<1> QED BY <1>4, <1>5

(* The start line and the headers, when receive is called.                 *)
Begun(p, r, buf, fit) ==
  /\ p.to \in Receivers(conf.kind) /\ p.rest \in Left(buf)
  /\ p.ok \in BOOLEAN /\ p.bad \in BOOLEAN
  /\ p.ok => p.to \in ReceiversFit(conf.kind, fit) /\ Started(p.to, p.rest, r, buf)
  /\ ~p.ok => /\ p.to.valid = FALSE /\ p.to.body = 0
              /\ p.to.line \in FineLinesOf(conf.kind) \/ p.to.line.fail = TRUE
              /\ p.bad = FALSE => p.to \in ReceiversFit(conf.kind, fit)

(* The start line and the headers: complete before, or parsed now.        *)
LEMMA StartBegins ==
  ASSUME conf \in Configs, NEW fit \in BOOLEAN, NEW r \in ReceiversFit(conf.kind, fit),
         BodyOk(conf.kind, r), NEW buf \in Seq(Tokens), buf # <<>>
  PROVE  Begun(Start(r, buf), r, buf, fit)
<1> DEFINE p == Start(r, buf)
<1>1. r \in Receivers(conf.kind) /\ r.valid \in BOOLEAN /\ Len(buf) \in Nat
  BY LenProperties DEF ReceiversFit, Receivers
<1>2. CASE r.valid = TRUE
  <2>1. p = [to |-> r, rest |-> buf, ok |-> TRUE, bad |-> FALSE]
    BY <1>2 DEF Start, Parsed
  <2> HIDE DEF p
  <2>2. buf \in Left(buf)
    BY <1>1, AllLeft
  <2>3. Started(r, buf, r, buf)
    BY <1>2, <2>2 DEF Started
  <2> QED BY <1>1, <2>1, <2>2, <2>3 DEF Begun, p
<1>3. CASE r.valid = FALSE
  <2>1. p = MessageParse(r, buf)
    BY <1>3 DEF Start
  <2> HIDE DEF p
  <2>2. /\ p \in Results(Receivers(conf.kind), ReceiversFit(conf.kind, fit), buf)
        /\ MessageParsed(p, r) /\ Shorter(p, buf)
    BY <1>3, <2>1, MessageParseResults
  <2>3. /\ p.to \in Receivers(conf.kind) /\ p.rest \in Left(buf)
        /\ p.ok \in BOOLEAN /\ p.bad \in BOOLEAN /\ (p.ok => p.bad = FALSE)
        /\ p.bad = FALSE => p.to \in ReceiversFit(conf.kind, fit)
    BY <2>2 DEF Results
  <2>4. p.to.body = 0
    BY <1>3, <2>2 DEF MessageParsed, BodyOk
  <2>5. p.ok => Started(p.to, p.rest, r, buf)
    BY <2>2, <2>3, <2>4 DEF Started, MessageParsed, Shorter
  <2> QED BY <2>2, <2>3, <2>4, <2>5 DEF Begun, MessageParsed, p
<1> QED BY <1>1, <1>2, <1>3

(* The headers are not complete yet, and nothing is wrong.                 *)
LEMMA IncompleteAnswers ==
  ASSUME NEW fit \in BOOLEAN, NEW r, NEW buf, NEW p, Begun(p, r, buf, fit),
         ~p.ok, p.rest = <<>>, ~p.to.line.fail
  PROVE  Answer(Verdict(p.to, <<>>, "INCOMPLETE", p.bad), r, buf, fit)
<1>1. /\ p.to \in Receivers(conf.kind) /\ <<>> \in Left(buf) /\ p.bad \in BOOLEAN
      /\ p.to.valid = FALSE /\ p.to.body = 0 /\ p.to.line \in FineLinesOf(conf.kind)
      /\ p.bad = FALSE => (fit => FitRx(p.to))
  BY DEF Begun, ReceiversFit
<1>2. 0 <= MaxContent
  BY BodyLimits
<1>3. BodyOk(conf.kind, p.to)
  BY <1>1, <1>2 DEF BodyOk
<1>4. "INCOMPLETE" \in Verdicts
  BY DEF Verdicts
<1> QED BY <1>1, <1>3, <1>4, VerdictAnswers

(* What receive answers, whatever it is called with.                       *)
LEMMA ReceiveAnswers ==
  ASSUME conf \in Configs, NEW fit \in BOOLEAN, NEW r \in ReceiversFit(conf.kind, fit),
         BodyOk(conf.kind, r), NEW buf \in Seq(Tokens), buf # <<>>
  PROVE  Answer(Receive(r, buf), r, buf, fit)
<1> DEFINE p == Start(r, buf)
           parsed == ~r.valid
<1>1. Begun(p, r, buf, fit)
  BY StartBegins
<1>2. conf.kind \in {"request", "response"}
  BY ConfigsAssumption
<1>3. parsed \in BOOLEAN /\ (parsed => r.valid = FALSE)
  BY DEF ReceiversFit, Receivers
<1>4. conf.kind = "request" => Receive(r, buf) = RequestStarted(p, r)
  BY DEF Receive, RequestReceive
<1>5. conf.kind # "request" => Receive(r, buf) = ResponseStarted(p, r)
  BY DEF Receive, ResponseReceive
<1> HIDE DEF p
<1>6. /\ p.to \in Receivers(conf.kind) /\ p.rest \in Left(buf) /\ p.ok \in BOOLEAN
      /\ p.to.code \in Codes /\ r.code \in Codes
      /\ p.ok => p.to \in ReceiversFit(conf.kind, fit) /\ Started(p.to, p.rest, r, buf)
  BY <1>1 DEF Begun, ReceiversFit, Receivers
<1>7. CASE conf.kind = "request"
  <2> DEFINE v == RequestStarted(p, r)
  <2>1. v = CASE ~p.ok /\ (p.rest # <<>> \/ p.to.line.fail) ->
                   Refuse(p.to, p.rest, SyntaxCode(p.to))
              [] ~p.ok /\ p.rest = <<>> /\ ~p.to.line.fail ->
                   Verdict(p.to, <<>>, "INCOMPLETE", p.bad)
              [] p.ok /\ MissingHost(p.to) ->
                   Verdict([p.to EXCEPT !.code = "BAD_REQUEST"], p.rest, "INVALID", TRUE)
              [] p.ok /\ ~MissingHost(p.to) /\ ~IsChunked(p.to.headers) ->
                   RequestBody(p.to, p.rest)
              [] OTHER -> RequestChunk(p.to, p.rest, parsed)
    BY DEF RequestStarted
  <2> HIDE DEF v, parsed
  <2>2. CASE ~p.ok /\ (p.rest # <<>> \/ p.to.line.fail)
    <3>1. SyntaxCode(p.to) \in Codes
      BY DEF SyntaxCode, Codes
    <3>2. v = Refuse(p.to, p.rest, SyntaxCode(p.to))
      BY <2>1, <2>2
    <3> QED BY <1>4, <1>6, <1>7, <3>1, <3>2, RefuseAnswers DEF v
  <2>3. CASE ~p.ok /\ p.rest = <<>> /\ ~p.to.line.fail
    <3>1. v = Verdict(p.to, <<>>, "INCOMPLETE", p.bad)
      BY <2>1, <2>3
    <3> QED BY <1>1, <1>4, <1>7, <2>3, <3>1, IncompleteAnswers DEF v
  <2>4. CASE p.ok /\ MissingHost(p.to)
    <3> DEFINE y == [p.to EXCEPT !.code = "BAD_REQUEST"]
    <3>1. v = Verdict(y, p.rest, "INVALID", TRUE)
      BY <2>1, <2>4
    <3>2. y \in Receivers(conf.kind)
      <4>1. "BAD_REQUEST" \in Codes
        BY DEF Codes
      <4> QED BY <1>6, <4>1 DEF Receivers
    <3> HIDE DEF y
    <3>3. Answer(Verdict(y, p.rest, "INVALID", TRUE), r, buf, fit)
      BY <1>6, <3>2, InvalidAnswers
    <3> QED BY <1>4, <1>7, <3>1, <3>3 DEF v
  <2>5. CASE p.ok /\ ~MissingHost(p.to) /\ ~IsChunked(p.to.headers)
    <3>1. v = RequestBody(p.to, p.rest)
      BY <2>1, <2>5
    <3> QED BY <1>4, <1>6, <1>7, <2>5, <3>1, RequestBodyAnswers DEF v
  <2>6. CASE p.ok /\ ~MissingHost(p.to) /\ IsChunked(p.to.headers)
    <3>1. v = RequestChunk(p.to, p.rest, parsed)
      BY <2>1, <2>6
    <3> QED BY <1>3, <1>4, <1>6, <1>7, <2>6, <3>1, RequestChunkAnswers DEF v
  <2> QED BY <2>2, <2>3, <2>4, <2>5, <2>6
<1>8. CASE conf.kind = "response"
  <2> DEFINE v == ResponseStarted(p, r)
  <2>1. v = CASE ~p.ok /\ (p.rest # <<>> \/ p.to.line.fail) -> Refuse(p.to, p.rest, r.code)
              [] ~p.ok /\ p.rest = <<>> /\ ~p.to.line.fail ->
                   Verdict(p.to, <<>>, "INCOMPLETE", p.bad)
              [] p.ok /\ ~IsChunked(p.to.headers) -> ResponseBody(p.to, p.rest)
              [] OTHER -> ResponseChunk(p.to, p.rest, parsed)
    BY DEF ResponseStarted
  <2> HIDE DEF v, parsed
  <2>2. CASE ~p.ok /\ (p.rest # <<>> \/ p.to.line.fail)
    <3>1. v = Refuse(p.to, p.rest, r.code)
      BY <2>1, <2>2
    <3> QED BY <1>5, <1>6, <1>8, <3>1, RefuseAnswers DEF v
  <2>3. CASE ~p.ok /\ p.rest = <<>> /\ ~p.to.line.fail
    <3>1. v = Verdict(p.to, <<>>, "INCOMPLETE", p.bad)
      BY <2>1, <2>3
    <3> QED BY <1>1, <1>5, <1>8, <2>3, <3>1, IncompleteAnswers DEF v
  <2>4. CASE p.ok /\ ~IsChunked(p.to.headers)
    <3>1. v = ResponseBody(p.to, p.rest)
      BY <2>1, <2>4
    <3> QED BY <1>5, <1>6, <1>8, <2>4, <3>1, ResponseBodyAnswers DEF v
  <2>5. CASE p.ok /\ IsChunked(p.to.headers)
    <3>1. v = ResponseChunk(p.to, p.rest, parsed)
      BY <2>1, <2>5
    <3> QED BY <1>3, <1>5, <1>6, <1>8, <2>5, <3>1, ResponseChunkAnswers DEF v
  <2> QED BY <2>2, <2>3, <2>4, <2>5
<1> QED BY <1>2, <1>7, <1>8

-----------------------------------------------------------------------------
(* The receive loop.                                                      *)

Events ==
  [is : {"VALID", "INVALID", "CHUNK", "EXPECT_CONTINUE", "STUCK"},
   what : Seq(Methods) \union Nat \union Codes \union {"data", ""}, size : Nat]
FineEvents == {e \in Events : e.is = "CHUNK" => e.size <= MaxChunk}

(* The data of a chunk is within the limit of its size.                   *)
LEMMA ChunkDataBounded ==
  ASSUME NEW fit, NEW k \in ChunksFit(fit)
  PROVE  k.data \in Nat /\ k.data <= MaxChunk
<1>1. k \in Chunks /\ k.data \in Nat /\ k.size \in Nat /\ MaxChunk \in Nat
  BY BodyLimits DEF ChunksFit, Chunks
<1>2. CASE k.st = "VALID"
  <2>1. k.data <= k.size /\ k.size <= MaxChunk
    BY <1>2 DEF ChunksFit, SizeKnown
  <2>2. \A a, b, c \in Nat : a <= b /\ b <= c => a <= c
    OBVIOUS
  <2> QED BY <1>1, <2>1, <2>2
<1>3. CASE k.st # "VALID"
  BY <1>1, <1>3 DEF ChunksFit
<1> QED BY <1>2, <1>3

(* What the loop acts on.                                                  *)
LEMMA SeenIsFine ==
  ASSUME conf \in Configs, NEW v, v.to \in Receivers(conf.kind),
         v.verdict \in Verdicts, v.verdict # "INCOMPLETE"
  PROVE  Seen(v) \in FineEvents /\ Seen(v).is = v.verdict
<1> DEFINE q == v.to
           Whats == Seq(Methods) \union Nat \union Codes \union {"data", ""}
           s == Seen(v)
<1>1. q.body \in Nat /\ q.code \in Codes /\ q.chunk.data \in Nat /\ q.chunk.data <= MaxChunk
  BY ChunkDataBounded DEF Receivers
<1>2. (IF conf.kind = "request" THEN q.line.method ELSE q.line.status) \in Whats
  <2>1. CASE conf.kind = "request"
    BY <2>1 DEF Receivers, LinesOf, RequestLines
  <2>2. CASE conf.kind # "request"
    BY <2>2 DEF Receivers, LinesOf, ResponseLines
  <2> QED BY <2>1, <2>2
<1> DEFINE w == IF conf.kind = "request" THEN q.line.method ELSE q.line.status
<1>3. s = CASE v.verdict = "VALID" -> Event("VALID", w, q.body)
            [] v.verdict = "INVALID" -> Event("INVALID", q.code, 0)
            [] v.verdict = "CHUNK" -> Event("CHUNK", "data", q.chunk.data)
            [] v.verdict = "EXPECT_CONTINUE" -> Event("EXPECT_CONTINUE", q.code, 0)
  BY DEF Seen
<1> HIDE DEF s, w
<1>4. ASSUME NEW is \in {"VALID", "INVALID", "EXPECT_CONTINUE", "STUCK"},
             NEW what \in Whats, NEW size \in Nat
      PROVE  Event(is, what, size) \in FineEvents /\ Event(is, what, size).is = is
  BY DEF Event, Events, FineEvents
<1>5. ASSUME NEW size \in Nat, size <= MaxChunk
      PROVE  Event("CHUNK", "data", size) \in FineEvents /\ Event("CHUNK", "data", size).is = "CHUNK"
  BY <1>5 DEF Event, Events, FineEvents
<1>6. q.code \in Whats /\ w \in Whats
  BY <1>1, <1>2 DEF w
<1> HIDE DEF Whats
<1>7. CASE v.verdict = "VALID"
  BY <1>1, <1>3, <1>4, <1>6, <1>7 DEF s
<1>8. CASE v.verdict = "INVALID"
  BY <1>1, <1>3, <1>4, <1>6, <1>8 DEF s
<1>9. CASE v.verdict = "CHUNK"
  BY <1>1, <1>3, <1>5, <1>9 DEF s
<1>10. CASE v.verdict = "EXPECT_CONTINUE"
  BY <1>1, <1>3, <1>4, <1>6, <1>10 DEF s
<1> QED BY <1>7, <1>8, <1>9, <1>10 DEF Verdicts

(* The receiver that the loop goes on with.                                *)
LEMMA AfterVerdictKeeps ==
  ASSUME conf \in Configs, NEW fit \in BOOLEAN, NEW r, NEW buf, NEW v, Answer(v, r, buf, fit)
  PROVE  LET y == AfterVerdict(v)
         IN  /\ y \in Receivers(conf.kind) /\ y.line \in FineLinesOf(conf.kind)
             /\ BodyOk(conf.kind, y)
             /\ fit => FitRx(y) \/ (v.bad = TRUE /\ v.verdict = "INCOMPLETE" /\ v.rest = <<>>)
             /\ fit /\ y.valid = TRUE => Fit(y.headers)
<1> DEFINE y == AfterVerdict(v)
<1>1. v.to \in Receivers(conf.kind) /\ v.bad \in BOOLEAN /\ v.verdict \in Verdicts
  BY DEF Answer, Answered
<1>2. CASE Finished(v)
  <2>1. y = Clear(v.to)
    <3>1. v.verdict # "EXPECT_CONTINUE"
      BY <1>2 DEF Finished
    <3> QED BY <1>2, <3>1 DEF AfterVerdict
  <2>2. y \in ReceiversFit(conf.kind, TRUE) /\ y \in Receivers(conf.kind) /\ y.valid = FALSE /\ y.body = 0
    BY <1>1, <2>1, ClearedRx
  <2> HIDE DEF y
  <2>3. 0 <= MaxContent
    BY BodyLimits
  <2>4. BodyOk(conf.kind, y)
    BY <2>2, <2>3 DEF BodyOk
  <2>5. y.line \in FineLinesOf(conf.kind) /\ FitRx(y) /\ Fit(y.headers)
    BY <2>2 DEF ReceiversFit, FitRx
  <2> QED BY <2>2, <2>4, <2>5 DEF y
<1>3. CASE ~Finished(v)
  <2>1. v.verdict # "INVALID"
    BY <1>3 DEF Finished
  <2> DEFINE x == v.to
  <2>2. /\ x.line \in FineLinesOf(conf.kind) /\ BodyOk(conf.kind, x)
        /\ fit => FitRx(x) \/ (v.bad = TRUE /\ v.verdict = "INCOMPLETE" /\ v.rest = <<>>)
        /\ fit /\ x.valid = TRUE => Fit(x.headers)
    BY <1>1, <1>3, <2>1 DEF Answer, Keeps, FitRx
  <2>3. CASE v.verdict = "EXPECT_CONTINUE"
    <3>1. y = [x EXCEPT !.continued = TRUE]
      BY <1>3, <2>3 DEF AfterVerdict
    <3>2. /\ y \in Receivers(conf.kind) /\ y.line = x.line /\ y.headers = x.headers
          /\ y.chunk = x.chunk /\ y.body = x.body /\ y.valid = x.valid
      BY <1>1, <3>1 DEF Receivers
    <3> HIDE DEF y
    <3> QED BY <2>2, <3>2 DEF BodyOk, FitRx, y
  <2>4. CASE v.verdict # "EXPECT_CONTINUE"
    <3>1. y = x
      BY <1>3, <2>4 DEF AfterVerdict
    <3> QED BY <1>1, <2>2, <3>1
  <2> QED BY <2>3, <2>4
<1> QED BY <1>2, <1>3

(* The receive loop after i turns over the buffer of a read: it has taken   *)
(* a character at least in every turn, unless it is over.                  *)
LoopRecords(buf) ==
  [rx : Receivers(conf.kind), rest : Left(buf), out : Seq(FineEvents), odd : BOOLEAN, on : BOOLEAN]
Stuck(o) == o # <<>> /\ Last(o).is = "STUCK"
Stopped(o) == o # <<>> /\ Last(o).is \in {"INVALID", "STUCK"}
Kept(l, fit) ==
  /\ l.rx.line \in FineLinesOf(conf.kind) /\ BodyOk(conf.kind, l.rx)
  /\ fit => FitRx(l.rx) \/ (l.odd /\ ~l.on)
  /\ fit /\ l.rx.valid = TRUE => Fit(l.rx.headers)
Advanced(l, buf, i) ==
  /\ l.on => l.rest # <<>> /\ Len(l.rest) + i <= Len(buf)
  /\ ~l.on => l.rest = <<>> \/ Stopped(l.out)
  /\ Stuck(l.out) => ~l.on /\ Full(l.rx)
LoopStates(buf, fit, i) == {l \in LoopRecords(buf) : Kept(l, fit) /\ Advanced(l, buf, i)}

(* The event that has just been appended is the last.                     *)
LEMMA LastOfAppend ==
  ASSUME NEW S, NEW o \in Seq(S), NEW e \in S
  PROVE  Append(o, e) \in Seq(S) /\ Append(o, e) # <<>> /\ Last(Append(o, e)) = e
<1>1. /\ Append(o, e) \in Seq(S) /\ Len(Append(o, e)) = Len(o) + 1
      /\ Append(o, e)[Len(o) + 1] = e
  BY AppendProperties
<1>2. Len(o) \in Nat
  BY LenProperties
<1>3. Append(o, e) # <<>>
  BY <1>1, <1>2, EmptySeq
<1> QED BY <1>1, <1>3 DEF Last

(* What the loop makes of an answer: it is stuck, or over, or has less to do. *)
LEMMA ReceivedAdvances ==
  ASSUME conf \in Configs, NEW fit \in BOOLEAN, NEW buf \in Seq(Tokens),
         NEW i \in Nat, NEW l \in LoopStates(buf, fit, i), l.on,
         NEW v, Answer(v, l.rx, l.rest, fit)
  PROVE  Received(v, l) \in LoopStates(buf, fit, i + 1)
<1>1. /\ l.rx \in Receivers(conf.kind) /\ l.rest \in Left(buf) /\ l.rest \in Seq(Tokens)
      /\ l.out \in Seq(FineEvents) /\ l.odd \in BOOLEAN /\ l.on \in BOOLEAN
      /\ l = [rx |-> l.rx, rest |-> l.rest, out |-> l.out, odd |-> l.odd, on |-> l.on]
  BY DEF LoopStates, LoopRecords, Left
<1>2. /\ l.rx.line \in FineLinesOf(conf.kind) /\ BodyOk(conf.kind, l.rx) /\ (fit => FitRx(l.rx))
      /\ fit /\ l.rx.valid = TRUE => Fit(l.rx.headers)
      /\ l.rest # <<>> /\ Len(l.rest) + i <= Len(buf) /\ ~Stuck(l.out)
  BY DEF LoopStates, Kept, Advanced
<1>3. /\ v.to \in Receivers(conf.kind) /\ v.rest \in Left(l.rest) /\ v.rest \in Left(buf)
      /\ v.verdict \in Verdicts /\ v.bad \in BOOLEAN
  BY <1>1, LeftOfLeft DEF Answer, Answered
<1>4. Len(v.rest) \in Nat /\ Len(l.rest) \in Nat /\ Len(buf) \in Nat
  BY <1>1, <1>3, LenProperties DEF Left
<1> DEFINE stays == v.verdict = "INCOMPLETE" /\ v.rest = l.rest /\ v.to = l.rx
           x == Received(v, l)
<1>5. CASE stays
  <2> DEFINE e == Event("STUCK", "", l.rx.body)
             o == Append(l.out, e)
  <2>1. x = [l EXCEPT !.out = o, !.odd = FALSE, !.on = FALSE]
    BY <1>1, <1>5 DEF Received
  <2>2. e \in FineEvents /\ e.is = "STUCK"
    <3>1. l.rx.body \in Nat
      BY <1>1 DEF Receivers
    <3> QED BY <3>1 DEF Event, Events, FineEvents
  <2> HIDE DEF e
  <2>3. o \in Seq(FineEvents) /\ o # <<>> /\ Last(o) = e
    BY <1>1, <2>2, LastOfAppend
  <2> HIDE DEF o, x
  <2>4. /\ x \in LoopRecords(buf) /\ x.rx = l.rx /\ x.out = o /\ x.odd = FALSE /\ x.on = FALSE
    BY <1>1, <2>1, <2>3 DEF LoopRecords
  <2>5. Full(l.rx)
    <3>1. ~(Len(l.rest) < Len(l.rest))
      BY <1>4
    <3> QED BY <1>2, <1>5, <3>1 DEF Answer, Takes
  <2>6. Kept(x, fit)
    BY <1>2, <2>4 DEF Kept
  <2>7. Advanced(x, buf, i + 1)
    BY <2>2, <2>3, <2>4, <2>5 DEF Advanced, Stopped
  <2> QED BY <2>4, <2>6, <2>7 DEF LoopStates, x
<1>6. CASE ~stays
  <2> DEFINE y == AfterVerdict(v)
             o == IF v.verdict = "INCOMPLETE" THEN l.out ELSE Append(l.out, Seen(v))
             odd == (v.verdict = "INCOMPLETE" /\ v.bad) \/ (v.verdict = "VALID" /\ Bare(v.to))
             on == v.verdict # "INVALID" /\ v.rest # <<>>
  <2>1. x = [rx |-> y, rest |-> v.rest, out |-> o, odd |-> odd, on |-> on]
    BY <1>6 DEF Received
  <2>2. /\ y \in Receivers(conf.kind) /\ y.line \in FineLinesOf(conf.kind)
        /\ BodyOk(conf.kind, y)
        /\ fit => FitRx(y) \/ (v.bad = TRUE /\ v.verdict = "INCOMPLETE" /\ v.rest = <<>>)
        /\ fit /\ y.valid = TRUE => Fit(y.headers)
    BY AfterVerdictKeeps
  <2>3. o \in Seq(FineEvents) /\ ~Stuck(o) /\ (v.verdict = "INVALID" => Stopped(o))
    <3>1. CASE v.verdict = "INCOMPLETE"
      BY <1>1, <1>2, <3>1
    <3>2. CASE v.verdict # "INCOMPLETE"
      <4>1. Seen(v) \in FineEvents /\ Seen(v).is = v.verdict
        BY <1>3, <3>2, SeenIsFine
      <4> DEFINE a == Append(l.out, Seen(v))
      <4>2. a \in Seq(FineEvents) /\ a # <<>> /\ Last(a) = Seen(v)
        BY <1>1, <4>1, LastOfAppend
      <4>3. v.verdict # "STUCK"
        BY <1>3 DEF Verdicts
      <4> HIDE DEF a
      <4>4. ~Stuck(a) /\ (v.verdict = "INVALID" => Stopped(a))
        BY <4>1, <4>2, <4>3 DEF Stuck, Stopped
      <4>5. o = a
        BY <3>2 DEF a
      <4> QED BY <4>2, <4>4, <4>5
    <3> QED BY <3>1, <3>2
  <2>4. odd \in BOOLEAN /\ on \in BOOLEAN
    BY <1>3
  <2>5. v.bad = TRUE /\ v.verdict = "INCOMPLETE" /\ v.rest = <<>> => odd /\ ~on
    OBVIOUS
  <2>6. on => Len(v.rest) + (i + 1) <= Len(buf)
    <3> HAVE on
    <3>1. Len(v.rest) < Len(l.rest)
      BY <1>3, <1>6 DEF Answer, Takes, Verdicts
    <3>2. \A a, b, c \in Nat : a < b /\ b + i <= c => a + (i + 1) <= c
      OBVIOUS
    <3> QED BY <1>2, <1>4, <3>1, <3>2
  <2>7. ~on => v.rest = <<>> \/ Stopped(o)
    BY <2>3
  <2>8. on => v.rest # <<>>
    OBVIOUS
  <2> HIDE DEF y, o, odd, on, x
  <2>9. /\ x \in LoopRecords(buf) /\ x.rx = y /\ x.rest = v.rest /\ x.out = o
        /\ x.odd = odd /\ x.on = on
    BY <1>3, <2>1, <2>2, <2>3, <2>4 DEF LoopRecords
  <2>10. Kept(x, fit)
    BY <2>2, <2>5, <2>9 DEF Kept
  <2>11. Advanced(x, buf, i + 1)
    BY <2>3, <2>6, <2>7, <2>8, <2>9 DEF Advanced
  <2> QED BY <2>9, <2>10, <2>11 DEF LoopStates, x
<1> QED BY <1>5, <1>6

(* A turn of the receive loop.                                            *)
LEMMA TurnAdvances ==
  ASSUME conf \in Configs, NEW fit \in BOOLEAN, NEW buf \in Seq(Tokens),
         NEW i \in Nat, NEW l \in LoopStates(buf, fit, i)
  PROVE  Turn(l) \in LoopStates(buf, fit, i + 1)
<1>1. CASE l.on
  <2>1. /\ l.rx \in Receivers(conf.kind) /\ l.rx.line \in FineLinesOf(conf.kind)
        /\ (fit => FitRx(l.rx)) /\ BodyOk(conf.kind, l.rx)
        /\ l.rest \in Seq(Tokens) /\ l.rest # <<>>
    BY <1>1 DEF LoopStates, LoopRecords, Kept, Advanced, Left
  <2>2. l.rx \in ReceiversFit(conf.kind, fit)
    BY <2>1 DEF ReceiversFit
  <2>3. Answer(Receive(l.rx, l.rest), l.rx, l.rest, fit)
    BY <2>1, <2>2, ReceiveAnswers
  <2>4. Turn(l) = Received(Receive(l.rx, l.rest), l)
    BY <1>1 DEF Turn
  <2> QED BY <1>1, <2>3, <2>4, ReceivedAdvances
<1>2. CASE ~l.on
  <2>1. Turn(l) = l
    BY <1>2 DEF Turn
  <2>2. Advanced(l, buf, i + 1)
    BY <1>2 DEF LoopStates, Advanced
  <2> QED BY <2>1, <2>2 DEF LoopStates
<1> QED BY <1>1, <1>2

(* The states of the receive loop, turn by turn.                          *)
LoopStart(r, buf, o) == [rx |-> r, rest |-> buf, out |-> o, odd |-> FALSE, on |-> TRUE]
LoopRun(g, r, buf, o, fit) ==
  /\ g[0] = LoopStart(r, buf, o)
  /\ \A i \in 1 .. Len(buf) : g[i] = Turn(g[i - 1])
  /\ \A i \in 0 .. Len(buf) : g[i] \in LoopStates(buf, fit, i)
  /\ ReceiveLoop(r, buf, o) = g[Len(buf)]

(* The loop has such states.                                              *)
LEMMA LoopRuns ==
  ASSUME conf \in Configs, NEW fit \in BOOLEAN, NEW r \in ReceiversFit(conf.kind, fit),
         BodyOk(conf.kind, r), NEW buf \in Seq(Tokens), buf # <<>>,
         NEW o \in Seq(FineEvents), ~Stuck(o)
  PROVE  \E g : LoopRun(g, r, buf, o, fit)
<1> DEFINE n == Len(buf)
           start == LoopStart(r, buf, o)
           Rec(f) == f = [i \in 0 .. n |-> IF i = 0 THEN {start}
                                           ELSE {Turn(l) : l \in f[i - 1]}]
           after == CHOOSE f : Rec(f)
           H == [i \in 0 .. n |-> LoopStates(buf, fit, i)]
           F == [i \in 1 .. n |-> [l \in LoopStates(buf, fit, i - 1) |-> Turn(l)]]
<1>1. ReceiveLoop(r, buf, o) = Element(after[n])
  BY DEF ReceiveLoop, LoopStart
<1>2. n \in Nat
  BY LenProperties
<1>3. \A i \in 1 .. n : i \in 0 .. n /\ i - 1 \in 0 .. n /\ i # 0 /\ i - 1 \in Nat /\ (i - 1) + 1 = i
  BY <1>2
<1>4. 0 \in 0 .. n /\ n \in 0 .. n
  BY <1>2
<1>5. \A i \in 1 .. n : \A l \in LoopStates(buf, fit, i - 1) : Turn(l) \in LoopStates(buf, fit, i)
  <2> TAKE i \in 1 .. n
  <2> TAKE l \in LoopStates(buf, fit, i - 1)
  <2>1. Turn(l) \in LoopStates(buf, fit, (i - 1) + 1)
    BY <1>3, TurnAdvances
  <2> QED BY <1>3, <2>1
<1>6. start \in LoopStates(buf, fit, 0)
  <2>1. buf \in Left(buf) /\ n + 0 <= n
    BY <1>2, AllLeft
  <2>2. /\ r \in Receivers(conf.kind) /\ r.line \in FineLinesOf(conf.kind) /\ (fit => FitRx(r))
        /\ fit => Fit(r.headers)
    BY DEF ReceiversFit, FitRx
  <2>3. start \in LoopRecords(buf)
    BY <2>1, <2>2 DEF LoopRecords, LoopStart
  <2>4. start.rx = r /\ start.rest = buf /\ start.out = o /\ start.odd = FALSE /\ start.on = TRUE
    BY DEF LoopStart
  <2> HIDE DEF start
  <2>5. Kept(start, fit)
    BY <2>2, <2>4 DEF Kept
  <2>6. Advanced(start, buf, 0)
    BY <2>1, <2>4 DEF Advanced
  <2> QED BY <2>3, <2>5, <2>6 DEF LoopStates
<1> HIDE DEF n, start
<1>7. /\ \A i \in 0 .. n : H[i] = LoopStates(buf, fit, i)
      /\ \A i \in 1 .. n : \A l \in LoopStates(buf, fit, i - 1) : F[i][l] = Turn(l)
  OBVIOUS
<1> HIDE DEF H, F
<1>8. PICK g : Turned(g, n, H, F, start)
  <2>1. start \in H[0]
    BY <1>4, <1>6, <1>7
  <2>2. Leads(n, H, F)
    BY <1>3, <1>5, <1>7 DEF Leads
  <2> QED BY <1>2, <2>1, <2>2, Turns
<1>9. /\ g[0] = start
      /\ \A i \in 1 .. n : g[i] = Turn(g[i - 1])
      /\ \A i \in 0 .. n : g[i] \in LoopStates(buf, fit, i)
  BY <1>3, <1>7, <1>8 DEF Turned
<1>10. Rec([i \in 0 .. n |-> {g[i]}])
  <2> DEFINE f == [i \in 0 .. n |-> {g[i]}]
             e == [i \in 0 .. n |-> IF i = 0 THEN {start} ELSE {Turn(l) : l \in f[i - 1]}]
  <2>1. ASSUME NEW i \in 0 .. n PROVE f[i] = e[i]
    <3>1. CASE i = 0
      BY <1>9, <3>1
    <3>2. CASE i # 0
      <4>1. i \in 1 .. n
        BY <1>2, <3>2
      <4>2. f[i] = {Turn(g[i - 1])} /\ f[i - 1] = {g[i - 1]}
        BY <4>1, <1>3, <1>9
      <4>3. e[i] = {Turn(l) : l \in f[i - 1]}
        BY <3>2
      <4> HIDE DEF f, e
      <4> QED BY <4>2, <4>3
    <3> QED BY <3>1, <3>2
  <2>2. f = e
    BY <2>1
  <2> QED BY <2>2
<1>11. Rec(after)
  BY <1>10
<1> HIDE DEF after
<1>12. \A i \in 0 .. n : after[i] = IF i = 0 THEN {start} ELSE {Turn(l) : l \in after[i - 1]}
  BY <1>11
<1> DEFINE Good == {i \in 0 .. n : after[i] = {g[i]}}
<1>13. 0 \in Good
  BY <1>4, <1>9, <1>12
<1>14. \A i \in 1 .. n : i - 1 \in Good => i \in Good
  <2> TAKE i \in 1 .. n
  <2> HAVE i - 1 \in Good
  <2>1. after[i] = {Turn(l) : l \in after[i - 1]}
    BY <1>3, <1>12
  <2>2. after[i - 1] = {g[i - 1]}
    OBVIOUS
  <2> QED BY <1>3, <1>9, <2>1, <2>2
<1> HIDE DEF Good
<1>15. n \in Good
  BY <1>2, <1>4, <1>13, <1>14, CountUp
<1>16. after[n] = {g[n]} /\ g[n] \in LoopStates(buf, fit, n)
  BY <1>4, <1>9, <1>15 DEF Good
<1>17. ReceiveLoop(r, buf, o) = g[n]
  <2> DEFINE e == g[n]
  <2>1. after[n] = {e}
    BY <1>16
  <2> HIDE DEF e
  <2>2. Element(after[n]) = e
    BY <2>1 DEF Element
  <2> QED BY <1>1, <2>2 DEF e
<1> QED BY <1>9, <1>17 DEF LoopRun, n, start

(* The receive loop ends within as many turns as the buffer has tokens, because
   every turn that goes on has taken one at least.                        *)
LEMMA ReceiveLoopEnds ==
  ASSUME conf \in Configs, NEW fit \in BOOLEAN, NEW r \in ReceiversFit(conf.kind, fit),
         BodyOk(conf.kind, r), NEW buf \in Seq(Tokens), buf # <<>>,
         NEW o \in Seq(FineEvents), ~Stuck(o)
  PROVE  LET l == ReceiveLoop(r, buf, o)
         IN  l \in LoopStates(buf, fit, Len(buf)) /\ l.on = FALSE
<1> DEFINE n == Len(buf)
<1>1. PICK g : LoopRun(g, r, buf, o, fit)
  BY LoopRuns
<1>2. n \in Nat /\ n \in 0 .. n
  BY LenProperties
<1> DEFINE e == g[n]
<1>17. ReceiveLoop(r, buf, o) = e /\ e \in LoopStates(buf, fit, n)
  BY <1>1, <1>2 DEF LoopRun
<1> HIDE DEF e
<1>18. e.on = FALSE
  <2>1. e.on \in BOOLEAN /\ e.rest \in Seq(Tokens)
    BY <1>17 DEF LoopStates, LoopRecords, Left
  <2>2. ASSUME e.on PROVE FALSE
    <3>1. e.rest # <<>> /\ Len(e.rest) + n <= n
      BY <1>17, <2>2 DEF LoopStates, Advanced, n
    <3>2. Len(e.rest) \in Nat /\ Len(e.rest) # 0
      BY <2>1, <3>1, LenProperties, EmptySeq
    <3>3. \A a \in Nat : a + n <= n => a = 0
      BY <1>2
    <3> QED BY <3>1, <3>2, <3>3
  <2> QED BY <2>1, <2>2
<1> QED BY <1>17, <1>18 DEF n

----------------------------------------------------------------------------
(* The inductive invariant.                                                *)

ReceiverInv ==
  /\ conf \in Configs /\ peer \in Messages /\ excused \in BOOLEAN
  /\ pos \in 0 .. Len(peer.stream)
  /\ rx \in Receivers(conf.kind) /\ rx.line \in FineLinesOf(conf.kind) /\ BodyOk(conf.kind, rx)
  /\ ~excused => /\ rx.valid = TRUE => Fit(rx.headers)
                 /\ pos < Len(peer.stream) => FitRx(rx)
  /\ out \in Seq(FineEvents)
  /\ Stuck(out) => Full(rx)

(* The new receiver satisfies the invariant.                              *)
LEMMA InitReceiver == Init => ReceiverInv
<1> SUFFICES ASSUME Init PROVE ReceiverInv
  OBVIOUS
<1>1. /\ conf \in Configs /\ peer \in Messages /\ excused = FALSE /\ pos = 0
      /\ rx = NewRx /\ out = <<>>
  BY DEF Init
<1>2. pos \in 0 .. Len(peer.stream)
  <2>1. Len(peer.stream) \in Nat
    BY <1>1, MessagesAssumption, LenProperties
  <2> QED BY <1>1, <2>1
<1>3. rx = [NewRx EXCEPT !.code = "NO_CONTENT"]
  <2>1. "NO_CONTENT" \in Codes
    BY DEF Codes
  <2>2. NewRx \in Receivers(conf.kind)
    BY <1>1, <2>1, CodedRx
  <2>3. NewRx.code = "NO_CONTENT"
    BY DEF NewRx
  <2> QED BY <1>1, <2>2, <2>3 DEF Receivers
<1>4. /\ rx \in ReceiversFit(conf.kind, TRUE) /\ rx \in Receivers(conf.kind)
      /\ rx.valid = FALSE /\ rx.body = 0
  <2>1. "NO_CONTENT" \in Codes
    BY DEF Codes
  <2> QED BY <1>1, <1>3, <2>1, CodedRx
<1>5. rx.line \in FineLinesOf(conf.kind) /\ FitRx(rx)
  BY <1>4 DEF ReceiversFit
<1>6. BodyOk(conf.kind, rx)
  <2>1. 0 <= MaxContent
    BY BodyLimits
  <2> QED BY <1>4, <2>1 DEF BodyOk
<1>7. out \in Seq(FineEvents) /\ ~Stuck(out)
  BY <1>1, EmptySeq DEF Stuck
<1> QED BY <1>1, <1>2, <1>4, <1>5, <1>6, <1>7 DEF ReceiverInv

(* What a read hands to the loop, and in which state the receiver is then.  *)
LEMMA ReadLoops ==
  ASSUME ReceiverInv, NEW n \in ReadSizes \union {Len(peer.stream) - pos}, ~Done,
         pos + n <= Len(peer.stream)
  PROVE  LET buf == SubSeq(peer.stream, pos + 1, pos + n)
             l   == ReceiveLoop(rx, buf, out)
         IN  /\ buf \in Seq(Tokens) /\ buf # <<>> /\ pos + n \in 0 .. Len(peer.stream)
             /\ l \in LoopStates(buf, ~excused, Len(buf)) /\ l.on = FALSE
<1> DEFINE s == peer.stream
           buf == SubSeq(s, pos + 1, pos + n)
<1>1. s \in Seq(Tokens) /\ Len(s) \in Nat /\ pos \in Nat /\ pos <= Len(s)
  BY MessagesAssumption, LenProperties DEF ReceiverInv
<1>2. pos # Len(s) /\ ~Stuck(out)
  BY DEF Done, Refused, Stuck
<1>3. n \in Nat /\ 1 <= n
  <2>1. CASE n \in ReadSizes
    BY <2>1, ReadsAssumption
  <2>2. CASE n = Len(s) - pos
    BY <1>1, <1>2, <2>2
  <2> QED BY <2>1, <2>2
<1>4. pos + n \in 0 .. Len(s)
  BY <1>1, <1>3
<1>5. buf \in Seq(Tokens) /\ Len(buf) = n
  BY <1>1, <1>3, SubSeqProperties
<1> HIDE DEF buf
<1>6. buf # <<>>
  BY <1>3, <1>5, EmptySeq
<1>7. rx \in ReceiversFit(conf.kind, ~excused)
  <2>1. pos < Len(s)
    BY <1>1, <1>2
  <2> QED BY <2>1 DEF ReceiverInv, ReceiversFit
<1>8. /\ conf \in Configs /\ BodyOk(conf.kind, rx) /\ out \in Seq(FineEvents) /\ (~excused) \in BOOLEAN
  BY DEF ReceiverInv
<1>9. ReceiveLoop(rx, buf, out) \in LoopStates(buf, ~excused, Len(buf))
      /\ ReceiveLoop(rx, buf, out).on = FALSE
  BY <1>2, <1>5, <1>6, <1>7, <1>8, ReceiveLoopEnds
<1> QED BY <1>4, <1>5, <1>6, <1>9 DEF buf

(* A read keeps the invariant.                                            *)
LEMMA ReadKeeps ==
  ASSUME ReceiverInv, NEW n \in ReadSizes \union {Len(peer.stream) - pos}, Read(n)
  PROVE  ReceiverInv'
<1> DEFINE buf == SubSeq(peer.stream, pos + 1, pos + n)
           l == ReceiveLoop(rx, buf, out)
<1>1. /\ ~Done /\ pos + n <= Len(peer.stream)
      /\ rx' = l.rx /\ out' = l.out /\ excused' = (excused \/ BadCut(l.rx, l.odd, pos + n))
      /\ pos' = pos + n /\ conf' = conf /\ peer' = peer
  BY DEF Read
<1>2. /\ pos + n \in 0 .. Len(peer.stream)
      /\ l \in LoopStates(buf, ~excused, Len(buf)) /\ l.on = FALSE
  BY <1>1, ReadLoops
<1> HIDE DEF buf, l
<1>3. /\ l.rx \in Receivers(conf.kind) /\ l.out \in Seq(FineEvents) /\ l.odd \in BOOLEAN
      /\ l.rx.line \in FineLinesOf(conf.kind) /\ BodyOk(conf.kind, l.rx)
      /\ ~excused => FitRx(l.rx) \/ l.odd
      /\ ~excused /\ l.rx.valid = TRUE => Fit(l.rx.headers)
      /\ Stuck(l.out) => Full(l.rx)
  BY <1>2 DEF LoopStates, LoopRecords, Kept, Advanced
<1>4. /\ conf \in Configs /\ peer \in Messages /\ excused \in BOOLEAN
  BY DEF ReceiverInv
<1>5. BadCut(l.rx, l.odd, pos + n) \in BOOLEAN
  BY DEF BadCut
<1>6. l.odd /\ pos + n < Len(peer.stream) => BadCut(l.rx, l.odd, pos + n)
  BY DEF BadCut
<1>7. ~excused' => /\ rx'.valid = TRUE => Fit(rx'.headers)
                   /\ pos' < Len(peer'.stream) => FitRx(rx')
  BY <1>1, <1>3, <1>6
<1>8. /\ rx' \in Receivers(conf'.kind) /\ rx'.line \in FineLinesOf(conf'.kind)
      /\ BodyOk(conf'.kind, rx') /\ out' \in Seq(FineEvents) /\ excused' \in BOOLEAN
      /\ pos' \in 0 .. Len(peer'.stream) /\ conf' \in Configs /\ peer' \in Messages
  BY <1>1, <1>2, <1>3, <1>4, <1>5
<1>9. Stuck(out') => Full(rx)'
  BY <1>1, <1>3 DEF Full
<1> QED BY <1>7, <1>8, <1>9 DEF ReceiverInv

-----------------------------------------------------------------------------
(* The theorems.                                                          *)

(* A step keeps the invariant.                                            *)
LEMMA NextReceiver == ReceiverInv /\ [Next]_vars => ReceiverInv'
<1> SUFFICES ASSUME ReceiverInv, [Next]_vars PROVE ReceiverInv'
  OBVIOUS
<1>1. CASE Next
  <2>1. PICK n \in ReadSizes \union {Len(peer.stream) - pos} : Read(n)
    BY <1>1 DEF Next
  <2> QED BY <2>1, ReadKeeps
<1>2. CASE UNCHANGED vars
  BY <1>2 DEF vars, ReceiverInv, Full
<1> QED BY <1>1, <1>2

(* A header block within its limits, in the form of the properties.        *)
LEMMA HeadersBounds ==
  ASSUME NEW h \in Headers
  PROVE  /\ h.field.st \in HeaderStates
         /\ Fit(h) => /\ h.field.length \in 0 .. MaxLine
                      /\ Cardinality(DOMAIN h.fields) <= MaxHeaders
                      /\ h.length <= MaxHeaderLength
<1>1. h.field \in FieldLines
  BY DEF Headers
<1>2. h.field.st \in HeaderStates /\ h.field.length \in Nat
  BY <1>1 DEF FieldLines
<1>3. \A n \in Nat : n <= MaxLine => n \in 0 .. MaxLine
  BY FieldLimits
<1> QED BY <1>2, <1>3 DEF Fit

(* A start line within its limits, in the form of the properties.         *)
LEMMA LineBounds ==
  ASSUME NEW l, l \in FineLinesOf(conf.kind)
  PROVE  /\ l.ws \in 0 .. MaxWs
         /\ IF conf.kind = "request"
              THEN /\ l.st \in RequestStates
                   /\ Len(l.method) \in 0 .. MaxMethod /\ l.uri \in 0 .. MaxUri
              ELSE l.st \in ResponseStates /\ l.reason \in 0 .. MaxReason
<1>1. \A n, m \in Nat : n <= m => n \in 0 .. m
  OBVIOUS
<1>2. CASE conf.kind = "request"
  <2>1. l \in RequestLines /\ l.ws <= MaxWs /\ Len(l.method) <= MaxMethod /\ l.uri <= MaxUri
    BY <1>2 DEF FineLinesOf, FineRequestLines
  <2>2. l.st \in RequestStates /\ l.ws \in Nat /\ l.uri \in Nat /\ l.method \in Seq(Methods)
    BY <2>1 DEF RequestLines
  <2>3. Len(l.method) \in Nat
    BY <2>2, LenProperties
  <2> QED BY <1>1, <1>2, <2>1, <2>2, <2>3, LineLimits
<1>3. CASE conf.kind # "request"
  <2>1. l \in ResponseLines /\ l.ws <= MaxWs /\ l.reason <= MaxReason
    BY <1>3 DEF FineLinesOf, FineResponseLines
  <2>2. l.st \in ResponseStates /\ l.ws \in Nat /\ l.reason \in Nat
    BY <2>1 DEF ResponseLines
  <2> QED BY <1>1, <1>3, <2>1, <2>2, LineLimits
<1> QED BY <1>2, <1>3

(* The invariant implies the type invariant.                              *)
LEMMA InvTypeOK == ReceiverInv => ReceiverTypeOK
<1> SUFFICES ASSUME ReceiverInv PROVE ReceiverTypeOK
  OBVIOUS
<1>1. /\ pos \in 0 .. Len(peer.stream) /\ excused \in BOOLEAN
      /\ rx \in Receivers(conf.kind) /\ rx.line \in FineLinesOf(conf.kind)
      /\ ~excused /\ pos < Len(peer.stream) => FitRx(rx)
  BY DEF ReceiverInv
<1>2. rx.headers \in Headers /\ rx.chunk \in Chunks /\ rx.body \in Nat
  BY <1>1 DEF Receivers, ChunksFit
<1>3. rx.chunk.st \in ChunkStates /\ rx.chunk.trailers \in Headers
  BY <1>2 DEF Chunks
<1>4. Section(rx) \in Headers /\ (FitRx(rx) => Fit(Section(rx)))
  BY <1>2, <1>3 DEF Section, FitRx
<1>5. /\ rx.line.ws \in 0 .. MaxWs
      /\ IF conf.kind = "request"
           THEN /\ rx.line.st \in RequestStates
                /\ Len(rx.line.method) \in 0 .. MaxMethod /\ rx.line.uri \in 0 .. MaxUri
           ELSE rx.line.st \in ResponseStates /\ rx.line.reason \in 0 .. MaxReason
  BY <1>1, LineBounds
<1>6. /\ Section(rx).field.st \in HeaderStates
      /\ ~excused /\ pos < Len(peer.stream) =>
           /\ Section(rx).field.length \in 0 .. MaxLine
           /\ Cardinality(DOMAIN Section(rx).fields) <= MaxHeaders
  BY <1>1, <1>4, HeadersBounds
<1> QED BY <1>1, <1>2, <1>3, <1>5, <1>6 DEF ReceiverTypeOK

(* The invariant implies the limits.                                      *)
LEMMA InvLimits == ReceiverInv => LimitsHold
<1> SUFFICES ASSUME ReceiverInv PROVE LimitsHold
  OBVIOUS
<1>1. /\ rx \in Receivers(conf.kind) /\ rx.line \in FineLinesOf(conf.kind)
      /\ BodyOk(conf.kind, rx) /\ out \in Seq(FineEvents)
      /\ ~excused /\ rx.valid = TRUE => Fit(rx.headers)
  BY DEF ReceiverInv
<1>2. rx.headers \in Headers /\ rx.chunk \in ChunksFit(FALSE) /\ rx.valid \in BOOLEAN
  BY <1>1 DEF Receivers
<1>3. conf.kind = "request" => rx.body <= MaxContent
  BY <1>1 DEF BodyOk
<1>4. rx.chunk.data <= MaxChunk
  BY <1>2, ChunkDataBounded
<1>5. conf.kind = "request" => Len(rx.line.method) <= MaxMethod /\ rx.line.uri <= MaxUri
  BY <1>1 DEF FineLinesOf, FineRequestLines
<1>6. \A i \in DOMAIN out : out[i].is = "CHUNK" => out[i].size <= MaxChunk
  <2>1. DOMAIN out = 1 .. Len(out)
    BY <1>1
  <2>2. \A i \in DOMAIN out : out[i] \in FineEvents
    BY <1>1, <2>1, ElementOfSeq
  <2> QED BY <2>2 DEF FineEvents
<1>7. rx.valid /\ ~excused =>
        rx.headers.length <= MaxHeaderLength /\ Cardinality(DOMAIN rx.headers.fields) <= MaxHeaders
  BY <1>1, <1>2, HeadersBounds
<1> QED BY <1>3, <1>4, <1>5, <1>6, <1>7 DEF LimitsHold

(* THEOREM 1.  However the peer's tokens are divided into reads, the receiver of
   request.hpp or response.hpp stays in one of the states of its automata, with the
   white space, method, uri and reason within their limits, and the header lines too
   until a read ends where the parsers are known to depend on it.         *)
THEOREM ReceiverIsTyped == Spec => []ReceiverTypeOK
<1>1. Init => ReceiverInv
  BY InitReceiver
<1>2. ReceiverInv /\ [Next]_vars => ReceiverInv'
  BY NextReceiver
<1>3. ReceiverInv => ReceiverTypeOK
  BY InvTypeOK
<1> QED BY <1>1, <1>2, <1>3, PTL DEF Spec

(* THEOREM 2.  For any limits, a request never keeps more than max_content_length_ of
   its body, no chunk of more than max_chunk_size_ is kept or handed to the
   application, and a message whose headers were accepted has them within
   MAX_HEADER_NUMBER and MAX_HEADER_LENGTH, unless a read ended at one of those cuts. *)
THEOREM LimitsAlwaysHold == Spec => []LimitsHold
<1>1. Init => ReceiverInv
  BY InitReceiver
<1>2. ReceiverInv /\ [Next]_vars => ReceiverInv'
  BY NextReceiver
<1>3. ReceiverInv => LimitsHold
  BY InvLimits
<1> QED BY <1>1, <1>2, <1>3, PTL DEF Spec

(* THEOREM 3.  The receive loop of http_server.hpp and http_client.hpp repeats a call
   of receive that takes nothing and changes nothing only for a response without a
   length, when max_body_size_ of its body has been kept.                 *)
THEOREM LoopAlwaysAdvances == Spec => []LoopAdvances
<1>1. Init => ReceiverInv
  BY InitReceiver
<1>2. ReceiverInv /\ [Next]_vars => ReceiverInv'
  BY NextReceiver
<1>3. ReceiverInv => LoopAdvances
  BY DEF ReceiverInv, LoopAdvances, Stuck, Full
<1> QED BY <1>1, <1>2, <1>3, PTL DEF Spec

(* THEOREM 4.  The receive loop is over after at most as many turns as the read has
   tokens, and every token of the read has been given to a message, unless the message
   was refused or the loop is stuck.                                      *)
THEOREM EveryReadIsTaken == Spec => ReadIsTaken
<1> DEFINE l == ReceiveLoop(rx, SubSeq(peer.stream, pos + 1, pos'), out)
           A == ~l.on /\ (l.rest = <<>> \/ Refused')
<1>1. Init => ReceiverInv
  BY InitReceiver
<1>2. ReceiverInv /\ [Next]_vars => ReceiverInv'
  BY NextReceiver
<1>3. ReceiverInv /\ [Next]_vars => [A]_vars
  <2> SUFFICES ASSUME ReceiverInv, Next PROVE A
    OBVIOUS
  <2>1. PICK n \in ReadSizes \union {Len(peer.stream) - pos} : Read(n)
    BY DEF Next
  <2> DEFINE buf == SubSeq(peer.stream, pos + 1, pos + n)
             m == ReceiveLoop(rx, buf, out)
  <2>2. ~Done /\ pos + n <= Len(peer.stream) /\ pos' = pos + n /\ out' = m.out
    BY <2>1 DEF Read
  <2>3. m \in LoopStates(buf, ~excused, Len(buf)) /\ m.on = FALSE
    BY <2>2, ReadLoops
  <2>4. l = m
    BY <2>2
  <2> HIDE DEF l, m
  <2>5. ~m.on /\ (m.rest = <<>> \/ Stopped(m.out))
    BY <2>3 DEF LoopStates, Advanced
  <2> QED BY <2>2, <2>4, <2>5 DEF Stopped, Refused
<1> QED BY <1>1, <1>2, <1>3, PTL DEF Spec, ReadIsTaken
=============================================================================
