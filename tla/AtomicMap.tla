----------------------------- MODULE AtomicMap -----------------------------
(***************************************************************************)
(* What a thread-safe map promises the threads that share it: each of its  *)
(* operations takes effect at one instant between its call and its return, *)
(* and answers what the map held at that instant.                          *)
(*                                                                         *)
(* To erase a key that is not there is allowed, and what it promises then  *)
(* is weak: it may take one other, greater key out of the map instead.     *)
(***************************************************************************)
EXTENDS Naturals

CONSTANTS Threads, Keys, Values, Absent

VARIABLES
  map,      \* what the map holds for each key
  op,       \* the last operation of each thread
  status,   \* "idle", "called", or "done" when it has taken effect
  answer    \* what the operation answers once it is done

mapVars == <<map, op, status, answer>>

Maps == [Keys -> Values \cup {Absent}]
NoEntries == [k \in Keys |-> Absent]

Operations ==
  [name : {"find", "erase"}, key : Keys]
    \cup [name : {"insert"}, key : Keys, value : Values]
    \cup [name : {"empty", "data", "clear"}]

(* `seen' is what find or data returns, `isEmpty' what empty returns.      *)
Answers == [seen : Maps, isEmpty : BOOLEAN]
NoAnswer == [seen |-> NoEntries, isEmpty |-> TRUE]

Without(m, k) == [m EXCEPT ![k] = Absent]

(* What an operation may make of the map.                                  *)
Outcomes(o, m) ==
  CASE o.name = "insert" -> {[m EXCEPT ![o.key] = o.value]}
    [] o.name = "erase"  ->
         IF m[o.key] # Absent THEN {Without(m, o.key)}
         ELSE {m} \cup {Without(m, k) : k \in {j \in Keys : j > o.key}}
    [] o.name = "clear"  -> {NoEntries}
    [] OTHER             -> {m}

AnswerOf(o, m) ==
  CASE o.name = "find"  -> [NoAnswer EXCEPT !.seen[o.key] = m[o.key]]
    [] o.name = "data"  -> [NoAnswer EXCEPT !.seen = m]
    [] o.name = "empty" -> [NoAnswer EXCEPT !.isEmpty = (m = NoEntries)]
    [] OTHER            -> NoAnswer

Init ==
  /\ map = NoEntries
  /\ op = [t \in Threads |-> [name |-> "empty"]]
  /\ status = [t \in Threads |-> "idle"]
  /\ answer = [t \in Threads |-> NoAnswer]

Call(t) ==
  /\ status[t] = "idle"
  /\ status' = [status EXCEPT ![t] = "called"]
  /\ \E o \in Operations : op' = [op EXCEPT ![t] = o]
  /\ UNCHANGED <<map, answer>>

TakeEffect(t) ==
  /\ status[t] = "called"
  /\ status' = [status EXCEPT ![t] = "done"]
  /\ map' \in Outcomes(op[t], map)
  /\ answer' = [answer EXCEPT ![t] = AnswerOf(op[t], map)]
  /\ UNCHANGED op

Return(t) ==
  /\ status[t] = "done"
  /\ status' = [status EXCEPT ![t] = "idle"]
  /\ answer' = [answer EXCEPT ![t] = NoAnswer]
  /\ UNCHANGED <<map, op>>

Next == \E t \in Threads : Call(t) \/ TakeEffect(t) \/ Return(t)

Spec == Init /\ [][Next]_mapVars
=============================================================================
