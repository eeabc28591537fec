---------------------- MODULE ThreadsafeHashMap_proofs ----------------------
(***************************************************************************)
(* Proofs about module ThreadsafeHashMap, for any threads, keys, values    *)
(* and number of buckets, and any hash function.                           *)
(*                                                                         *)
(* The inductive invariant says, besides the types, how far each thread    *)
(* has come: a thread that is locking holds every bucket below at[t] of    *)
(* its range, one that is working holds the whole range, an idle one       *)
(* holds nothing, and a bucket held exclusively is held by nobody else.    *)
(***************************************************************************)
EXTENDS ThreadsafeHashMap, WellFoundedInduction, TLAPS

Types ==
  /\ data \in [Buckets -> Atomic!Maps]
  /\ readers \in [Buckets -> SUBSET Threads] /\ writers \in [Buckets -> SUBSET Threads]
  /\ pc \in [Threads -> {"idle", "locking", "working", "unlocking"}]
  /\ op \in [Threads -> Atomic!Operations]
  /\ at \in [Threads -> Buckets]
  /\ answer \in [Threads -> Atomic!Answers]

Placed == \A b \in Buckets, k \in Keys : data[b][k] # Absent => BucketOf(k) = b

(* Thread t holds bucket b in the way its operation needs.                 *)
HeldRight(t, b) == IF Reads(op[t]) THEN t \in readers[b] ELSE t \in writers[b]

InRange(t) ==
  pc[t] \in {"locking", "working"} => First(op[t]) <= at[t] /\ at[t] <= Last(op[t])

Progress(t) ==
  /\ pc[t] = "idle" => \A b \in Buckets : ~Held(t, b)
  /\ pc[t] = "locking" =>
       \A b \in Buckets : First(op[t]) <= b /\ b < at[t] => HeldRight(t, b)
  /\ pc[t] = "working" =>
       \A b \in Buckets : First(op[t]) <= b /\ b <= Last(op[t]) => HeldRight(t, b)

(* "Only allow one writer", "Allow multiple readers".                      *)
WriterIsAlone ==
  \A b \in Buckets : \A t \in writers[b] : readers[b] \cup writers[b] \subseteq {t}

MapInv ==
  /\ Types /\ Placed /\ WriterIsAlone
  /\ \A t \in Threads : InRange(t) /\ Progress(t)

-----------------------------------------------------------------------------
(* The operations, by name.                                                *)
LEMMA OperationCases ==
  ASSUME NEW o \in Atomic!Operations
  PROVE  /\ o.name \in {"find", "insert", "erase", "empty", "data", "clear"}
         /\ OfOneKey(o) => o.key \in Keys
         /\ o.name = "insert" => o.value \in Values
BY DEF Atomic!Operations, OfOneKey

(* The range of buckets of an operation is a range of buckets.             *)
LEMMA RangeFacts ==
  ASSUME NEW o \in Atomic!Operations
  PROVE  /\ First(o) \in Buckets /\ Last(o) \in Buckets /\ First(o) <= Last(o)
         /\ OfOneKey(o) => First(o) = BucketOf(o.key) /\ Last(o) = BucketOf(o.key)
<1>1. NumBuckets \in Nat /\ NumBuckets > 0 /\ \A k \in Keys : BucketOf(k) \in Buckets
  BY BucketsAssumption
<1>2. CASE OfOneKey(o)
  <2>1. o.key \in Keys
    BY <1>2, OperationCases
  <2>2. BucketOf(o.key) \in Buckets
    BY <1>1, <2>1
  <2> QED BY <1>1, <1>2, <2>2 DEF First, Last, Buckets
<1>3. CASE ~OfOneKey(o)
  BY <1>1, <1>3 DEF First, Last, Buckets
<1> QED BY <1>2, <1>3

LEMMA NothingIsAMap == Atomic!NoEntries \in Atomic!Maps /\ Atomic!NoAnswer \in Atomic!Answers
BY DEF Atomic!NoEntries, Atomic!Maps, Atomic!NoAnswer, Atomic!Answers

LEMMA InitMapInv == Init => MapInv
<1> SUFFICES ASSUME Init PROVE MapInv
  OBVIOUS
<1>1. 0 \in Buckets
  BY BucketsAssumption DEF Buckets
<1>2. [name |-> "empty"] \in Atomic!Operations
  BY DEF Atomic!Operations
<1>3. Types
  BY <1>1, <1>2, NothingIsAMap DEF Init, Types
<1>4. Placed
  BY DEF Init, Placed, Atomic!NoEntries
<1>5. WriterIsAlone
  BY DEF Init, WriterIsAlone
<1>6. \A t \in Threads : InRange(t) /\ Progress(t)
  BY DEF Init, InRange, Progress, Held
<1> QED BY <1>3, <1>4, <1>5, <1>6 DEF MapInv

-----------------------------------------------------------------------------
(* A step neither takes nor releases a lock for thread u.                  *)
SameLocks(u) ==
  \A b \in Buckets :
    (u \in readers'[b] <=> u \in readers[b]) /\ (u \in writers'[b] <=> u \in writers[b])

(* A thread that a step does not concern keeps its progress.               *)
LEMMA OthersKeep ==
  ASSUME MapInv, NEW u \in Threads,
         pc'[u] = pc[u], op'[u] = op[u], at'[u] = at[u],
         SameLocks(u)
  PROVE  (InRange(u) /\ Progress(u))'
<1>1. InRange(u) /\ Progress(u)
  BY DEF MapInv
<1>2. InRange(u)'
  BY <1>1 DEF InRange, First, Last, OfOneKey
<1>3. \A b \in Buckets : (HeldRight(u, b)' <=> HeldRight(u, b)) /\ (Held(u, b)' <=> Held(u, b))
  BY DEF SameLocks, HeldRight, Held, Reads
<1>4. First(op[u])' = First(op[u]) /\ Last(op[u])' = Last(op[u])
  BY DEF First, Last, OfOneKey
<1>5. Progress(u)'
  BY <1>1, <1>3, <1>4 DEF Progress
<1> QED BY <1>2, <1>5

LEMMA CallMapInv ==
  ASSUME MapInv, NEW t \in Threads, Call(t)
  PROVE  MapInv'
<1>1. PICK o \in Atomic!Operations :
        /\ op' = [op EXCEPT ![t] = o] /\ at' = [at EXCEPT ![t] = First(o)]
  BY DEF Call
<1>2. Types /\ First(o) \in Buckets /\ First(o) <= Last(o)
  BY RangeFacts DEF MapInv
<1>3. /\ pc'[t] = "locking" /\ op'[t] = o /\ at'[t] = First(o)
      /\ UNCHANGED <<data, readers, writers>>
  BY <1>1, <1>2 DEF Call, Types
<1>4. Types'
  BY <1>1, <1>2, NothingIsAMap DEF Call, Types
<1>5. Placed' /\ WriterIsAlone'
  BY <1>3 DEF MapInv, Placed, WriterIsAlone
<1>6. (InRange(t) /\ Progress(t))'
  BY <1>2, <1>3 DEF InRange, Progress, Buckets
<1>7. ASSUME NEW u \in Threads, u # t PROVE (InRange(u) /\ Progress(u))'
  BY <1>1, <1>2, <1>3, <1>7, OthersKeep DEF Call, Types, SameLocks
<1> QED BY <1>4, <1>5, <1>6, <1>7 DEF MapInv

LEMMA LockMapInv ==
  ASSUME MapInv, NEW t \in Threads, Lock(t)
  PROVE  MapInv'
<1> DEFINE o == op[t]
           c == at[t]
<1>1. /\ Types /\ o \in Atomic!Operations /\ c \in Buckets
      /\ First(o) <= c /\ c <= Last(o) /\ First(o) \in Buckets /\ Last(o) \in Buckets
  BY RangeFacts DEF MapInv, Types, InRange, Lock
<1>2. op' = op /\ data' = data /\ answer' = answer
  BY DEF Lock
<1>3. \/ Reads(o) /\ readers' = [readers EXCEPT ![c] = @ \cup {t}] /\ writers' = writers
      \/ ~Reads(o) /\ writers' = [writers EXCEPT ![c] = @ \cup {t}] /\ readers' = readers
  BY DEF Lock, TakeLock, Shares, Reads
<1>4. \/ /\ c = Last(o) /\ pc' = [pc EXCEPT ![t] = "working"]
         /\ at' = [at EXCEPT ![t] = First(o)]
      \/ /\ c # Last(o) /\ pc' = pc /\ at' = [at EXCEPT ![t] = c + 1]
  BY DEF Lock, AfterLock
<1>5. c # Last(o) => c + 1 \in Buckets /\ c + 1 <= Last(o)
  BY <1>1, BucketsAssumption DEF Buckets
<1>6. Types'
  <2>1. readers' \in [Buckets -> SUBSET Threads] /\ writers' \in [Buckets -> SUBSET Threads]
    BY <1>1, <1>3 DEF Types
  <2>2. /\ pc' \in [Threads -> {"idle", "locking", "working", "unlocking"}]
        /\ at' \in [Threads -> Buckets]
    BY <1>1, <1>4, <1>5 DEF Types
  <2> QED BY <1>1, <1>2, <2>1, <2>2 DEF Types
<1>7. Placed'
  BY <1>2 DEF MapInv, Placed
<1>8. WriterIsAlone'
  <2>1. writers[c] = {} /\ (Reads(o) \/ readers[c] = {})
    BY DEF Lock, MayLock, Shares, Reads
  <2>2. WriterIsAlone
    BY DEF MapInv
  <2> QED BY <1>1, <1>3, <2>1, <2>2 DEF Types, WriterIsAlone
<1>9. \A b \in Buckets : HeldRight(t, b)' <=> (HeldRight(t, b) \/ b = c)
  BY <1>1, <1>2, <1>3 DEF Types, HeldRight
<1>10. (InRange(t) /\ Progress(t))'
  <2>1. pc[t] = "locking"
    BY DEF Lock
  <2>2. \A b \in Buckets : First(o) <= b /\ b < c => HeldRight(t, b)
    BY <2>1 DEF MapInv, Progress
  <2>3. CASE c = Last(o)
    <3>1. pc'[t] = "working" /\ at'[t] = First(o) /\ op'[t] = o
      BY <1>1, <1>2, <1>4, <2>3 DEF Types
    <3>2. \A b \in Buckets : First(o) <= b /\ b <= Last(o) => HeldRight(t, b)'
      BY <1>1, <1>9, <2>2, <2>3 DEF Buckets
    <3>3. First(o) <= First(o) /\ First(o) <= Last(o)
      BY <1>1 DEF Buckets
    <3> QED BY <3>1, <3>2, <3>3 DEF InRange, Progress
  <2>4. CASE c # Last(o)
    <3>1. pc'[t] = "locking" /\ at'[t] = c + 1 /\ op'[t] = o
      BY <1>1, <1>2, <1>4, <2>1, <2>4 DEF Types
    <3>2. \A b \in Buckets : First(o) <= b /\ b < c + 1 => HeldRight(t, b)'
      BY <1>1, <1>9, <2>2 DEF Buckets
    <3>3. First(o) <= c + 1 /\ c + 1 <= Last(o)
      BY <1>1, <1>5, <2>4 DEF Buckets
    <3> QED BY <3>1, <3>2, <3>3 DEF InRange, Progress
  <2> QED BY <2>3, <2>4
<1>11. ASSUME NEW u \in Threads, u # t PROVE (InRange(u) /\ Progress(u))'
  <2>1. pc'[u] = pc[u] /\ op'[u] = op[u] /\ at'[u] = at[u]
    BY <1>1, <1>2, <1>4, <1>11 DEF Types
  <2>2. SameLocks(u)
    BY <1>1, <1>3, <1>11 DEF Types, SameLocks
  <2> QED BY <2>1, <2>2, OthersKeep
<1> QED BY <1>6, <1>7, <1>8, <1>10, <1>11 DEF MapInv

(* What a step of work leaves in a bucket has the type of a bucket, and is *)
(* there only if it belongs there.                                         *)
LEMMA BucketWork ==
  ASSUME MapInv, NEW t \in Threads, Work(t)
  PROVE  data' \in [Buckets -> Atomic!Maps] /\ Placed'
<1> DEFINE o == op[t]
           b == at[t]
<1>1. /\ Types /\ Placed /\ o \in Atomic!Operations /\ b \in Buckets
      /\ First(o) <= b /\ b <= Last(o)
  BY DEF MapInv, Types, InRange, Work
<1>2. data \in [Buckets -> [Keys -> Values \cup {Absent}]]
  BY <1>1 DEF Types, Atomic!Maps
<1>3. CASE o.name = "insert" /\ Insert(b, o.key, o.value)
  <2>1. o.key \in Keys /\ o.value \in Values /\ OfOneKey(o)
    BY <1>1, <1>3, OperationCases DEF OfOneKey
  <2>2. First(o) = BucketOf(o.key) /\ Last(o) = BucketOf(o.key)
    BY <1>1, <2>1, RangeFacts
  <2>3. BucketOf(o.key) = b
    BY <1>1, <2>1, <2>2, BucketsAssumption DEF Buckets
  <2>4. data' = [data EXCEPT ![b] = [data[b] EXCEPT ![o.key] = o.value]]
    BY <1>3 DEF Insert, Inserted
  <2>5. data' \in [Buckets -> Atomic!Maps]
    BY <1>1, <1>2, <2>1, <2>4 DEF Atomic!Maps
  <2>6. \A c \in Buckets, k \in Keys :
          data'[c][k] = IF c = b /\ k = o.key THEN o.value ELSE data[c][k]
    BY <1>1, <1>2, <2>1, <2>4
  <2> QED BY <1>1, <2>3, <2>5, <2>6 DEF Placed
<1>4. CASE Erase(b, o.key)
  <2> DEFINE e == [j \in Keys |-> IF j \in Positions(b, o.key) THEN Absent ELSE data[b][j]]
  <2>1. e \in [Keys -> Values \cup {Absent}] /\ data' = [data EXCEPT ![b] = e]
    BY <1>1, <1>2, <1>4 DEF Erase
  <2>2. data' \in [Buckets -> Atomic!Maps]
    BY <1>1, <1>2, <2>1 DEF Atomic!Maps
  <2>3. \A c \in Buckets, k \in Keys : data'[c][k] \in {data[c][k], Absent}
    BY <1>1, <1>2, <2>1
  <2> QED BY <1>1, <2>2, <2>3 DEF Placed
<1>5. CASE Clear(b)
  <2>1. data' = [data EXCEPT ![b] = Atomic!NoEntries]
    BY <1>5 DEF Clear
  <2>2. data' \in [Buckets -> Atomic!Maps]
    BY <1>1, <2>1, NothingIsAMap DEF Types
  <2>3. \A c \in Buckets, k \in Keys : data'[c][k] \in {data[c][k], Absent}
    BY <1>1, <1>2, <2>1 DEF Atomic!NoEntries
  <2> QED BY <1>1, <2>2, <2>3 DEF Placed
<1>6. CASE UNCHANGED data
  BY <1>1, <1>6 DEF Types, Placed
<1> QED BY <1>3, <1>4, <1>5, <1>6 DEF Work

(* A read of one bucket leaves an answer of the right type.                *)
LEMMA ReadWork ==
  ASSUME Types, NEW o \in Atomic!Operations, Reads(o), NEW b \in Buckets,
         NEW a \in Atomic!Answers
  PROVE  ReadBucket(o, b, a) \in Atomic!Answers
<1>1. data[b] \in [Keys -> Values \cup {Absent}]
  BY DEF Types, Atomic!Maps
<1>2. a.seen \in [Keys -> Values \cup {Absent}] /\ a.isEmpty \in BOOLEAN
      /\ a = [seen |-> a.seen, isEmpty |-> a.isEmpty]
  BY DEF Atomic!Answers, Atomic!Maps
<1>3. CASE o.name = "find"
  <2>1. o.key \in Keys
    BY <1>3, OperationCases DEF OfOneKey
  <2>2. [a.seen EXCEPT ![o.key] = data[b][o.key]] \in [Keys -> Values \cup {Absent}]
    BY <1>1, <1>2, <2>1
  <2>3. ReadBucket(o, b, a) = [a EXCEPT !.seen = [a.seen EXCEPT ![o.key] = data[b][o.key]]]
    BY <1>3 DEF ReadBucket
  <2> QED BY <1>2, <2>2, <2>3 DEF Atomic!Answers, Atomic!Maps
<1>4. CASE o.name = "empty"
  <2>1. ReadBucket(o, b, a) = [a EXCEPT !.isEmpty = (Present(b) = {})]
    BY <1>4 DEF ReadBucket
  <2>2. (Present(b) = {}) \in BOOLEAN
    OBVIOUS
  <2> HIDE DEF Present
  <2> QED BY <1>2, <2>1, <2>2 DEF Atomic!Answers, Atomic!Maps
<1>5. CASE o.name = "data"
  <2> DEFINE m == [k \in Keys |-> IF k \in Present(b) THEN data[b][k] ELSE a.seen[k]]
  <2>1. m \in [Keys -> Values \cup {Absent}]
    BY <1>1, <1>2
  <2>2. ReadBucket(o, b, a) = [a EXCEPT !.seen = m]
    BY <1>5 DEF ReadBucket
  <2> HIDE DEF m
  <2> QED BY <1>2, <2>1, <2>2 DEF Atomic!Answers, Atomic!Maps
<1> QED BY <1>3, <1>4, <1>5 DEF Reads

LEMMA WorkMapInv ==
  ASSUME MapInv, NEW t \in Threads, Work(t)
  PROVE  MapInv'
<1> DEFINE o == op[t]
           b == at[t]
<1>1. /\ Types /\ o \in Atomic!Operations /\ b \in Buckets
      /\ First(o) <= b /\ b <= Last(o) /\ First(o) \in Buckets /\ Last(o) \in Buckets
      /\ pc[t] = "working" /\ op' = op /\ readers' = readers /\ writers' = writers
  BY RangeFacts DEF MapInv, Types, InRange, Work
<1>2. \/ pc' = [pc EXCEPT ![t] = "unlocking"] /\ at' = at
      \/ b # Last(o) /\ pc' = pc /\ at' = [at EXCEPT ![t] = b + 1]
  BY DEF Work, Finished
<1>3. b # Last(o) => b + 1 \in Buckets /\ b + 1 <= Last(o) /\ First(o) <= b + 1
  BY <1>1, BucketsAssumption DEF Buckets
<1>4. data' \in [Buckets -> Atomic!Maps] /\ Placed'
  BY BucketWork
<1>5. answer' \in [Threads -> Atomic!Answers]
  <2>1. answer[t] \in Atomic!Answers
    BY <1>1 DEF Types
  <2>2. \/ answer' = answer
        \/ Reads(o) /\ answer' = [answer EXCEPT ![t] = ReadBucket(o, b, answer[t])]
    BY DEF Work
  <2>3. Reads(o) => ReadBucket(o, b, answer[t]) \in Atomic!Answers
    BY <1>1, <2>1, ReadWork
  <2> HIDE DEF o, b
  <2> QED BY <1>1, <2>2, <2>3 DEF Types
<1>6. Types'
  BY <1>1, <1>2, <1>3, <1>4, <1>5 DEF Types
<1>7. WriterIsAlone'
  BY <1>1 DEF MapInv, WriterIsAlone
<1>8. (InRange(t) /\ Progress(t))'
  <2>1. Progress(t)
    BY DEF MapInv
  <2>2. \A c \in Buckets : HeldRight(t, c)' <=> HeldRight(t, c)
    BY <1>1 DEF HeldRight
  <2>3. CASE pc' = [pc EXCEPT ![t] = "unlocking"]
    BY <1>1, <2>3 DEF Types, InRange, Progress
  <2>4. CASE b # Last(o) /\ pc' = pc /\ at' = [at EXCEPT ![t] = b + 1]
    <3>1. pc'[t] = "working" /\ at'[t] = b + 1 /\ op'[t] = o
      BY <1>1, <2>4 DEF Types
    <3> QED BY <1>1, <1>3, <2>1, <2>2, <2>4, <3>1 DEF InRange, Progress
  <2> QED BY <1>2, <2>3, <2>4
<1>9. ASSUME NEW u \in Threads, u # t PROVE (InRange(u) /\ Progress(u))'
  <2>1. pc'[u] = pc[u] /\ op'[u] = op[u] /\ at'[u] = at[u] /\ SameLocks(u)
    BY <1>1, <1>2, <1>9 DEF Types, SameLocks
  <2> QED BY <2>1, OthersKeep
<1> QED BY <1>4, <1>6, <1>7, <1>8, <1>9 DEF MapInv

LEMMA UnlockMapInv ==
  ASSUME MapInv, NEW t \in Threads, Unlock(t)
  PROVE  MapInv'
<1>1. PICK b \in Buckets :
        /\ readers' = [readers EXCEPT ![b] = @ \ {t}]
        /\ writers' = [writers EXCEPT ![b] = @ \ {t}]
        /\ pc' = IF \A c \in Buckets \ {b} : ~Held(t, c)
                 THEN [pc EXCEPT ![t] = "idle"] ELSE pc
  BY DEF Unlock, Release
<1>2. /\ Types /\ Placed /\ WriterIsAlone /\ pc[t] = "unlocking"
      /\ data' = data /\ op' = op /\ at' = at /\ answer' = answer
  BY DEF MapInv, Unlock
<1>3. Types'
  <2>1. readers' \in [Buckets -> SUBSET Threads] /\ writers' \in [Buckets -> SUBSET Threads]
    BY <1>1, <1>2 DEF Types
  <2>2. pc' \in [Threads -> {"idle", "locking", "working", "unlocking"}]
    BY <1>1, <1>2 DEF Types
  <2> QED BY <1>2, <2>1, <2>2 DEF Types
<1>4. Placed'
  BY <1>2 DEF Placed
<1>5. WriterIsAlone'
  <2>1. \A c \in Buckets : readers'[c] \subseteq readers[c] /\ writers'[c] \subseteq writers[c]
    BY <1>1, <1>2 DEF Types
  <2> QED BY <1>2, <2>1 DEF WriterIsAlone
<1>6. (InRange(t) /\ Progress(t))'
  <2>1. CASE \A c \in Buckets \ {b} : ~Held(t, c)
    <3>1. pc'[t] = "idle"
      BY <1>1, <1>2, <2>1 DEF Types
    <3>2. \A c \in Buckets : t \notin readers'[c] /\ t \notin writers'[c]
      BY <1>1, <1>2, <2>1 DEF Types, Held
    <3> QED BY <3>1, <3>2 DEF InRange, Progress, Held
  <2>2. CASE pc' = pc
    BY <1>2, <2>2 DEF InRange, Progress
  <2> QED BY <1>1, <2>1, <2>2
<1>7. ASSUME NEW u \in Threads, u # t PROVE (InRange(u) /\ Progress(u))'
  <2>1. pc'[u] = pc[u] /\ op'[u] = op[u] /\ at'[u] = at[u] /\ SameLocks(u)
    BY <1>1, <1>2, <1>7 DEF Types, SameLocks
  <2> QED BY <2>1, OthersKeep
<1> QED BY <1>3, <1>4, <1>5, <1>6, <1>7 DEF MapInv

LEMMA NextMapInv == MapInv /\ [Next]_vars => MapInv'
<1> SUFFICES ASSUME MapInv, [Next]_vars PROVE MapInv'
  OBVIOUS
<1>1. CASE Next
  BY <1>1, CallMapInv, LockMapInv, WorkMapInv, UnlockMapInv DEF Next
<1>2. CASE UNCHANGED vars
  <2>1. Types' /\ Placed' /\ WriterIsAlone'
    BY <1>2 DEF vars, MapInv, Types, Placed, WriterIsAlone
  <2>2. ASSUME NEW u \in Threads PROVE (InRange(u) /\ Progress(u))'
    BY <1>2, OthersKeep DEF vars, SameLocks
  <2> QED BY <2>1, <2>2 DEF MapInv
<1> QED BY <1>1, <1>2

LEMMA MapInvariance == Spec => []MapInv
BY InitMapInv, NextMapInv, PTL DEF Spec

(* Where a thread at work is, and what it holds.                            *)
LEMMA Here ==
  ASSUME MapInv, NEW t \in Threads, pc[t] = "working"
  PROVE  /\ Types /\ op[t] \in Atomic!Operations /\ at[t] \in Buckets
         /\ First(op[t]) \in Buckets /\ Last(op[t]) \in Buckets
         /\ First(op[t]) <= at[t] /\ at[t] <= Last(op[t]) /\ at[t] \in Nat
         /\ HeldRight(t, at[t]) /\ HeldRight(t, First(op[t]))
         /\ OfOneKey(op[t]) => /\ op[t].key \in Keys /\ at[t] = BucketOf(op[t].key)
                               /\ at[t] = Last(op[t])
<1>1. /\ Types /\ op[t] \in Atomic!Operations /\ at[t] \in Buckets
      /\ First(op[t]) <= at[t] /\ at[t] <= Last(op[t]) /\ Progress(t)
  BY DEF MapInv, Types, InRange
<1>2. First(op[t]) \in Buckets /\ Last(op[t]) \in Buckets
  BY <1>1, RangeFacts
<1>3. HeldRight(t, at[t]) /\ HeldRight(t, First(op[t]))
  BY <1>1, <1>2 DEF Progress, Buckets
<1>4. OfOneKey(op[t]) => op[t].key \in Keys /\ at[t] = BucketOf(op[t].key)
                         /\ at[t] = Last(op[t])
  BY <1>1, <1>2, RangeFacts, OperationCases DEF Buckets
<1> QED BY <1>1, <1>2, <1>3, <1>4 DEF Buckets

-----------------------------------------------------------------------------
(* A key is only ever in its own bucket, and every variable has its type   *)
(* (add_or_update_mapping, remove_mapping, clear).                         *)
THEOREM MapTypeCorrect == Spec => []TypeOK
<1>1. MapInv => TypeOK
  BY DEF MapInv, Types, Placed, TypeOK
<1> QED BY <1>1, MapInvariance, PTL

(* No thread reads or changes a bucket while another changes it, under the *)
(* lock that each operation takes: a thread at work holds its bucket in    *)
(* the way its operation needs, and those that change it need it for       *)
(* themselves (remove_mapping, add_or_update_mapping, clear).              *)
THEOREM NoDataRaces == Spec => []NoDataRace
<1>1. ASSUME MapInv, NEW t \in Threads, NEW u \in Threads, t # u,
             pc[t] = "working", pc[u] = "working", at[t] = at[u], Changes(op[t])
      PROVE  FALSE
  <2>1. at[t] \in Buckets /\ HeldRight(t, at[t]) /\ HeldRight(u, at[t])
    BY <1>1, Here
  <2>2. t \in writers[at[t]]
    BY <1>1, <2>1 DEF HeldRight, Reads, Changes
  <2>3. u \in readers[at[t]] \cup writers[at[t]]
    BY <2>1 DEF HeldRight
  <2> QED BY <1>1, <2>1, <2>2, <2>3 DEF MapInv, WriterIsAlone
<1>2. MapInv => NoDataRace
  BY <1>1 DEF NoDataRace
<1> QED BY <1>2, MapInvariance, PTL

(* empty, data and clear work while they hold every bucket, and an         *)
(* operation that has returned holds none.                                 *)
THEOREM WorkIsCovered == Spec => []LocksCoverWork
<1>1. ASSUME MapInv PROVE LocksCoverWork
  <2> SUFFICES ASSUME NEW t \in Threads
               PROVE  /\ pc[t] = "idle" => \A b \in Buckets : ~Held(t, b)
                      /\ pc[t] = "working" =>
                           \A b \in First(op[t]) .. Last(op[t]) : HeldRight(t, b)
    BY DEF LocksCoverWork, HeldRight
  <2>1. Progress(t) /\ op[t] \in Atomic!Operations
    BY <1>1 DEF MapInv, Types
  <2>2. First(op[t]) \in Buckets /\ Last(op[t]) \in Buckets
    BY <2>1, RangeFacts
  <2>3. \A b \in First(op[t]) .. Last(op[t]) :
          b \in Buckets /\ First(op[t]) <= b /\ b <= Last(op[t])
    BY <2>2, BucketsAssumption DEF Buckets
  <2> QED BY <2>1, <2>3 DEF Progress
<1>2. MapInv => LocksCoverWork
  BY <1>1
<1> QED BY <1>2, MapInvariance, PTL

-----------------------------------------------------------------------------
(* No deadlock.  The buckets are locked in ascending order: a thread that  *)
(* is locking holds only buckets below the one it waits for, so that of    *)
(* the threads that wait, one that waits for the highest bucket waits for  *)
(* a thread that does not.                                                 *)
Ascends(t) == pc[t] = "locking" => \A b \in Buckets : Held(t, b) => b < at[t]

Ascending == \A t \in Threads : Ascends(t)

(* Every set of natural numbers has a least one.                           *)
LEMMA Least ==
  ASSUME NEW S \in SUBSET Nat, S # {}
  PROVE  \E m \in S : \A n \in S : m <= n
<1> DEFINE R == OpToRel(<, Nat)
<1>1. IsWellFoundedOn(R, Nat)
  BY NatLessThanWellFounded
<1>2. \A x, y \in Nat : <<x, y>> \in R <=> x < y
  BY DEF OpToRel
<1> HIDE DEF R
<1>3. PICK m \in S : \A n \in S : ~(<<n, m>> \in R)
  BY <1>1, WFMin
<1>4. \A n \in S : m <= n
  <2> TAKE n \in S
  <2>1. m \in Nat /\ n \in Nat
    OBVIOUS
  <2>2. ~(n < m)
    BY <1>2, <1>3, <2>1
  <2> QED BY <2>1, <2>2
<1> QED BY <1>3, <1>4

LEMMA OthersAscend ==
  ASSUME Ascending, NEW u \in Threads, pc'[u] = pc[u], at'[u] = at[u], SameLocks(u)
  PROVE  Ascends(u)'
BY DEF Ascending, Ascends, SameLocks, Held

LEMMA CallAscends ==
  ASSUME MapInv, Ascending, NEW t \in Threads, Call(t)
  PROVE  Ascending'
<1>1. \A b \in Buckets : ~Held(t, b)
  BY DEF MapInv, Progress, Call
<1>2. readers' = readers /\ writers' = writers
  BY DEF Call
<1>3. Ascends(t)'
  BY <1>1, <1>2 DEF Ascends, Held
<1>4. ASSUME NEW u \in Threads, u # t PROVE Ascends(u)'
  <2>1. pc'[u] = pc[u] /\ at'[u] = at[u]
    BY <1>4 DEF Call, MapInv, Types
  <2> QED BY <1>2, <2>1, OthersAscend DEF SameLocks
<1> QED BY <1>3, <1>4 DEF Ascending

LEMMA LockAscends ==
  ASSUME MapInv, Ascending, NEW t \in Threads, Lock(t)
  PROVE  Ascending'
<1> DEFINE c == at[t]
<1>1. Types /\ c \in Buckets /\ pc[t] = "locking"
  BY DEF MapInv, Types, Lock
<1>2. \/ readers' = [readers EXCEPT ![c] = @ \cup {t}] /\ writers' = writers
      \/ writers' = [writers EXCEPT ![c] = @ \cup {t}] /\ readers' = readers
  BY DEF Lock, TakeLock
<1>3. \/ pc' = [pc EXCEPT ![t] = "working"] /\ at' = [at EXCEPT ![t] = First(op[t])]
      \/ pc' = pc /\ at' = [at EXCEPT ![t] = c + 1]
  BY DEF Lock, AfterLock
<1>4. Ascends(t)'
  <2>1. \A b \in Buckets : Held(t, b)' => Held(t, b) \/ b = c
    BY <1>1, <1>2 DEF Types, Held
  <2>2. \A b \in Buckets : Held(t, b) => b < c
    BY <1>1 DEF Ascending, Ascends
  <2>3. pc'[t] = "working" \/ at'[t] = c + 1
    BY <1>1, <1>3 DEF Types
  <2>4. \A b \in Buckets : Held(t, b)' => b < c + 1
    BY <1>1, <2>1, <2>2 DEF Buckets
  <2> QED BY <2>3, <2>4 DEF Ascends
<1>5. ASSUME NEW u \in Threads, u # t PROVE Ascends(u)'
  <2>1. pc'[u] = pc[u] /\ at'[u] = at[u] /\ SameLocks(u)
    BY <1>1, <1>2, <1>3, <1>5 DEF Types, SameLocks
  <2> QED BY <2>1, OthersAscend
<1> QED BY <1>4, <1>5 DEF Ascending

LEMMA WorkAscends ==
  ASSUME MapInv, Ascending, NEW t \in Threads, Work(t)
  PROVE  Ascending'
<1>1. /\ Types /\ pc[t] = "working" /\ readers' = readers /\ writers' = writers
      /\ \/ pc' = [pc EXCEPT ![t] = "unlocking"] /\ at' = at
         \/ pc' = pc /\ at' = [at EXCEPT ![t] = at[t] + 1]
  BY DEF MapInv, Work
<1>2. pc'[t] # "locking"
  BY <1>1 DEF Types
<1>3. ASSUME NEW u \in Threads, u # t PROVE Ascends(u)'
  <2>1. pc'[u] = pc[u] /\ at'[u] = at[u] /\ SameLocks(u)
    BY <1>1, <1>3 DEF Types, SameLocks
  <2> QED BY <2>1, OthersAscend
<1> QED BY <1>2, <1>3 DEF Ascending, Ascends

LEMMA UnlockAscends ==
  ASSUME MapInv, Ascending, NEW t \in Threads, Unlock(t)
  PROVE  Ascending'
<1>1. PICK b \in Buckets :
        /\ readers' = [readers EXCEPT ![b] = @ \ {t}]
        /\ writers' = [writers EXCEPT ![b] = @ \ {t}]
        /\ pc' = [pc EXCEPT ![t] = "idle"] \/ pc' = pc
  BY DEF Unlock, Release
<1>2. Types /\ pc[t] = "unlocking" /\ at' = at
  BY DEF MapInv, Unlock
<1>3. pc'[t] # "locking"
  BY <1>1, <1>2 DEF Types
<1>4. ASSUME NEW u \in Threads, u # t PROVE Ascends(u)'
  <2>1. pc'[u] = pc[u] /\ at'[u] = at[u] /\ SameLocks(u)
    BY <1>1, <1>2, <1>4 DEF Types, SameLocks
  <2> QED BY <2>1, OthersAscend
<1> QED BY <1>3, <1>4 DEF Ascending, Ascends

LEMMA AscendingInvariance == Spec => []Ascending
<1>1. Init => Ascending
  BY DEF Init, Ascending, Ascends
<1>2. MapInv /\ Ascending /\ [Next]_vars => Ascending'
  <2> SUFFICES ASSUME MapInv, Ascending, [Next]_vars PROVE Ascending'
    OBVIOUS
  <2>1. CASE Next
    BY <2>1, CallAscends, LockAscends, WorkAscends, UnlockAscends DEF Next
  <2>2. CASE UNCHANGED vars
    BY <2>2 DEF vars, Ascending, Ascends, Held
  <2> QED BY <2>1, <2>2
<1> QED BY <1>1, <1>2, MapInvariance, PTL DEF Spec

(* Whoever cannot go on waits for a bucket that another thread holds, and  *)
(* if that one waits too, it waits for a higher bucket.                    *)
LEMMA WaitsForHigher ==
  ASSUME MapInv, Ascending, NEW t \in Threads, pc[t] # "idle", ~CanGoOn(t)
  PROVE  \E u \in Threads : pc[u] # "idle" /\ (CanGoOn(u) \/ at[u] > at[t])
<1>1. Types /\ at[t] \in Buckets /\ ~MayLock(t, at[t])
  BY DEF MapInv, Types, CanGoOn
<1>2. PICK u \in Threads : Held(u, at[t])
  BY <1>1 DEF MayLock, Types, Held
<1>3. pc[u] # "idle"
  BY <1>1, <1>2 DEF MapInv, Progress
<1>4. pc[u] = "locking" => at[t] < at[u]
  BY <1>1, <1>2 DEF Ascending, Ascends
<1>5. at[u] \in Buckets
  BY <1>1 DEF Types
<1> QED BY <1>1, <1>3, <1>4, <1>5 DEF CanGoOn, Buckets

(* The threads of the map never all wait for one another                   *)
(* (all_locks of threadsafe_hash_map locks the buckets in order).          *)
THEOREM NeverDeadlocked == Spec => []NoDeadlock
<1>1. ASSUME MapInv, Ascending PROVE NoDeadlock
  <2> SUFFICES ASSUME NEW s \in Threads, pc[s] # "idle",
                      \A t \in Threads : ~CanGoOn(t)
               PROVE  FALSE
    BY DEF NoDeadlock
  <2> DEFINE Gaps == {NumBuckets - at[t] : t \in {u \in Threads : pc[u] # "idle"}}
  <2>1. NumBuckets \in Nat /\ \A t \in Threads : at[t] \in Nat /\ at[t] < NumBuckets
    BY <1>1, BucketsAssumption DEF MapInv, Types, Buckets
  <2>2. Gaps \subseteq Nat /\ Gaps # {}
    BY <2>1
  <2>3. PICK m \in Gaps : \A n \in Gaps : m <= n
    BY <2>2, Least
  <2>4. PICK t \in Threads : pc[t] # "idle" /\ m = NumBuckets - at[t]
    BY <2>3
  <2>5. PICK u \in Threads : pc[u] # "idle" /\ at[u] > at[t]
    BY <1>1, <2>4, WaitsForHigher
  <2>6. m <= NumBuckets - at[u]
    BY <2>3, <2>5
  <2> QED BY <2>1, <2>4, <2>5, <2>6
<1>2. MapInv /\ Ascending => NoDeadlock
  BY <1>1
<1> QED BY <1>2, MapInvariance, AscendingInvariance, PTL

-----------------------------------------------------------------------------
(***************************************************************************)
(* The map implements AtomicMap, for any threads, keys, values and number  *)
(* of buckets and any hash function, whatever keys are erased: every       *)
(* operation takes effect in one step of its work.  That of a reader is    *)
(* its last step, that of an operation on one key its only one, and that   *)
(* of clear() its first, from which on nobody can look until it is done.   *)
(*                                                                         *)
(* To MapInv, LinInv adds what a thread at work has read and cleared so    *)
(* far.                                                                    *)
(***************************************************************************)
SeenBelow(b) == [k \in Keys |-> IF BucketOf(k) < b THEN data[BucketOf(k)][k] ELSE Absent]
EmptyBelow(b) == \A k \in Keys : BucketOf(k) < b => data[BucketOf(k)][k] = Absent

Reading(t) ==
  /\ pc[t] = "locking" => answer[t] = Atomic!NoAnswer
  /\ pc[t] = "working" =>
       /\ answer[t] = IF op[t].name = "data"
                      THEN [seen |-> SeenBelow(at[t]), isEmpty |-> TRUE]
                      ELSE Atomic!NoAnswer
       /\ op[t].name \in {"empty", "clear"} => EmptyBelow(at[t])

LinInv == \A t \in Threads : Reading(t)

-----------------------------------------------------------------------------
(* What a step of work does to the data.                                   *)

LEMMA DataTypes ==
  ASSUME Types, NEW b \in Buckets, NEW k \in Keys
  PROVE  data \in [Buckets -> [Keys -> Values \cup {Absent}]]
         /\ data[b][k] \in Values \cup {Absent}
BY DEF Types, Atomic!Maps

LEMMA InsertEffect ==
  ASSUME MapInv, NEW t \in Threads, Work(t), op[t].name = "insert"
  PROVE  \A c \in Buckets, k \in Keys :
           data'[c][k] = IF c = at[t] /\ k = op[t].key THEN op[t].value ELSE data[c][k]
<1>1. Types /\ at[t] \in Buckets /\ op[t].key \in Keys
  BY Here DEF Work, OfOneKey
<1>2. data \in [Buckets -> [Keys -> Values \cup {Absent}]]
  BY <1>1 DEF Types, Atomic!Maps
<1>3. data' = [data EXCEPT ![at[t]] = [data[at[t]] EXCEPT ![op[t].key] = op[t].value]]
  BY DEF Work, Insert, Inserted, Reads
<1> QED BY <1>1, <1>2, <1>3

LEMMA ClearEffect ==
  ASSUME MapInv, NEW t \in Threads, Work(t), op[t].name = "clear"
  PROVE  \A c \in Buckets, k \in Keys :
           data'[c][k] = IF c = at[t] THEN Absent ELSE data[c][k]
<1>1. Types /\ at[t] \in Buckets
  BY Here DEF Work
<1>2. data' = [data EXCEPT ![at[t]] = [k \in Keys |-> Absent]]
  BY DEF Work, Clear, Reads, Atomic!NoEntries
<1> QED BY <1>1, <1>2 DEF Types

(* lower_bound finds the key that is there, or the next one, or none.      *)
LEMMA PositionsOf ==
  ASSUME NEW b \in Buckets, NEW x \in Keys
  PROVE  /\ data[b][x] # Absent => Positions(b, x) = {x}
         /\ data[b][x] = Absent =>
              Positions(b, x) = {} \/ \E j \in Keys : j > x /\ Positions(b, x) = {j}
<1> DEFINE S == Present(b)
           P == Positions(b, x)
<1>1. S \subseteq Nat /\ S \subseteq Keys /\ x \in Nat /\ (x \in S <=> data[b][x] # Absent)
  BY KeysAssumption DEF Present
<1>2. P = {p \in S : p >= x /\ \A q \in S : q >= x => p <= q}
  BY DEF Positions
<1> HIDE DEF S, P
<1>3. \A p \in P : p \in S /\ p \in Nat /\ p >= x
  BY <1>1, <1>2
<1>4. ASSUME NEW p \in P, NEW q \in P PROVE p = q
  <2>1. p <= q /\ q <= p
    BY <1>2
  <2> QED BY <1>3, <2>1
<1>5. ASSUME x \in S PROVE P = {x}
  <2>1. x \in P
    BY <1>1, <1>2, <1>5
  <2> QED BY <1>4, <2>1
<1>6. ASSUME x \notin S, P # {} PROVE \E j \in Keys : j > x /\ P = {j}
  <2>1. PICK j : j \in P
    BY <1>6
  <2>2. j # x /\ j \in Keys /\ j > x
    BY <1>1, <1>3, <1>6, <2>1
  <2>3. P = {j}
    BY <1>4, <2>1
  <2> QED BY <2>2, <2>3
<1> QED BY <1>1, <1>5, <1>6 DEF P

(* At most the key p leaves bucket b.                                      *)
Takes(b, p) ==
  \A c \in Buckets, k \in Keys :
    data'[c][k] = IF c = b /\ k = p THEN Absent ELSE data[c][k]

LEMMA EraseEffect ==
  ASSUME MapInv, NEW t \in Threads, Work(t), op[t].name = "erase"
  PROVE  /\ data[at[t]][op[t].key] # Absent => Takes(at[t], op[t].key)
         /\ data[at[t]][op[t].key] = Absent =>
              \/ \A c \in Buckets, k \in Keys : data'[c][k] = data[c][k]
              \/ \E j \in Keys : j > op[t].key /\ Takes(at[t], j)
<1> DEFINE b == at[t]
           x == op[t].key
<1>1. Types /\ b \in Buckets /\ x \in Keys
  BY Here DEF Work, OfOneKey
<1>2. data' = [data EXCEPT ![b] = [j \in Keys |-> IF j \in Positions(b, x) THEN Absent ELSE data[b][j]]]
  BY DEF Work, Erase, Reads
<1>3. \A c \in Buckets, k \in Keys :
        data'[c][k] = IF c = b /\ k \in Positions(b, x) THEN Absent ELSE data[c][k]
  BY <1>1, <1>2 DEF Types
<1>4. ASSUME NEW j, Positions(b, x) = {j} PROVE Takes(b, j)
  BY <1>3, <1>4 DEF Takes
<1>5. ASSUME Positions(b, x) = {} PROVE \A c \in Buckets, k \in Keys : data'[c][k] = data[c][k]
  BY <1>3, <1>5
<1> HIDE DEF b, x
<1> QED BY <1>1, <1>4, <1>5, PositionsOf DEF b, x

(* A thread that changes the data is alone with the bucket it changes.     *)
LEMMA NobodyElse ==
  ASSUME MapInv, NEW t \in Threads, NEW u \in Threads, u # t,
         pc[t] = "working", pc[u] = "working", ~Reads(op[t]), ~OfOneKey(op[u])
  PROVE  FALSE
<1>1. t \in writers[at[t]] /\ at[t] \in Buckets
  BY Here DEF HeldRight
<1>2. HeldRight(u, at[t])
  <2>1. First(op[u]) = 0 /\ Last(op[u]) = NumBuckets - 1 /\ Progress(u)
    BY DEF First, Last, MapInv
  <2> QED BY <1>1, <2>1, BucketsAssumption DEF Progress, Buckets
<1>3. \A v \in writers[at[t]] : readers[at[t]] \cup writers[at[t]] \subseteq {v}
  BY <1>1 DEF MapInv, WriterIsAlone
<1> QED BY <1>1, <1>2, <1>3 DEF HeldRight

LEMMA ClearsAlone ==
  ASSUME MapInv, NEW t \in Threads, NEW u \in Threads, u # t,
         pc[t] = "working", pc[u] = "working", op[t].name = "clear"
  PROVE  FALSE
<1>1. HeldRight(u, at[u]) /\ at[u] \in Buckets
  BY Here
<1>2. t \in writers[at[u]]
  <2>1. First(op[t]) = 0 /\ Last(op[t]) = NumBuckets - 1 /\ Progress(t) /\ ~Reads(op[t])
    BY DEF First, Last, MapInv, OfOneKey, Reads
  <2> QED BY <1>1, <2>1, BucketsAssumption DEF Progress, Buckets, HeldRight
<1>3. \A v \in writers[at[u]] : readers[at[u]] \cup writers[at[u]] \subseteq {v}
  BY <1>1 DEF MapInv, WriterIsAlone
<1> QED BY <1>1, <1>2, <1>3 DEF HeldRight

-----------------------------------------------------------------------------
(* The invariant, action by action.                                        *)

SameOf(u) == pc'[u] = pc[u] /\ op'[u] = op[u] /\ at'[u] = at[u] /\ answer'[u] = answer[u]

(* A thread that a step does not concern goes on with what it has read, if *)
(* the data it ranges over are the same.                                   *)
LEMMA OthersRead ==
  ASSUME NEW u \in Threads, Reading(u), SameOf(u),
         pc[u] = "working" /\ ~OfOneKey(op[u]) => data' = data
  PROVE  Reading(u)'
<1>1. CASE pc[u] = "working" /\ ~OfOneKey(op[u])
  <2>1. data' = data
    BY <1>1
  <2>2. /\ SeenBelow(at[u])' = SeenBelow(at[u])
        /\ EmptyBelow(at[u])' <=> EmptyBelow(at[u])
    BY <2>1 DEF SameOf, SeenBelow, EmptyBelow
  <2> QED BY <2>2 DEF Reading, SameOf
<1>2. CASE pc[u] = "working" /\ OfOneKey(op[u])
  BY <1>2 DEF Reading, SameOf, OfOneKey
<1>3. CASE pc[u] # "working"
  BY <1>3 DEF Reading, SameOf
<1> QED BY <1>1, <1>2, <1>3

LEMMA NothingSeen ==
  ASSUME MapInv
  PROVE  /\ SeenBelow(0) = Atomic!NoEntries /\ EmptyBelow(0)
         /\ [seen |-> Atomic!NoEntries, isEmpty |-> TRUE] = Atomic!NoAnswer
<1>1. \A k \in Keys : ~(BucketOf(k) < 0)
  BY BucketsAssumption DEF Buckets
<1>2. SeenBelow(0) = Atomic!NoEntries
  BY <1>1 DEF SeenBelow, Atomic!NoEntries
<1>3. EmptyBelow(0)
  BY <1>1 DEF EmptyBelow
<1>4. [seen |-> Atomic!NoEntries, isEmpty |-> TRUE] = Atomic!NoAnswer
  BY DEF Atomic!NoAnswer
<1> QED BY <1>2, <1>3, <1>4

LEMMA CallLin ==
  ASSUME MapInv, LinInv, NEW t \in Threads, Call(t)
  PROVE  LinInv'
<1>1. PICK o \in Atomic!Operations :
        op' = [op EXCEPT ![t] = o]
  BY DEF Call
<1>2. /\ Types /\ pc[t] = "idle" /\ pc'[t] = "locking" /\ op'[t] = o
      /\ answer'[t] = Atomic!NoAnswer /\ data' = data
  BY <1>1 DEF MapInv, Types, Call
<1>3. \A u \in Threads \ {t} : SameOf(u)
  BY <1>1, <1>2 DEF Call, Types, SameOf
<1>4. ASSUME NEW u \in Threads PROVE Reading(u)'
  <2>1. CASE u = t
    BY <1>2, <2>1 DEF Reading
  <2>2. CASE u # t
    BY <1>2, <1>3, <2>2, OthersRead DEF LinInv
  <2> QED BY <2>1, <2>2
<1> QED BY <1>4 DEF LinInv

LEMMA LockLin ==
  ASSUME MapInv, LinInv, NEW t \in Threads, Lock(t)
  PROVE  LinInv'
<1>1. /\ Types /\ pc[t] = "locking" /\ op' = op /\ data' = data /\ answer' = answer
      /\ \/ pc' = [pc EXCEPT ![t] = "working"] /\ at' = [at EXCEPT ![t] = First(op[t])]
         \/ pc' = pc /\ at' = [at EXCEPT ![t] = at[t] + 1]
  BY DEF MapInv, Lock, AfterLock
<1>2. \A u \in Threads \ {t} : SameOf(u)
  BY <1>1 DEF Types, SameOf
<1>3. Reading(t)'
  <2>1. answer'[t] = Atomic!NoAnswer
    BY <1>1 DEF LinInv, Reading
  <2>2. CASE pc' = pc
    BY <1>1, <2>1, <2>2 DEF Reading
  <2>3. CASE pc' = [pc EXCEPT ![t] = "working"] /\ at' = [at EXCEPT ![t] = First(op[t])]
    <3>1. pc'[t] = "working" /\ at'[t] = First(op[t]) /\ op'[t] = op[t]
      BY <1>1, <2>3 DEF Types
    <3>2. ~OfOneKey(op[t]) => at'[t] = 0
      BY <3>1 DEF First
    <3>3. /\ SeenBelow(0)' = SeenBelow(0)
          /\ EmptyBelow(0)' <=> EmptyBelow(0)
      BY <1>1 DEF SeenBelow, EmptyBelow
    <3>4. op[t].name \in {"data", "empty", "clear"} => ~OfOneKey(op[t])
      BY DEF OfOneKey
    <3> QED BY <2>1, <3>1, <3>2, <3>3, <3>4, NothingSeen DEF Reading
  <2> QED BY <1>1, <2>2, <2>3
<1>4. ASSUME NEW u \in Threads PROVE Reading(u)'
  BY <1>1, <1>2, <1>3, OthersRead DEF LinInv
<1> QED BY <1>4 DEF LinInv

LEMMA UnlockLin ==
  ASSUME MapInv, LinInv, NEW t \in Threads, Unlock(t)
  PROVE  LinInv'
<1>1. /\ Types /\ pc[t] = "unlocking" /\ op' = op /\ data' = data /\ answer' = answer /\ at' = at
      /\ pc' = [pc EXCEPT ![t] = "idle"] \/ pc' = pc
  BY DEF MapInv, Unlock
<1>2. pc'[t] \in {"unlocking", "idle"} /\ \A u \in Threads \ {t} : SameOf(u)
  BY <1>1 DEF Types, SameOf
<1>3. ASSUME NEW u \in Threads PROVE Reading(u)'
  <2>1. CASE u = t
    BY <1>2, <2>1 DEF Reading
  <2>2. CASE u # t
    BY <1>1, <1>2, <2>2, OthersRead DEF LinInv
  <2> QED BY <2>1, <2>2
<1> QED BY <1>3 DEF LinInv

-----------------------------------------------------------------------------
(* One step of work.                                                       *)

(* What is left of the step for the thread itself.                         *)
LEMMA WorkReads ==
  ASSUME MapInv, LinInv, NEW t \in Threads, Work(t)
  PROVE  Reading(t)'
<1> DEFINE o == op[t]
           b == at[t]
<1>1. /\ Types /\ o \in Atomic!Operations /\ b \in Buckets /\ b \in Nat
      /\ pc[t] = "working" /\ op' = op
  BY Here DEF Work
<1>2. CASE pc'[t] # "working"
  <2>1. pc'[t] = "unlocking"
    BY <1>1, <1>2 DEF Work, Types
  <2> QED BY <2>1 DEF Reading
<1>3. CASE pc'[t] = "working"
  <2>1. /\ ~Finished(t, b) /\ at'[t] = b + 1 /\ b # Last(o)
    BY <1>1, <1>3 DEF Work, Types, Finished
  <2>2. ~OfOneKey(o)
    BY <1>1, <2>1, Here
  <2>3. o.name \in {"empty", "data", "clear"}
    BY <1>1, <2>2, OperationCases DEF OfOneKey
  <2>4. \A k \in Keys : BucketOf(k) \in Nat /\ BucketOf(k) \in Buckets
                        /\ (BucketOf(k) < b + 1 <=> BucketOf(k) < b \/ BucketOf(k) = b)
    BY <1>1, BucketsAssumption DEF Buckets
  <2>5. CASE o.name = "clear"
    <3>1. answer' = answer
      BY <2>5 DEF Work, Reads
    <3>2. \A k \in Keys : BucketOf(k) < b + 1 => data'[BucketOf(k)][k] = Absent
      <4>1. \A k \in Keys : BucketOf(k) < b => data[BucketOf(k)][k] = Absent
        BY <1>1, <2>5 DEF LinInv, Reading, EmptyBelow
      <4>2. \A c \in Buckets, k \in Keys :
              data'[c][k] = IF c = b THEN Absent ELSE data[c][k]
        BY <2>5, ClearEffect
      <4> QED BY <2>4, <4>1, <4>2
    <3> QED BY <1>1, <1>3, <2>1, <2>5, <3>1, <3>2 DEF LinInv, Reading, EmptyBelow
  <2>6. CASE o.name = "empty"
    <3>1. data' = data /\ answer' = [answer EXCEPT ![t] = ReadBucket(o, b, @)]
      BY <2>6 DEF Work, Reads
    <3>2. Present(b) = {} /\ answer[t] = Atomic!NoAnswer /\ EmptyBelow(b)
      BY <1>1, <2>1, <2>6 DEF Finished, LinInv, Reading
    <3>3. ReadBucket(o, b, Atomic!NoAnswer) = [Atomic!NoAnswer EXCEPT !.isEmpty = (Present(b) = {})]
      BY <2>6 DEF ReadBucket
    <3>4. ReadBucket(o, b, Atomic!NoAnswer) = Atomic!NoAnswer
      BY <3>2, <3>3 DEF Atomic!NoAnswer
    <3>5. answer'[t] = Atomic!NoAnswer
      BY <1>1, <3>1, <3>2, <3>4 DEF Types
    <3>6. \A k \in Keys : BucketOf(k) < b + 1 => data'[BucketOf(k)][k] = Absent
      BY <2>4, <3>1, <3>2 DEF EmptyBelow, Present
    <3> QED BY <1>1, <1>3, <2>1, <2>6, <3>5, <3>6 DEF Reading, EmptyBelow
  <2>7. CASE o.name = "data"
    <3>1. data' = data /\ answer' = [answer EXCEPT ![t] = ReadBucket(o, b, @)]
      BY <2>7 DEF Work, Reads
    <3>2. answer[t] = [seen |-> SeenBelow(b), isEmpty |-> TRUE]
      BY <1>1, <2>7 DEF LinInv, Reading
    <3> DEFINE m == [k \in Keys |-> IF k \in Present(b) THEN data[b][k] ELSE SeenBelow(b)[k]]
    <3>3. ReadBucket(o, b, answer[t]) = [seen |-> m, isEmpty |-> TRUE]
      <4> DEFINE a == answer[t]
      <4>1. a \in Atomic!Answers /\ a.seen = SeenBelow(b) /\ a.isEmpty = TRUE
        <5>1. a \in Atomic!Answers
          BY <1>1 DEF Types
        <5> HIDE DEF a
        <5>2. a = [seen |-> SeenBelow(b), isEmpty |-> TRUE]
          BY <3>2 DEF a
        <5> QED BY <5>1, <5>2
      <4>2. ReadBucket(o, b, a) = [a EXCEPT !.seen = m]
        BY <2>7, <4>1 DEF ReadBucket
      <4> HIDE DEF a, m
      <4> QED BY <4>1, <4>2 DEF Atomic!Answers, a
    <3>4. m = SeenBelow(b + 1)
      <4>1. ASSUME NEW k \in Keys PROVE m[k] = SeenBelow(b + 1)[k]
        <5>1. k \in Present(b) <=> data[b][k] # Absent
          BY DEF Present
        <5>2. data[b][k] # Absent => BucketOf(k) = b
          BY <1>1 DEF MapInv, Placed
        <5> QED BY <1>1, <2>4, <5>1, <5>2 DEF SeenBelow
      <4> QED BY <4>1 DEF SeenBelow
    <3>5. answer'[t] = [seen |-> SeenBelow(b + 1), isEmpty |-> TRUE]
      BY <1>1, <3>1, <3>3, <3>4 DEF Types
    <3>6. SeenBelow(at[t])' = SeenBelow(b + 1)
      BY <2>1, <3>1 DEF SeenBelow
    <3>7. op'[t].name = "data"
      BY <1>1, <2>7
    <3> QED BY <1>3, <3>5, <3>6, <3>7 DEF Reading
  <2> QED BY <2>3, <2>5, <2>6, <2>7
<1> QED BY <1>2, <1>3

LEMMA WorkLin ==
  ASSUME MapInv, LinInv, NEW t \in Threads, Work(t)
  PROVE  LinInv'
<1>1. /\ Types /\ pc[t] = "working" /\ op' = op
      /\ \/ pc' = [pc EXCEPT ![t] = "unlocking"] /\ at' = at
         \/ pc' = pc /\ at' = [at EXCEPT ![t] = at[t] + 1]
      /\ \A u \in Threads \ {t} : answer'[u] = answer[u]
  BY DEF MapInv, Types, Work
<1>2. \A u \in Threads \ {t} : SameOf(u)
  BY <1>1 DEF Types, SameOf
<1>3. ASSUME NEW u \in Threads, u # t PROVE Reading(u)'
  <2>1. pc[u] = "working" /\ ~OfOneKey(op[u]) => data' = data
    <3>1. pc[u] = "working" /\ ~OfOneKey(op[u]) => Reads(op[t])
      BY <1>1, <1>3, NobodyElse
    <3>2. Reads(op[t]) => data' = data
      BY DEF Work, Reads
    <3> QED BY <3>1, <3>2
  <2> QED BY <1>2, <1>3, <2>1, OthersRead DEF LinInv
<1> QED BY <1>3, WorkReads DEF LinInv

LEMMA LinInvariance == Spec => []LinInv
<1>1. Init => LinInv
  BY DEF Init, LinInv, Reading
<1>2. MapInv /\ LinInv /\ [Next]_vars => LinInv'
  <2> SUFFICES ASSUME MapInv, LinInv, [Next]_vars PROVE LinInv'
    OBVIOUS
  <2>1. CASE Next
    BY <2>1, CallLin, LockLin, WorkLin, UnlockLin DEF Next
  <2>2. CASE UNCHANGED vars
    <3>1. \A u \in Threads : Reading(u)'
      BY <2>2, OthersRead DEF LinInv, vars, SameOf
    <3> QED BY <3>1 DEF LinInv
  <2> QED BY <2>1, <2>2
<1> QED BY <1>1, <1>2, MapInvariance, PTL DEF Spec

-----------------------------------------------------------------------------
(* The refinement.  The three functions that the instance of AtomicMap is  *)
(* given, by name.                                                         *)

ClearingNow(t) == pc[t] = "working" /\ op[t].name = "clear" /\ at[t] > 0

AMap == [k \in Keys |-> IF SomeClearing THEN Absent ELSE data[BucketOf(k)][k]]

AStatus ==
  [t \in Threads |->
    CASE pc[t] = "idle" -> "idle"
      [] pc[t] = "unlocking" -> "done"
      [] pc[t] = "working" /\ op[t].name = "clear" /\ at[t] > 0 -> "done"
      [] OTHER -> "called"]

AAnswer ==
  [t \in Threads |->
    IF pc[t] = "unlocking" THEN answer[t]
    ELSE [seen |-> [k \in Keys |-> Absent], isEmpty |-> TRUE]]

LEMMA CallMaps ==
  ASSUME NEW t \in Threads, NEW o \in Atomic!Operations,
         AStatus[t] = "idle", AStatus' = [AStatus EXCEPT ![t] = "called"],
         op' = [op EXCEPT ![t] = o], AMap' = AMap, AAnswer' = AAnswer
  PROVE  Atomic!Call(t)
BY DEF Atomic!Call, AMap, AStatus, AAnswer

LEMMA EffectMaps ==
  ASSUME NEW t \in Threads,
         AStatus[t] = "called", AStatus' = [AStatus EXCEPT ![t] = "done"],
         AMap' \in Atomic!Outcomes(op[t], AMap),
         AAnswer' = [AAnswer EXCEPT ![t] = Atomic!AnswerOf(op[t], AMap)],
         op' = op
  PROVE  Atomic!TakeEffect(t)
BY DEF Atomic!TakeEffect, AMap, AStatus, AAnswer

LEMMA ReturnMaps ==
  ASSUME NEW t \in Threads,
         AStatus[t] = "done", AStatus' = [AStatus EXCEPT ![t] = "idle"],
         AAnswer' = [AAnswer EXCEPT ![t] = Atomic!NoAnswer],
         AMap' = AMap, op' = op
  PROVE  Atomic!Return(t)
BY DEF Atomic!Return, AMap, AStatus, AAnswer

LEMMA StutterMaps ==
  ASSUME AStatus' = AStatus, AAnswer' = AAnswer, AMap' = AMap, op' = op
  PROVE  UNCHANGED Atomic!mapVars
BY DEF Atomic!mapVars, AMap, AStatus, AAnswer

LEMMA StatusCases ==
  ASSUME NEW t \in Threads
  PROVE  /\ pc[t] = "idle" => AStatus[t] = "idle"
         /\ pc[t] = "unlocking" => AStatus[t] = "done"
         /\ pc[t] = "locking" => AStatus[t] = "called"
         /\ pc[t] = "working" => AStatus[t] = IF ClearingNow(t) THEN "done" ELSE "called"
         /\ AAnswer[t] = IF pc[t] = "unlocking" THEN answer[t] ELSE Atomic!NoAnswer
<1>1. AAnswer[t] = IF pc[t] = "unlocking" THEN answer[t] ELSE Atomic!NoAnswer
  BY DEF AAnswer, Atomic!NoAnswer, Atomic!NoEntries
<1> QED BY <1>1 DEF AStatus, ClearingNow

LEMMA StatusCasesNext ==
  ASSUME NEW t \in Threads
  PROVE  /\ pc'[t] = "idle" => AStatus'[t] = "idle"
         /\ pc'[t] = "unlocking" => AStatus'[t] = "done"
         /\ pc'[t] = "locking" => AStatus'[t] = "called"
         /\ pc'[t] = "working" => AStatus'[t] = IF ClearingNow(t)' THEN "done" ELSE "called"
         /\ AAnswer'[t] = IF pc'[t] = "unlocking" THEN answer'[t] ELSE Atomic!NoAnswer
<1>1. AAnswer'[t] = IF pc'[t] = "unlocking" THEN answer'[t] ELSE Atomic!NoAnswer
  BY DEF AAnswer, Atomic!NoAnswer, Atomic!NoEntries
<1> QED BY <1>1 DEF AStatus, ClearingNow

(* A step that concerns one thread changes what is said of that thread.    *)
LEMMA OneChanges ==
  ASSUME NEW t \in Threads, \A u \in Threads \ {t} : SameOf(u)
  PROVE  /\ AStatus' = [AStatus EXCEPT ![t] = AStatus'[t]]
         /\ AAnswer' = [AAnswer EXCEPT ![t] = AAnswer'[t]]
         /\ \A u \in Threads \ {t} : ClearingNow(u)' <=> ClearingNow(u)
<1>1. \A u \in Threads \ {t} : ClearingNow(u)' <=> ClearingNow(u)
  BY DEF ClearingNow, SameOf
<1>2. \A u \in Threads \ {t} : AStatus'[u] = AStatus[u] /\ AAnswer'[u] = AAnswer[u]
  BY DEF AStatus, AAnswer, SameOf
<1>3. AStatus' = [u \in Threads |-> AStatus'[u]] /\ AAnswer' = [u \in Threads |-> AAnswer'[u]]
  BY DEF AStatus, AAnswer
<1>4. AStatus = [u \in Threads |-> AStatus[u]] /\ AAnswer = [u \in Threads |-> AAnswer[u]]
  BY DEF AStatus, AAnswer
<1> QED BY <1>1, <1>2, <1>3, <1>4

LEMMA SameMap ==
  ASSUME SomeClearing' <=> SomeClearing, data' = data
  PROVE  AMap' = AMap
BY DEF AMap

LEMMA CallRefines ==
  ASSUME MapInv, NEW t \in Threads, Call(t)
  PROVE  Atomic!Call(t)
<1>1. PICK o \in Atomic!Operations : op' = [op EXCEPT ![t] = o]
  BY DEF Call
<1>2. /\ Types /\ pc[t] = "idle" /\ pc'[t] = "locking" /\ data' = data
      /\ \A u \in Threads \ {t} : SameOf(u)
  BY <1>1 DEF MapInv, Types, Call, SameOf
<1>3. /\ AStatus[t] = "idle" /\ AStatus'[t] = "called"
      /\ AAnswer[t] = Atomic!NoAnswer /\ AAnswer'[t] = Atomic!NoAnswer
  BY <1>2, StatusCases, StatusCasesNext
<1>4. AStatus' = [AStatus EXCEPT ![t] = "called"] /\ AAnswer' = AAnswer
  <2>1. AAnswer = [AAnswer EXCEPT ![t] = Atomic!NoAnswer]
    BY <1>3 DEF AAnswer
  <2> QED BY <1>2, <1>3, <2>1, OneChanges
<1>5. SomeClearing' <=> SomeClearing
  <2>1. \A u \in Threads : ClearingNow(u)' <=> ClearingNow(u)
    BY <1>2, OneChanges DEF ClearingNow
  <2> QED BY <2>1 DEF SomeClearing, ClearingNow
<1> QED BY <1>1, <1>2, <1>3, <1>4, <1>5, SameMap, CallMaps

LEMMA LockRefines ==
  ASSUME MapInv, NEW t \in Threads, Lock(t)
  PROVE  UNCHANGED Atomic!mapVars
<1>1. /\ Types /\ pc[t] = "locking" /\ op' = op /\ data' = data /\ answer' = answer
      /\ \/ pc' = [pc EXCEPT ![t] = "working"] /\ at' = [at EXCEPT ![t] = First(op[t])]
         \/ pc' = pc /\ at' = [at EXCEPT ![t] = at[t] + 1]
  BY DEF MapInv, Lock, AfterLock
<1>2. /\ \A u \in Threads \ {t} : SameOf(u)
      /\ pc'[t] = "locking" \/ (pc'[t] = "working" /\ at'[t] = First(op[t]))
  BY <1>1 DEF Types, SameOf
<1>3. ~ClearingNow(t) /\ ~ClearingNow(t)'
  <2>1. op[t].name = "clear" => First(op[t]) = 0
    BY DEF First, OfOneKey
  <2> QED BY <1>1, <1>2, <2>1 DEF ClearingNow
<1>4. /\ AStatus[t] = "called" /\ AStatus'[t] = "called"
      /\ AAnswer[t] = Atomic!NoAnswer /\ AAnswer'[t] = Atomic!NoAnswer
  BY <1>1, <1>2, <1>3, StatusCases, StatusCasesNext
<1>5. AStatus' = AStatus /\ AAnswer' = AAnswer
  <2>1. AAnswer = [AAnswer EXCEPT ![t] = Atomic!NoAnswer] /\ AStatus = [AStatus EXCEPT ![t] = "called"]
    BY <1>4 DEF AAnswer, AStatus
  <2> QED BY <1>2, <1>4, <2>1, OneChanges
<1>6. SomeClearing' <=> SomeClearing
  BY <1>2, <1>3, OneChanges DEF SomeClearing, ClearingNow
<1> QED BY <1>1, <1>5, <1>6, SameMap, StutterMaps

LEMMA UnlockRefines ==
  ASSUME MapInv, NEW t \in Threads, Unlock(t)
  PROVE  Atomic!Return(t) \/ UNCHANGED Atomic!mapVars
<1>1. /\ Types /\ pc[t] = "unlocking" /\ op' = op /\ data' = data /\ answer' = answer /\ at' = at
      /\ pc' = [pc EXCEPT ![t] = "idle"] \/ pc' = pc
  BY DEF MapInv, Unlock
<1>2. \A u \in Threads \ {t} : SameOf(u)
  BY <1>1 DEF Types, SameOf
<1>3. SomeClearing' <=> SomeClearing
  <2>1. ~ClearingNow(t) /\ ~ClearingNow(t)'
    BY <1>1 DEF Types, ClearingNow
  <2> QED BY <1>2, <2>1, OneChanges DEF SomeClearing, ClearingNow
<1>4. CASE pc' = pc
  BY <1>1, <1>3, <1>4, SameMap, StutterMaps DEF AStatus, AAnswer
<1>5. CASE pc' = [pc EXCEPT ![t] = "idle"]
  <2>1. pc'[t] = "idle"
    BY <1>1, <1>5 DEF Types
  <2>2. AStatus[t] = "done" /\ AStatus'[t] = "idle" /\ AAnswer'[t] = Atomic!NoAnswer
    BY <1>1, <2>1, StatusCases, StatusCasesNext
  <2> QED BY <1>1, <1>2, <1>3, <2>2, OneChanges, SameMap, ReturnMaps
<1> QED BY <1>1, <1>4, <1>5

-----------------------------------------------------------------------------
(* The work.                                                               *)

(* While a thread works, nobody else is clearing.                          *)
LEMMA OnlyItself ==
  ASSUME MapInv, NEW t \in Threads, Work(t)
  PROVE  /\ \A u \in Threads \ {t} : SameOf(u)
         /\ SomeClearing <=> ClearingNow(t)
         /\ SomeClearing' <=> ClearingNow(t)'
<1>1. /\ Types /\ pc[t] = "working" /\ op' = op
      /\ \/ pc' = [pc EXCEPT ![t] = "unlocking"] /\ at' = at
         \/ pc' = pc /\ at' = [at EXCEPT ![t] = at[t] + 1]
      /\ \A u \in Threads \ {t} : answer'[u] = answer[u]
  BY DEF MapInv, Types, Work
<1>2. \A u \in Threads \ {t} : SameOf(u)
  BY <1>1 DEF Types, SameOf
<1>3. \A u \in Threads \ {t} : ~ClearingNow(u)
  BY <1>1, ClearsAlone DEF ClearingNow
<1>4. \A u \in Threads \ {t} : ~ClearingNow(u)'
  BY <1>2, <1>3, OneChanges
<1> QED BY <1>2, <1>3, <1>4 DEF SomeClearing, ClearingNow

(* The map after an operation that has taken effect in its last step.      *)
LEMMA LastStepApplies ==
  ASSUME MapInv, LinInv, NEW t \in Threads, Work(t), Finished(t, at[t]),
         ~SomeClearing, ~SomeClearing'
  PROVE  AMap' \in Atomic!Outcomes(op[t], AMap)
<1> DEFINE o == op[t]
           b == at[t]
<1>1. /\ Types /\ o \in Atomic!Operations /\ b \in Buckets /\ pc[t] = "working"
      /\ OfOneKey(o) => o.key \in Keys /\ b = BucketOf(o.key)
  BY Here DEF Work
<1>2. \A k \in Keys : BucketOf(k) \in Buckets
  BY BucketsAssumption
<1>3. AMap = [k \in Keys |-> data[BucketOf(k)][k]] /\ AMap' = [k \in Keys |-> data'[BucketOf(k)][k]]
  BY DEF AMap
<1>4. CASE Reads(o)
  <2>1. data' = data
    BY <1>4 DEF Work, Reads
  <2>2. Atomic!Outcomes(o, AMap) = {AMap}
    BY <1>4 DEF Atomic!Outcomes, Reads
  <2> QED BY <1>3, <2>1, <2>2
<1>5. CASE o.name = "insert"
  <2>1. Atomic!Outcomes(o, AMap) = {[AMap EXCEPT ![o.key] = o.value]}
    BY <1>5 DEF Atomic!Outcomes
  <2>2. \A k \in Keys : data'[BucketOf(k)][k]
          = IF k = o.key THEN o.value ELSE data[BucketOf(k)][k]
    BY <1>1, <1>2, <1>5, InsertEffect DEF OfOneKey
  <2> QED BY <1>3, <2>1, <2>2
<1>6. CASE o.name = "erase"
  <2> DEFINE x == o.key
  <2>1. x \in Keys /\ b = BucketOf(x) /\ AMap[x] = data[b][x]
    BY <1>1, <1>3, <1>6 DEF OfOneKey
  <2>2. Atomic!Outcomes(o, AMap) =
          IF AMap[x] # Absent THEN {Atomic!Without(AMap, x)}
          ELSE {AMap} \cup {Atomic!Without(AMap, k) : k \in {j \in Keys : j > x}}
    BY <1>6 DEF Atomic!Outcomes
  <2>3. ASSUME NEW j \in Keys, Takes(b, j)
        PROVE  AMap' = Atomic!Without(AMap, j) \/ AMap' = AMap
    <3>1. CASE BucketOf(j) = b
      <4>1. \A k \in Keys : data'[BucketOf(k)][k]
              = IF k = j THEN Absent ELSE data[BucketOf(k)][k]
        BY <1>1, <1>2, <2>3, <3>1 DEF Takes
      <4> QED BY <1>3, <4>1 DEF Atomic!Without
    <3>2. CASE BucketOf(j) # b
      <4>1. \A k \in Keys : data'[BucketOf(k)][k] = data[BucketOf(k)][k]
        BY <1>1, <1>2, <2>3, <3>2 DEF Takes
      <4> QED BY <1>3, <4>1
    <3> QED BY <3>1, <3>2
  <2>4. CASE data[b][x] # Absent
    <3>1. Takes(b, x)
      BY <1>6, <2>4, EraseEffect
    <3>2. \A k \in Keys : data'[BucketOf(k)][k]
            = IF k = x THEN Absent ELSE data[BucketOf(k)][k]
      BY <1>1, <1>2, <2>1, <3>1 DEF Takes
    <3>3. AMap' = Atomic!Without(AMap, x)
      BY <1>3, <3>2 DEF Atomic!Without
    <3> QED BY <2>1, <2>2, <2>4, <3>3
  <2>5. CASE data[b][x] = Absent
    <3>1. CASE \A c \in Buckets, k \in Keys : data'[c][k] = data[c][k]
      <4>1. AMap' = AMap
        BY <1>2, <1>3, <3>1
      <4> QED BY <2>1, <2>2, <2>5, <4>1
    <3>2. CASE \E j \in Keys : j > x /\ Takes(b, j)
      <4>1. PICK j \in Keys : j > x /\ Takes(b, j)
        BY <3>2
      <4>2. AMap' = Atomic!Without(AMap, j) \/ AMap' = AMap
        BY <2>3, <4>1
      <4> QED BY <2>1, <2>2, <2>5, <4>1, <4>2
    <3> QED BY <1>6, <2>5, <3>1, <3>2, EraseEffect
  <2> QED BY <2>4, <2>5
<1>7. CASE o.name = "clear"
  <2>1. Atomic!Outcomes(o, AMap) = {Atomic!NoEntries}
    BY <1>7 DEF Atomic!Outcomes
  <2>2. b = Last(o) /\ Last(o) = NumBuckets - 1
    BY <1>7 DEF Finished, Last, OfOneKey
  <2>3. EmptyBelow(b)
    BY <1>1, <1>7 DEF LinInv, Reading
  <2>4. \A k \in Keys : data'[BucketOf(k)][k] = Absent
    <3>1. \A k \in Keys : BucketOf(k) = b \/ BucketOf(k) < b
      BY <1>2, <2>2, BucketsAssumption DEF Buckets
    <3> QED BY <1>2, <1>7, <2>3, <3>1, ClearEffect DEF EmptyBelow
  <2> QED BY <1>3, <2>1, <2>4 DEF Atomic!NoEntries
<1> QED BY <1>1, <1>4, <1>5, <1>6, <1>7, OperationCases DEF Reads

(* ... and what it answers.                                                *)
LEMMA LastStepAnswers ==
  ASSUME MapInv, LinInv, NEW t \in Threads, Work(t), Finished(t, at[t]), ~SomeClearing
  PROVE  answer'[t] = Atomic!AnswerOf(op[t], AMap)
<1> DEFINE o == op[t]
           b == at[t]
           a == answer[t]
<1>1. /\ Types /\ o \in Atomic!Operations /\ b \in Buckets /\ pc[t] = "working"
      /\ OfOneKey(o) => o.key \in Keys /\ b = BucketOf(o.key)
      /\ a \in Atomic!Answers
  BY Here DEF Work, Types
<1>2. a = IF o.name = "data" THEN [seen |-> SeenBelow(b), isEmpty |-> TRUE] ELSE Atomic!NoAnswer
  BY <1>1 DEF LinInv, Reading
<1>3. \A k \in Keys : AMap[k] = data[BucketOf(k)][k] /\ BucketOf(k) \in Buckets
                      /\ BucketOf(k) \in Nat /\ BucketOf(k) < NumBuckets
  BY BucketsAssumption DEF AMap, Buckets
<1>4. Reads(o) => answer'[t] = ReadBucket(o, b, a)
  BY <1>1 DEF Work, Types, Reads
<1>5. b # Last(o) => o.name = "empty" /\ Present(b) # {}
  BY DEF Finished
<1>6. \A k \in Keys : data[b][k] # Absent => BucketOf(k) = b
  BY <1>1 DEF MapInv, Placed
<1>7. CASE ~Reads(o)
  <2>1. answer' = answer
    BY <1>7 DEF Work
  <2>2. Atomic!AnswerOf(o, AMap) = Atomic!NoAnswer
    BY <1>1, <1>7, OperationCases DEF Atomic!AnswerOf, Reads
  <2> QED BY <1>2, <1>7, <2>1, <2>2 DEF Reads
<1>8. CASE o.name = "find"
  <2> DEFINE F(v) == [Atomic!NoAnswer EXCEPT !.seen[o.key] = v]
  <2>1. ReadBucket(o, b, a) = F(data[b][o.key])
    BY <1>2, <1>8 DEF ReadBucket
  <2>2. Atomic!AnswerOf(o, AMap) = F(AMap[o.key])
    BY <1>8 DEF Atomic!AnswerOf
  <2>3. AMap[o.key] = data[b][o.key]
    BY <1>1, <1>3, <1>8 DEF OfOneKey
  <2> HIDE DEF F
  <2> QED BY <1>4, <1>8, <2>1, <2>2, <2>3 DEF Reads
<1>9. CASE o.name = "empty"
  <2> DEFINE F(e) == [Atomic!NoAnswer EXCEPT !.isEmpty = e]
  <2>1. ReadBucket(o, b, a) = F(Present(b) = {})
    BY <1>2, <1>9 DEF ReadBucket
  <2>2. Atomic!AnswerOf(o, AMap) = F(AMap = Atomic!NoEntries)
    BY <1>9 DEF Atomic!AnswerOf
  <2>3. (Present(b) = {}) = (AMap = Atomic!NoEntries)
    <3>1. CASE Present(b) # {}
      <4>1. PICK k \in Keys : data[b][k] # Absent
        BY <3>1 DEF Present
      <4>2. AMap[k] # Absent
        BY <1>3, <1>6, <4>1
      <4>3. AMap # Atomic!NoEntries
        BY <4>2 DEF Atomic!NoEntries
      <4> QED BY <3>1, <4>3
    <3>2. CASE Present(b) = {}
      <4>1. b = NumBuckets - 1 /\ EmptyBelow(b)
        BY <1>1, <1>5, <1>9, <3>2 DEF Last, OfOneKey, LinInv, Reading
      <4>2. \A k \in Keys : BucketOf(k) < b \/ BucketOf(k) = b
        BY <1>3, <4>1, BucketsAssumption
      <4>3. \A k \in Keys : AMap[k] = Absent
        BY <1>3, <3>2, <4>1, <4>2 DEF EmptyBelow, Present
      <4>4. AMap = Atomic!NoEntries
        BY <4>3 DEF AMap, Atomic!NoEntries
      <4> QED BY <3>2, <4>4
    <3> QED BY <3>1, <3>2
  <2> HIDE DEF F
  <2> QED BY <1>4, <1>9, <2>1, <2>2, <2>3 DEF Reads
<1>10. CASE o.name = "data"
  <2> DEFINE m == [k \in Keys |-> IF k \in Present(b) THEN data[b][k] ELSE SeenBelow(b)[k]]
  <2>1. a.seen = SeenBelow(b) /\ a.isEmpty = TRUE
    <3> HIDE DEF a
    <3> QED BY <1>2, <1>10
  <2>2. ReadBucket(o, b, a) = [a EXCEPT !.seen = m]
    BY <1>10, <2>1 DEF ReadBucket
  <2>3. m = AMap
    <3>1. b = NumBuckets - 1
      BY <1>5, <1>10 DEF Last, OfOneKey
    <3>2. ASSUME NEW k \in Keys PROVE m[k] = AMap[k]
      <4>1. BucketOf(k) < b \/ BucketOf(k) = b
        BY <1>3, <3>1, BucketsAssumption
      <4>2. ~(b < b)
        BY <1>1 DEF Buckets
      <4> QED BY <1>3, <1>6, <4>1, <4>2 DEF SeenBelow, Present
    <3> QED BY <3>2 DEF AMap
  <2>4. ReadBucket(o, b, a) = [seen |-> AMap, isEmpty |-> TRUE]
    <3> HIDE DEF a, m
    <3> QED BY <1>1, <2>1, <2>2, <2>3 DEF Atomic!Answers
  <2>5. Atomic!AnswerOf(o, AMap) = [seen |-> AMap, isEmpty |-> TRUE]
    <3> DEFINE n == Atomic!NoAnswer
    <3>1. n \in Atomic!Answers /\ n.isEmpty = TRUE
      BY NothingIsAMap DEF Atomic!NoAnswer
    <3>2. Atomic!AnswerOf(o, AMap) = [n EXCEPT !.seen = AMap]
      BY <1>10 DEF Atomic!AnswerOf
    <3> HIDE DEF n
    <3> QED BY <3>1, <3>2 DEF Atomic!Answers
  <2> QED BY <1>4, <1>10, <2>4, <2>5 DEF Reads
<1> QED BY <1>1, <1>7, <1>8, <1>9, <1>10, OperationCases DEF Reads

LEMMA WorkRefines ==
  ASSUME MapInv, LinInv, NEW t \in Threads, Work(t)
  PROVE  Atomic!TakeEffect(t) \/ UNCHANGED Atomic!mapVars
<1> DEFINE o == op[t]
           b == at[t]
<1>1. /\ Types /\ pc[t] = "working" /\ op' = op /\ b \in Nat /\ b \in Buckets
      /\ First(o) <= b
      /\ \/ Finished(t, b) /\ pc' = [pc EXCEPT ![t] = "unlocking"] /\ at' = at
         \/ ~Finished(t, b) /\ pc' = pc /\ at' = [at EXCEPT ![t] = b + 1]
  BY Here DEF Work
<1>2. AStatus[t] = IF ClearingNow(t) THEN "done" ELSE "called"
  BY <1>1, StatusCases
<1>3. /\ AStatus' = [AStatus EXCEPT ![t] = AStatus'[t]]
      /\ AAnswer' = [AAnswer EXCEPT ![t] = AAnswer'[t]]
      /\ AAnswer[t] = Atomic!NoAnswer
      /\ SomeClearing <=> ClearingNow(t)
      /\ SomeClearing' <=> ClearingNow(t)'
  BY <1>1, OnlyItself, OneChanges, StatusCases
<1>4. /\ AStatus = [AStatus EXCEPT ![t] = AStatus[t]]
      /\ AAnswer = [AAnswer EXCEPT ![t] = AAnswer[t]]
  BY DEF AStatus, AAnswer
<1>5. CASE Finished(t, b)
  <2>1. pc'[t] = "unlocking" /\ ~ClearingNow(t)'
    BY <1>1, <1>5 DEF Types, ClearingNow
  <2>2. AStatus'[t] = "done" /\ AAnswer'[t] = answer'[t]
    BY <2>1, StatusCasesNext
  <2>3. CASE ~ClearingNow(t)
    <3>1. AMap' \in Atomic!Outcomes(o, AMap) /\ answer'[t] = Atomic!AnswerOf(o, AMap)
      BY <1>3, <1>5, <2>1, <2>3, LastStepApplies, LastStepAnswers
    <3> QED BY <1>1, <1>2, <1>3, <2>2, <2>3, <3>1, EffectMaps
  <2>4. CASE ClearingNow(t)
    <3>1. o.name = "clear" /\ EmptyBelow(b) /\ answer[t] = Atomic!NoAnswer
      BY <1>1, <2>4 DEF ClearingNow, LinInv, Reading
    <3>2. answer' = answer
      BY <3>1 DEF Work, Reads
    <3>3. AMap = [k \in Keys |-> Absent]
      BY <1>3, <2>4 DEF AMap
    <3>4. \A k \in Keys : data'[BucketOf(k)][k] = Absent
      <4>1. b = NumBuckets - 1
        BY <1>5, <3>1 DEF Finished, Last, OfOneKey
      <4>2. \A k \in Keys : BucketOf(k) \in Buckets /\ (BucketOf(k) < b \/ BucketOf(k) = b)
        BY <4>1, BucketsAssumption DEF Buckets
      <4> QED BY <3>1, <4>2, ClearEffect DEF EmptyBelow
    <3>5. AMap' = AMap
      BY <1>3, <2>1, <3>3, <3>4 DEF AMap
    <3> QED BY <1>1, <1>2, <1>3, <1>4, <2>2, <2>4, <3>1, <3>2, <3>5, StutterMaps
  <2> QED BY <2>3, <2>4
<1>6. CASE ~Finished(t, b)
  <2>1. pc'[t] = "working" /\ pc' = pc /\ at'[t] = b + 1 /\ AAnswer'[t] = Atomic!NoAnswer
    BY <1>1, <1>6, StatusCasesNext DEF Types
  <2>2. AStatus'[t] = IF ClearingNow(t)' THEN "done" ELSE "called"
    BY <2>1, StatusCasesNext
  <2>3. AAnswer' = AAnswer
    BY <1>3, <1>4, <2>1
  <2>4. CASE o.name # "clear"
    <3>1. ~ClearingNow(t) /\ ~ClearingNow(t)'
      BY <1>1, <2>4 DEF ClearingNow
    <3>2. ~OfOneKey(o)
      BY <1>1, <1>6, Here DEF Finished
    <3>3. data' = data
      BY <1>1, <2>4, <3>2, OperationCases DEF Work, OfOneKey, Types, Reads
    <3>4. AMap' = AMap
      BY <1>3, <3>1, <3>3, SameMap
    <3> QED BY <1>1, <1>2, <1>3, <1>4, <2>2, <2>3, <3>1, <3>4, StutterMaps
  <2>5. CASE o.name = "clear"
    <3>1. ClearingNow(t)'
      BY <1>1, <2>1, <2>5 DEF ClearingNow
    <3>2. AMap' = [k \in Keys |-> Absent]
      BY <1>3, <3>1 DEF AMap
    <3>3. CASE ClearingNow(t)
      <4>1. AMap = [k \in Keys |-> Absent]
        BY <1>3, <3>3 DEF AMap
      <4> QED BY <1>1, <1>2, <1>3, <1>4, <2>2, <2>3, <3>1, <3>2, <3>3, <4>1, StutterMaps
    <3>4. CASE ~ClearingNow(t)
      <4>1. Atomic!Outcomes(o, AMap) = {[k \in Keys |-> Absent]}
        BY <2>5 DEF Atomic!Outcomes, Atomic!NoEntries
      <4>2. Atomic!AnswerOf(o, AMap) = Atomic!NoAnswer
        BY <2>5 DEF Atomic!AnswerOf
      <4> QED BY <1>1, <1>2, <1>3, <2>1, <2>2, <3>1, <3>2, <3>4, <4>1, <4>2, EffectMaps
    <3> QED BY <3>3, <3>4
  <2> QED BY <2>4, <2>5
<1> QED BY <1>5, <1>6

(* Every operation of the map takes effect at one instant between its call *)
(* and its return, whatever the threads call: threadsafe_hash_map          *)
(* implements AtomicMap, the weak promise of an erase of a missing key     *)
(* (remove_mapping) included.                                              *)
THEOREM ImplementsAtomicMap == Spec => Linearizable
<1>1. Init => Atomic!Init
  <2> SUFFICES ASSUME Init PROVE Atomic!Init
    OBVIOUS
  <2>1. ~SomeClearing
    BY DEF Init, SomeClearing
  <2>2. AMap = Atomic!NoEntries
    BY <2>1, BucketsAssumption DEF Init, AMap, Atomic!NoEntries
  <2>3. AStatus = [t \in Threads |-> "idle"] /\ AAnswer = [t \in Threads |-> Atomic!NoAnswer]
    BY DEF Init, AStatus, AAnswer, Atomic!NoAnswer, Atomic!NoEntries
  <2> QED BY <2>2, <2>3 DEF Init, Atomic!Init, AMap, AStatus, AAnswer
<1>2. MapInv /\ LinInv /\ [Next]_vars => [Atomic!Next]_(Atomic!mapVars)
  <2> SUFFICES ASSUME MapInv, LinInv, [Next]_vars PROVE [Atomic!Next]_(Atomic!mapVars)
    OBVIOUS
  <2>1. CASE Next
    BY <2>1, CallRefines, LockRefines, WorkRefines, UnlockRefines DEF Next, Atomic!Next
  <2>2. CASE UNCHANGED vars
    <3>1. AMap' = AMap /\ AStatus' = AStatus /\ AAnswer' = AAnswer /\ op' = op
      BY <2>2 DEF vars, AMap, AStatus, AAnswer, SomeClearing
    <3> QED BY <3>1, StutterMaps
  <2> QED BY <2>1, <2>2
<1> QED BY <1>1, <1>2, MapInvariance, LinInvariance, PTL DEF Spec, Linearizable, Atomic!Spec
=============================================================================
