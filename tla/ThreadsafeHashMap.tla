------------------------- MODULE ThreadsafeHashMap -------------------------
(***************************************************************************)
(* threadsafe_hash_map (src/include/via/thread/threadsafe_hash_map.hpp):   *)
(* the collection of the http_server's connections when it is shared by    *)
(* the threads that run the io_context.                                    *)
(*                                                                         *)
(* Keys are spread over buckets, and a bucket is a vector sorted by key    *)
(* under its own shared_mutex.  An operation on one key locks its bucket,  *)
(* for reading or for writing; an operation on the whole collection locks  *)
(* every bucket in turn, works on one bucket after the other, and unlocks  *)
(* them one by one.  The steps of the threads interleave.                  *)
(*                                                                         *)
(* A bucket is a function from the keys to their values, or Absent: the    *)
(* sorted vector without the positions.  std::lower_bound is the least key *)
(* of the bucket that is not below the one sought.                         *)
(***************************************************************************)
EXTENDS Naturals

CONSTANTS
  Threads, Keys, Values, Absent,
  NumBuckets,
  BucketOf(_)    \* get_bucket_index, for some hash function

Buckets == 0 .. NumBuckets - 1

ASSUME KeysAssumption == Keys \subseteq Nat /\ Absent \notin Values
ASSUME BucketsAssumption ==
  NumBuckets \in Nat \ {0} /\ \A k \in Keys : BucketOf(k) \in Buckets

VARIABLES
  data,      \* the data_ of each bucket
  readers,   \* the threads that hold its mutex_ shared
  writers,   \* the threads that hold its mutex_ exclusively
  pc,        \* "idle", "locking", "working" or "unlocking"
  op,        \* the operation of each thread, as in AtomicMap
  at,        \* the bucket it locks or works on next
  answer     \* what it is going to return, as in AtomicMap

vars == <<data, readers, writers, pc, op, at, answer>>

(* The map's promise, and the names of its operations and answers.         *)
SomeClearing ==
  \E t \in Threads : pc[t] = "working" /\ op[t].name = "clear" /\ at[t] > 0

Atomic == INSTANCE AtomicMap WITH
  map    <- [k \in Keys |-> IF SomeClearing THEN Absent ELSE data[BucketOf(k)][k]],
  status <- [t \in Threads |->
               CASE pc[t] = "idle" -> "idle"
                 [] pc[t] = "unlocking" -> "done"
                 [] pc[t] = "working" /\ op[t].name = "clear" /\ at[t] > 0 -> "done"
                 [] OTHER -> "called"],
  answer <- [t \in Threads |->
               IF pc[t] = "unlocking" THEN answer[t]
               ELSE [seen |-> [k \in Keys |-> Absent], isEmpty |-> TRUE]]

-----------------------------------------------------------------------------
OfOneKey(o) == o.name \in {"find", "insert", "erase"}
Reads(o)    == o.name \in {"find", "empty", "data"}

(* The operations that take their buckets' mutexes with a shared_lock, the *)
(* others taking them with a lock_guard or a unique_lock.                  *)
SharesWhenErasing(o) == o.name \in {"find", "empty", "data", "erase"}    \* mutant

Shares(o) == o.name \in {"find", "empty", "data"}

(* The range of buckets an operation locks, in this order, and works on.   *)
First(o) == IF OfOneKey(o) THEN BucketOf(o.key) ELSE 0
Last(o)  == IF OfOneKey(o) THEN BucketOf(o.key) ELSE NumBuckets - 1

Present(b)   == {k \in Keys : data[b][k] # Absent}
Held(t, b)   == t \in readers[b] \cup writers[b]

(* find_position_for: every key of the bucket from which none is lower.    *)
Positions(b, k) ==
  {p \in Present(b) : p >= k /\ \A q \in Present(b) : q >= k => p <= q}

Init ==
  /\ data = [b \in Buckets |-> Atomic!NoEntries]
  /\ readers = [b \in Buckets |-> {}] /\ writers = [b \in Buckets |-> {}]
  /\ pc = [t \in Threads |-> "idle"]
  /\ op = [t \in Threads |-> [name |-> "empty"]]
  /\ at = [t \in Threads |-> 0]
  /\ answer = [t \in Threads |-> Atomic!NoAnswer]

Call(t) ==
  /\ pc[t] = "idle"
  /\ \E o \in Atomic!Operations :
       /\ op' = [op EXCEPT ![t] = o]
       /\ at' = [at EXCEPT ![t] = First(o)]
  /\ pc' = [pc EXCEPT ![t] = "locking"]
  /\ answer' = [answer EXCEPT ![t] = Atomic!NoAnswer]
  /\ UNCHANGED <<data, readers, writers>>

-----------------------------------------------------------------------------
(* Lock the next bucket: a shared_lock waits for the writer, a unique_lock *)
(* (or lock_guard) for the writer and the readers.                         *)
MayLock(t, b) == writers[b] = {} /\ (Shares(op[t]) \/ readers[b] = {})

TakeLock(t, b) ==
  IF Shares(op[t])
  THEN readers' = [readers EXCEPT ![b] = @ \cup {t}] /\ UNCHANGED writers
  ELSE writers' = [writers EXCEPT ![b] = @ \cup {t}] /\ UNCHANGED readers

(* After the last lock the work starts, at the first bucket.               *)
AfterLock(t, last) ==
  IF at[t] = last
  THEN /\ pc' = [pc EXCEPT ![t] = "working"]
       /\ at' = [at EXCEPT ![t] = First(op[t])]
  ELSE at' = [at EXCEPT ![t] = @ + 1] /\ UNCHANGED pc

LockOneBucket(t) ==                          \* mutant
  /\ pc[t] = "locking" /\ MayLock(t, at[t])
  /\ TakeLock(t, at[t]) /\ AfterLock(t, First(op[t]))
  /\ UNCHANGED <<data, op, answer>>

LockByUpgrade(t) ==                          \* mutant
  /\ pc[t] = "locking" /\ writers[at[t]] = {}
  /\ \/ /\ t \notin readers[at[t]]
        /\ readers' = [readers EXCEPT ![at[t]] = @ \cup {t}]
        /\ IF Shares(op[t]) THEN AfterLock(t, Last(op[t])) ELSE UNCHANGED <<pc, at>>
        /\ UNCHANGED writers
     \/ /\ readers[at[t]] = {t} /\ TakeLock(t, at[t]) /\ AfterLock(t, Last(op[t]))
  /\ UNCHANGED <<data, op, answer>>

Lock(t) ==
  /\ pc[t] = "locking" /\ MayLock(t, at[t])
  /\ TakeLock(t, at[t]) /\ AfterLock(t, Last(op[t]))
  /\ UNCHANGED <<data, op, answer>>

-----------------------------------------------------------------------------
(* The work on one bucket.                                                 *)
InsertedInFirst(b, k, v) == [data EXCEPT ![0][k] = v]            \* mutant

Inserted(b, k, v) == [data EXCEPT ![b][k] = v]

(* add_or_update_mapping.                                                  *)
Insert(b, k, v) == data' = Inserted(b, k, v)

(* remove_mapping erases what lower_bound has found, whatever its key.     *)
Erase(b, k) ==
  data' = [data EXCEPT ![b] =
             [j \in Keys |-> IF j \in Positions(b, k) THEN Absent ELSE @[j]]]

Clear(b) == data' = [data EXCEPT ![b] = Atomic!NoEntries]

(* What value_for, empty and data have read once they have read bucket b.  *)
ReadBucket(o, b, a) ==
  CASE o.name = "find"  -> [a EXCEPT !.seen[o.key] = data[b][o.key]]
    [] o.name = "empty" -> [a EXCEPT !.isEmpty = (Present(b) = {})]
    [] o.name = "data"  ->
         [a EXCEPT !.seen = [k \in Keys |-> IF k \in Present(b) THEN data[b][k] ELSE @[k]]]

(* empty returns at the first bucket that is not.                          *)
Finished(t, b) ==
  b = Last(op[t]) \/ (op[t].name = "empty" /\ Present(b) # {})

Work(t) ==
  /\ pc[t] = "working"
  /\ LET o == op[t]
         b == at[t]
     IN  /\ \/ o.name = "insert" /\ Insert(b, o.key, o.value) /\ UNCHANGED answer
            \/ o.name = "erase" /\ Erase(b, o.key) /\ UNCHANGED answer
            \/ o.name = "clear" /\ Clear(b) /\ UNCHANGED answer
            \/ /\ Reads(o) /\ UNCHANGED data
               /\ answer' = [answer EXCEPT ![t] = ReadBucket(o, b, @)]
         /\ IF Finished(t, b)
            THEN pc' = [pc EXCEPT ![t] = "unlocking"] /\ UNCHANGED at
            ELSE at' = [at EXCEPT ![t] = b + 1] /\ UNCHANGED pc
  /\ UNCHANGED <<readers, writers, op>>

-----------------------------------------------------------------------------
(* The guards go out of scope: the locks are released one by one, in no    *)
(* particular order, and the operation returns when none is left.          *)
Release(t, b) ==
  /\ readers' = [readers EXCEPT ![b] = @ \ {t}]
  /\ writers' = [writers EXCEPT ![b] = @ \ {t}]

UnlockOne(t) ==                              \* mutant
  /\ pc[t] = "unlocking"
  /\ \E b \in Buckets : Held(t, b) /\ Release(t, b)
  /\ pc' = [pc EXCEPT ![t] = "idle"]
  /\ UNCHANGED <<data, op, at, answer>>

Unlock(t) ==
  /\ pc[t] = "unlocking"
  /\ \E b \in Buckets :
       /\ Held(t, b) /\ Release(t, b)
       /\ pc' = IF \A c \in Buckets \ {b} : ~Held(t, c)
                THEN [pc EXCEPT ![t] = "idle"] ELSE pc
  /\ UNCHANGED <<data, op, at, answer>>

Next == \E t \in Threads : Call(t) \/ Lock(t) \/ Work(t) \/ Unlock(t)

Spec == Init /\ [][Next]_vars

-----------------------------------------------------------------------------
(* Every variable has its type, and a key is only ever in the bucket that  *)
(* get_bucket_index gives for it: find would not see it anywhere else.     *)
TypeOK ==
  /\ data \in [Buckets -> Atomic!Maps]
  /\ \A b \in Buckets, k \in Keys : data[b][k] # Absent => BucketOf(k) = b
  /\ readers \in [Buckets -> SUBSET Threads] /\ writers \in [Buckets -> SUBSET Threads]
  /\ pc \in [Threads -> {"idle", "locking", "working", "unlocking"}]
  /\ op \in [Threads -> Atomic!Operations]
  /\ at \in [Threads -> Buckets]
  /\ answer \in [Threads -> Atomic!Answers]

(* Nobody reads or changes the vector of a bucket that another thread is   *)
(* changing: whatever mixture of operations, each under the lock it takes, *)
(* is at work on a bucket (add_or_update_mapping, remove_mapping and clear *)
(* change it).                                                             *)
Changes(o) == o.name \in {"insert", "erase", "clear"}

NoDataRace ==
  \A t, u \in Threads :
    (t # u /\ pc[t] = "working" /\ pc[u] = "working" /\ at[t] = at[u])
      => ~Changes(op[t])

(* An operation on the whole collection sees no other one half done: it    *)
(* works while it holds every bucket, and returns holding none.            *)
LocksCoverWork ==
  \A t \in Threads :
    /\ pc[t] = "idle" => \A b \in Buckets : ~Held(t, b)
    /\ pc[t] = "working" =>
         \A b \in First(op[t]) .. Last(op[t]) :
           IF Reads(op[t]) THEN t \in readers[b] ELSE t \in writers[b]

(* The threads never all wait for one another: of those inside the map one *)
(* can go on.                                                              *)
CanGoOn(t) == pc[t] # "idle" /\ (pc[t] = "locking" => MayLock(t, at[t]))

NoDeadlock == (\E t \in Threads : pc[t] # "idle") => \E t \in Threads : CanGoOn(t)

(* Every operation takes effect at one instant, the half-cleared buckets   *)
(* of clear() and the one-by-one locking being invisible.  Threads erase   *)
(* what they like, also a key that another has erased or cleared, as       *)
(* comms/server.hpp does: AtomicMap says what that may do to the map.      *)
Linearizable == Atomic!Spec
=============================================================================
