SPECIFICATION Spec
CONSTANTS
  Threads = {t1, t2}
  Keys = {1, 2, 3}
  Values = {v1, v2}
  Absent = Absent
  NumBuckets = 2
  BucketOf <- MCBucketOf
INVARIANTS
  TypeOK
  NoDataRace
  LocksCoverWork
  NoDeadlock
PROPERTIES
  Linearizable
