------------------------ MODULE MCThreadsafeHashMap ------------------------
(* Three keys in two buckets, two of them in the same one.                 *)
EXTENDS ThreadsafeHashMap, TLC

MCBucketOf(k) == k % NumBuckets

=============================================================================
