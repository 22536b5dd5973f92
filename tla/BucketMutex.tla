----------------------------- MODULE BucketMutex -----------------------------
(***************************************************************************)
(* What a scheduler lock promises: a cycle runs in the scope of one time   *)
(* bucket, and at most one worker at a time is inside the scope of a given *)
(* bucket.  Nothing is promised across buckets, and a scope that was left  *)
(* may be entered again.                                                   *)
(***************************************************************************)
CONSTANTS Workers,  \* the worker processes
          Buckets   \* the scopes, Math.floor(Date.now() / intervalMs)

VARIABLE holder    \* holder[b]: the workers inside the scope of bucket b

MutexInit == holder = [b \in Buckets |-> {}]

Enter(w, b) ==
  /\ holder[b] = {}
  /\ holder' = [holder EXCEPT ![b] = {w}]

\* A worker leaves by releasing the lock, by failing or by being killed.
Leave(w, b) ==
  /\ w \in holder[b]
  /\ holder' = [holder EXCEPT ![b] = @ \ {w}]

MutexNext == \E w \in Workers, b \in Buckets : Enter(w, b) \/ Leave(w, b)

MutexSpec == MutexInit /\ [][MutexNext]_holder
=============================================================================
