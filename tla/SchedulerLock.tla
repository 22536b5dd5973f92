---------------------------- MODULE SchedulerLock ----------------------------
(***************************************************************************)
(* The distributed lock every scheduler cycle runs under:                  *)
(* tryAcquireLock and releaseLock of services/cacheStore.ts,               *)
(* runWithSchedulerLock of services/schedulerLockPolicy.ts, the policy of  *)
(* runtime/runtimeProcessCore.ts and the timer loop of the bucket-scoped   *)
(* schedulers (startBurnoutAlertScheduler and its likes).                  *)
(*                                                                         *)
(* One scheduler is followed on several worker processes.  Each keeps the  *)
(* bucket it computed when its cycle began, connects lazily, asks Redis    *)
(* for the key of that bucket with SET PX NX, works, and gives the key     *)
(* back with a GET and a DEL that are two commands.  A worker may be       *)
(* killed anywhere; a key it holds then lives until its TTL.               *)
(*                                                                         *)
(* The local lock map of cacheStore is not here: the schedulers ask for a  *)
(* lock only where NODE_ENV is production, and there the local fallback is *)
(* refused, so no scheduler cycle reaches it.                              *)
(***************************************************************************)
EXTENDS Integers

CONSTANTS
  Workers,        \* worker processes
  Interval,       \* the check interval, the width of a bucket
  Ttl,            \* SCHEDULER_LOCK_..._TTL_SECONDS
  RetryBackoff,   \* REDIS_RETRY_BACKOFF_MS
  MaxTime,        \* bound: the clock stops here
  MaxKills,       \* bound: process deaths
  CyclesFitTtl    \* assumption on the load: a cycle and its release end
                  \* before the TTL of the key it holds

ASSUME LockAssumption ==
  /\ Interval \in Nat \ {0}
  /\ Ttl \in Nat \ {0}
  /\ RetryBackoff \in Nat
  /\ MaxTime \in Nat
  /\ MaxKills \in Nat
  /\ CyclesFitTtl \in BOOLEAN

VARIABLES
  runtime,    \* the environment the processes were configured with
  now,        \* the clock
  redisUp,    \* Redis can be reached
  redis,      \* redis[b]: the entry under the lock key of bucket b
  client,     \* client[w]: redisClient of the process
  retryAt,    \* retryAt[w]: nextRedisRetryAtMs of the process
  cycle,      \* cycle[w]: where the timer loop of the process stands
  issued,     \* tokens drawn so far: randomUUID never repeats one
  kills       \* process deaths so far

vars == <<runtime, now, redisUp, redis, client, retryAt, cycle, issued, kills>>

\* The buckets the clock reaches.
Buckets == {t \div Interval : t \in 0..MaxTime}

Runtimes == [nodeEnv : {"production", "development"},
             locksConfigured : BOOLEAN,
             role : {"worker", "all"}]

NoToken == 0
NoEntry == [token |-> NoToken, expiresAt |-> 0]

\* "armed": waiting for the timer; "acquire": inside tryAcquireLock;
\* "work": input.run(); "get" and "del": the two commands of releaseLock.
Stages == {"down", "boot", "armed", "acquire", "work", "get", "del"}

\* until is the expiry Redis gave the key, which the process does not know.
Keyless(stage, wakeAt, bucket) ==
  [stage |-> stage, wakeAt |-> wakeAt, bucket |-> bucket, token |-> NoToken, until |-> 0]

Down == Keyless("down", 0, 0)

\* resolveProductionOnlyLockEnabled: the effective SCHEDULER_LOCKS_ENABLED.
LocksEnabled == runtime.nodeEnv = "production" /\ runtime.locksConfigured

\* shouldAllowUnlockedSchedulers
UnlockedAllowed == runtime.nodeEnv # "production"

\* getWorkerSchedulerRuntimeIssues, asserted by worker.ts and not by server.ts.
RuntimeRefused ==
  runtime.role = "worker" /\ runtime.nodeEnv = "production" /\ ~LocksEnabled

\* A key Redis still answers for.
Live(b) == redis[b].token # NoToken /\ redis[b].expiresAt > now

-----------------------------------------------------------------------------
(* The life of a process and of its timer loop.                            *)

Init ==
  /\ runtime \in Runtimes
  /\ now = 0
  /\ redisUp \in BOOLEAN
  /\ redis = [b \in Buckets |-> NoEntry]
  /\ client = [w \in Workers |-> "none"]
  /\ retryAt = [w \in Workers |-> 0]
  /\ cycle = [w \in Workers |-> Down]
  /\ issued = 0
  /\ kills = 0

\* start(): the first cycle runs at once, without waiting for the timer.
Start(w) ==
  /\ cycle[w].stage = "down"
  /\ ~RuntimeRefused
  /\ cycle' = [cycle EXCEPT ![w].stage = "boot"]
  /\ UNCHANGED <<runtime, now, redisUp, redis, client, retryAt, issued, kills>>

\* The process is killed, or shut down: closeProcessResources stops the timer
\* and exits without waiting for the cycle that is running.
Kill(w) ==
  /\ cycle[w].stage # "down"
  /\ kills < MaxKills
  /\ kills' = kills + 1
  /\ cycle' = [cycle EXCEPT ![w] = Down]
  /\ client' = [client EXCEPT ![w] = "none"]
  /\ retryAt' = [retryAt EXCEPT ![w] = 0]
  /\ UNCHANGED <<runtime, now, redisUp, redis, issued>>

\* scheduleNext: the timer is armed when the cycle is over.
Armed == Keyless("armed", now + Interval, 0)

\* runCycle: the bucket is computed first, then runWithSchedulerLock decides.
BeginCycle(w) ==
  /\ \/ cycle[w].stage = "boot"
     \/ cycle[w].stage = "armed" /\ cycle[w].wakeAt <= now
  /\ LET begun(stage) == Keyless(stage, 0, now \div Interval)
     IN  cycle' = [cycle EXCEPT ![w] =
           CASE LocksEnabled -> begun("acquire")
             [] ~LocksEnabled /\ UnlockedAllowed -> begun("work")
             [] OTHER -> Armed]
  /\ UNCHANGED <<runtime, now, redisUp, redis, client, retryAt, issued, kills>>

-----------------------------------------------------------------------------
(* tryAcquireLock.                                                         *)

\* Mutant: a process that cannot reach Redis runs its cycle anyway.
ConnectOrRunAlone(w) ==
  /\ cycle[w].stage = "acquire"
  /\ client[w] = "none"
  /\ IF redisUp
       THEN client' = [client EXCEPT ![w] = "open"] /\ UNCHANGED cycle
       ELSE cycle' = [cycle EXCEPT ![w].stage = "work"] /\ UNCHANGED client
  /\ UNCHANGED <<runtime, now, redisUp, redis, retryAt, issued, kills>>

\* ensureRedisClient without an open client: inside the backoff it gives up
\* at once, otherwise it connects.  No client means backend_unavailable, and
\* in production the cycle is skipped.
Connect(w) ==
  /\ cycle[w].stage = "acquire"
  /\ client[w] = "none"
  /\ \/ /\ now >= retryAt[w]
        /\ redisUp
        /\ client' = [client EXCEPT ![w] = "open"]
        /\ retryAt' = [retryAt EXCEPT ![w] = 0]
        /\ UNCHANGED cycle
     \/ /\ now >= retryAt[w]
        /\ ~redisUp
        /\ retryAt' = [retryAt EXCEPT ![w] = now + RetryBackoff]
        /\ cycle' = [cycle EXCEPT ![w] = Armed]
        /\ UNCHANGED client
     \/ /\ now < retryAt[w]
        /\ cycle' = [cycle EXCEPT ![w] = Armed]
        /\ UNCHANGED <<client, retryAt>>
  /\ UNCHANGED <<runtime, now, redisUp, redis, issued, kills>>

\* Mutant: the TTL reaches Redis in the wrong unit and is cut to its minimum.
StoreBriefToken(b) ==
  /\ issued' = issued + 1
  /\ redis' = [redis EXCEPT ![b] = [token |-> issued + 1, expiresAt |-> now + 1]]

\* The effect of SET key token PX ttl NX on a key nobody answers for.
StoreToken(b) ==
  /\ issued' = issued + 1
  /\ redis' = [redis EXCEPT ![b] = [token |-> issued + 1, expiresAt |-> now + Ttl]]

\* Mutant: SET without NX.
SetWithoutNX(w) ==
  /\ cycle[w].stage = "acquire" /\ client[w] = "open" /\ redisUp
  /\ StoreToken(cycle[w].bucket)
  /\ cycle' = [cycle EXCEPT ![w].stage = "work",
                            ![w].token = issued + 1,
                            ![w].until = now + Ttl]
  /\ UNCHANGED <<runtime, now, redisUp, client, retryAt, kills>>

\* SET NX answered OK: the cycle's work begins.
SetGranted(w) ==
  /\ cycle[w].stage = "acquire" /\ client[w] = "open" /\ redisUp
  /\ ~Live(cycle[w].bucket)
  /\ StoreToken(cycle[w].bucket)
  /\ cycle' = [cycle EXCEPT ![w].stage = "work",
                            ![w].token = issued + 1,
                            ![w].until = now + Ttl]
  /\ UNCHANGED <<runtime, now, redisUp, client, retryAt, kills>>

\* SET NX found the key: busy, the cycle is skipped.
SetBusy(w) ==
  /\ cycle[w].stage = "acquire" /\ client[w] = "open" /\ redisUp
  /\ Live(cycle[w].bucket)
  /\ cycle' = [cycle EXCEPT ![w] = Armed]
  /\ UNCHANGED <<runtime, now, redisUp, redis, client, retryAt, issued, kills>>

\* The command throws: backend_unavailable, the cycle is skipped.  The server
\* may have stored the token before the connection broke.
SetThrows(w) ==
  /\ cycle[w].stage = "acquire" /\ client[w] = "open"
  /\ \/ UNCHANGED <<redis, issued>>
     \/ /\ redisUp
        /\ ~Live(cycle[w].bucket)
        /\ StoreToken(cycle[w].bucket)
  /\ cycle' = [cycle EXCEPT ![w] = Armed]
  /\ UNCHANGED <<runtime, now, redisUp, client, retryAt, kills>>

-----------------------------------------------------------------------------
(* The end of the cycle: finally { await releaseLock(lockKey, token) }.     *)

\* input.run() returns or throws; an unlocked run has nothing to release.
EndWork(w) ==
  /\ cycle[w].stage = "work"
  /\ cycle' = [cycle EXCEPT ![w] =
       IF cycle[w].token = NoToken THEN Armed ELSE [@ EXCEPT !.stage = "get"]]
  /\ UNCHANGED <<runtime, now, redisUp, redis, client, retryAt, issued, kills>>

\* GET: only a token that is still there leads to the DEL.
ReleaseGet(w) ==
  /\ cycle[w].stage = "get" /\ redisUp
  /\ cycle' = [cycle EXCEPT ![w] =
       IF Live(@.bucket) /\ redis[@.bucket].token = @.token
         THEN [@ EXCEPT !.stage = "del"] ELSE Armed]
  /\ UNCHANGED <<runtime, now, redisUp, redis, client, retryAt, issued, kills>>

\* DEL: whatever is under the key by now goes away.
ReleaseDel(w) ==
  /\ cycle[w].stage = "del" /\ redisUp
  /\ redis' = [redis EXCEPT ![cycle[w].bucket] = NoEntry]
  /\ cycle' = [cycle EXCEPT ![w] = Armed]
  /\ UNCHANGED <<runtime, now, redisUp, client, retryAt, issued, kills>>

\* Either command throws: in production the key is left to its TTL.
ReleaseThrows(w) ==
  /\ cycle[w].stage \in {"get", "del"}
  /\ cycle' = [cycle EXCEPT ![w] = Armed]
  /\ UNCHANGED <<runtime, now, redisUp, redis, client, retryAt, issued, kills>>

-----------------------------------------------------------------------------
(* The world.                                                              *)

RedisFlips ==
  /\ redisUp' = ~redisUp
  /\ UNCHANGED <<runtime, now, redis, client, retryAt, cycle, issued, kills>>

\* The stages in which a worker relies on the key it was granted.
HoldsKey(w) == cycle[w].stage \in {"work", "get", "del"} /\ cycle[w].token # NoToken

Tick ==
  /\ now < MaxTime
  /\ CyclesFitTtl => \A w \in Workers : HoldsKey(w) => now + 1 < cycle[w].until
  /\ now' = now + 1
  /\ UNCHANGED <<runtime, redisUp, redis, client, retryAt, cycle, issued, kills>>

WorkerStep(w) ==
  \/ Start(w) \/ Kill(w) \/ BeginCycle(w)
  \/ Connect(w) \/ SetGranted(w) \/ SetBusy(w) \/ SetThrows(w)
  \/ EndWork(w) \/ ReleaseGet(w) \/ ReleaseDel(w) \/ ReleaseThrows(w)

Next == RedisFlips \/ Tick \/ \E w \in Workers : WorkerStep(w)

Spec == Init /\ [][Next]_vars

-----------------------------------------------------------------------------
(* Properties.                                                             *)

Cycle == [stage : Stages, wakeAt : Nat, bucket : Buckets, token : Nat, until : Nat]

\* Every variable stays in its set, and no token is known before it is drawn.
TypeOK ==
  /\ runtime \in Runtimes
  /\ now \in 0..MaxTime
  /\ redisUp \in BOOLEAN
  /\ redis \in [Buckets -> [token : 0..issued, expiresAt : Nat]]
  /\ client \in [Workers -> {"none", "open"}]
  /\ retryAt \in [Workers -> Nat]
  /\ cycle \in [Workers -> Cycle]
  /\ \A w \in Workers : cycle[w].token <= issued
  /\ issued \in Nat
  /\ kills \in 0..MaxKills

\* A worker past SET NX is still the owner of the live key of its bucket, until
\* it has given it back: nobody else's expiry, SET or DEL took it away.
HolderOwnsKey ==
  \A w \in Workers : HoldsKey(w) =>
    /\ redis[cycle[w].bucket].token = cycle[w].token
    /\ redis[cycle[w].bucket].expiresAt = cycle[w].until
    /\ cycle[w].until > now

\* Two workers never run the cycle of one bucket at the same time.
OneCyclePerBucket ==
  \A v, w \in Workers :
    HoldsKey(v) /\ HoldsKey(w) /\ cycle[v].bucket = cycle[w].bucket => v = w

\* In production every running cycle is covered by a live key of its own: a
\* missing Redis, a broken command or disabled locks never let one run bare.
ProductionWorkIsLocked ==
  runtime.nodeEnv = "production" =>
    \A w \in Workers : cycle[w].stage = "work" =>
      /\ Live(cycle[w].bucket)
      /\ redis[cycle[w].bucket].token = cycle[w].token

\* A live key disappears early only through the DEL of the worker that was
\* granted it.
FreedByToken ==
  \A b \in Buckets : Live(b) /\ redis'[b] = NoEntry =>
    \E w \in Workers : cycle[w].stage = "del" /\ cycle[w].token = redis[b].token

\* "All locks use `tryAcquireLock` + TTL and release by token"
\* (docs/redis-cache-and-locks-current-state.md:62): no step frees another's
\* key.  The DEL names no token, so a TTL that ends between the GET and the DEL
\* of a release makes it free the key another worker was granted meanwhile.
\* WorkerProofs proves the statement where no TTL ends there.
ReleaseByToken == [][FreedByToken]_vars

\* The lock implements the mutual exclusion its callers count on.
HoldersOf == [b \in Buckets |-> {w \in Workers : HoldsKey(w) /\ cycle[w].bucket = b}]

Mutex == INSTANCE BucketMutex WITH holder <- HoldersOf

\* Entering and leaving the scope of a bucket are the only moves the lock makes.
ImplementsBucketMutex == Mutex!MutexSpec
=============================================================================
