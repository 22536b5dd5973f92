----------------------------- MODULE WorkerProofs -----------------------------
(***************************************************************************)
(* Proofs about what the worker's timers do: the lock their cycles run     *)
(* under and the passes of the alerts under it (LockedAlerts), then the    *)
(* window of interview slots that a cycle extends (InterviewWindow).       *)
(*                                                                         *)
(* The lock, for every number of workers, every interval, TTL and backoff. *)
(* Exclusion rests on one assumption about the load, CyclesFitTtl: a cycle *)
(* and its release end before the TTL of its key.  HolderOwnsKey is not    *)
(* inductive by itself.  The DEL of one worker could delete the key of     *)
(* another if two workers had one token, or if a worker reached the DEL    *)
(* without a token; TokensApart and ReleasersHold exclude that.            *)
(* ProductionHolds says that in production no cycle works without a token  *)
(* at all.  The release needs less, and is proved without CyclesFitTtl: no *)
(* TTL may end between its GET and its DEL (DelsInTime).                   *)
(*                                                                         *)
(* The alerts under it.  Pushes that a rejected pool left behind go on     *)
(* without a lock, so that who works has either met something or is alone. *)
(*                                                                         *)
(* The window, for every number of profiles, requests, days and faults and *)
(* every selection of days.  A step is first brought to its effect on the  *)
(* fields the invariants name (EffectOf), once for both of them; each      *)
(* invariant then says what a request under way may rely on (Relies,       *)
(* Ranges).  That the selection picks days of the range, a fact about a    *)
(* recursive function, comes from the least number at which it would not   *)
(* (FromZeroOn).                                                           *)
(***************************************************************************)
EXTENDS LockedAlerts, InterviewWindow, WellFoundedInduction, TLAPS

\* No two workers inside a scope were given the same token.
TokensApart ==
  \A v, w \in Workers :
    HoldsKey(v) /\ HoldsKey(w) /\ cycle[v].token = cycle[w].token => v = w

\* Only a worker that was granted a key comes to release one.
ReleasersHold ==
  \A w \in Workers : cycle[w].stage \in {"get", "del"} => cycle[w].token # NoToken

\* In production only a worker that was granted a key works.
ProductionHolds ==
  runtime.nodeEnv = "production" =>
    \A w \in Workers : cycle[w].stage = "work" => cycle[w].token # NoToken

\* The inductive invariant.
IInv == TypeOK /\ HolderOwnsKey /\ TokensApart /\ ReleasersHold /\ ProductionHolds

-----------------------------------------------------------------------------
(* Type correctness needs no assumption about the load.                    *)

\* The clock only shows buckets that have an entry.
LEMMA BucketInRange ==
  ASSUME now \in 0..MaxTime
  PROVE  now \div Interval \in Buckets
BY DEF Buckets

\* Every value of the clock and every entry has its type initially.
LEMMA TypeInit == Init => TypeOK
<1> SUFFICES ASSUME Init PROVE TypeOK
  OBVIOUS
<1>1. 0 \in Buckets
  <2>1. now \in 0..MaxTime /\ now = 0
    BY LockAssumption DEF Init
  <2>2. 0 \div Interval = 0
    BY LockAssumption
  <2> QED BY <2>1, <2>2, BucketInRange
<1> QED BY <1>1, LockAssumption DEF Init, TypeOK, Cycle, Stages, Down, Keyless, NoEntry, NoToken, Runtimes

\* A cycle that is armed again is well typed.
LEMMA ArmedType ==
  ASSUME TypeOK
  PROVE  Armed \in Cycle /\ Armed.token = NoToken /\ Armed.stage = "armed"
<1>1. 0 \in Buckets
  <2>1. 0 \in 0..MaxTime /\ 0 \div Interval = 0
    BY LockAssumption
  <2> QED BY <2>1 DEF Buckets
<1>2. now + Interval \in Nat
  BY LockAssumption DEF TypeOK
<1> QED BY <1>1, <1>2 DEF Armed, Keyless, Cycle, Stages, NoToken

\* Every step keeps the types.
LEMMA TypeStep == TypeOK /\ [Next]_vars => TypeOK'
<1> SUFFICES ASSUME TypeOK, [Next]_vars PROVE TypeOK'
  OBVIOUS
<1> USE LockAssumption
<1>0. 0 \in Buckets
  <2>1. 0 \in 0..MaxTime /\ 0 \div Interval = 0
    OBVIOUS
  <2> QED BY <2>1 DEF Buckets
<1>1. ASSUME NEW w \in Workers, Start(w) PROVE TypeOK'
  BY <1>1 DEF TypeOK, Start, Cycle, Stages
<1>2. ASSUME NEW w \in Workers, Kill(w) PROVE TypeOK'
  BY <1>0, <1>2 DEF TypeOK, Kill, Cycle, Stages, Down, Keyless, NoToken
<1>3. ASSUME NEW w \in Workers, BeginCycle(w) PROVE TypeOK'
  <2>1. now \div Interval \in Buckets
    BY BucketInRange DEF TypeOK
  <2>2. \E c \in Cycle : c.token = NoToken /\ cycle' = [cycle EXCEPT ![w] = c]
    BY <1>0, <1>3, <2>1, ArmedType DEF TypeOK, BeginCycle, Cycle, Stages, Down, Keyless, NoToken
  <2> QED BY <1>3, <2>2 DEF TypeOK, BeginCycle, NoToken
<1>4. ASSUME NEW w \in Workers, Connect(w) PROVE TypeOK'
  BY <1>4, ArmedType DEF TypeOK, Connect, NoToken
<1>5. ASSUME NEW w \in Workers, SetGranted(w) PROVE TypeOK'
  BY <1>5 DEF TypeOK, SetGranted, StoreToken, Cycle, Stages
<1>6. ASSUME NEW w \in Workers, SetBusy(w) PROVE TypeOK'
  BY <1>6, ArmedType DEF TypeOK, SetBusy, NoToken
<1>7. ASSUME NEW w \in Workers, SetThrows(w) PROVE TypeOK'
  <2>1. issued' \in Nat /\ issued <= issued' /\ redis' \in [Buckets -> [token : 0..issued', expiresAt : Nat]]
    BY <1>7 DEF TypeOK, SetThrows, StoreToken, Cycle
  <2> QED BY <1>7, <2>1, ArmedType DEF TypeOK, SetThrows, NoToken, Cycle
<1>8. ASSUME NEW w \in Workers, EndWork(w) PROVE TypeOK'
  BY <1>8, ArmedType DEF TypeOK, EndWork, Cycle, Stages, NoToken
<1>9. ASSUME NEW w \in Workers, ReleaseGet(w) PROVE TypeOK'
  BY <1>9, ArmedType DEF TypeOK, ReleaseGet, Cycle, Stages, NoToken
<1>10. ASSUME NEW w \in Workers, ReleaseDel(w) PROVE TypeOK'
  BY <1>10, ArmedType DEF TypeOK, ReleaseDel, Cycle, NoEntry, NoToken
<1>11. ASSUME NEW w \in Workers, ReleaseThrows(w) PROVE TypeOK'
  BY <1>11, ArmedType DEF TypeOK, ReleaseThrows, NoToken
<1>12. CASE RedisFlips
  BY <1>12 DEF TypeOK, RedisFlips
<1>13. CASE Tick
  BY <1>13 DEF TypeOK, Tick
<1>14. CASE UNCHANGED vars
  BY <1>14 DEF TypeOK, vars
<1> QED
  BY <1>1, <1>2, <1>3, <1>4, <1>5, <1>6, <1>7, <1>8, <1>9, <1>10, <1>11, <1>12, <1>13, <1>14
     DEF Next, WorkerStep

\* Types hold in every reachable state, whatever the load.
THEOREM TypeCorrect == Spec => []TypeOK
BY TypeInit, TypeStep, PTL DEF Spec

-----------------------------------------------------------------------------
(* Exclusion, under CyclesFitTtl.                                          *)

\* What the step of a worker leaves alone: the cycles of the others.
LEMMA OthersKeep ==
  ASSUME TypeOK, NEW w \in Workers, WorkerStep(w)
  PROVE  /\ \A v \in Workers : v # w => cycle'[v] = cycle[v]
         /\ UNCHANGED <<runtime, now>>
BY DEF TypeOK, WorkerStep, Start, Kill, BeginCycle, Connect, SetGranted, SetBusy, SetThrows,
       EndWork, ReleaseGet, ReleaseDel, ReleaseThrows

\* The one way into a scope is a granted SET NX with a fresh token; every other
\* step of a worker keeps its place or leaves it without a key.
LEMMA OwnStep ==
  ASSUME TypeOK, NEW w \in Workers, WorkerStep(w), ~SetGranted(w)
  PROVE  /\ HoldsKey(w)' => HoldsKey(w)
         /\ HoldsKey(w)' => /\ cycle'[w].token = cycle[w].token
                            /\ cycle'[w].bucket = cycle[w].bucket
                            /\ cycle'[w].until = cycle[w].until
         /\ (cycle'[w].stage \in {"get", "del"} /\ ReleasersHold) => cycle'[w].token # NoToken
         /\ (cycle'[w].stage = "work" /\ runtime.nodeEnv = "production" /\ ProductionHolds)
               => cycle'[w].token # NoToken
<1>1. CASE Start(w)
  BY <1>1 DEF TypeOK, Start, HoldsKey, Cycle
<1>2. CASE Kill(w)
  BY <1>2 DEF TypeOK, Kill, HoldsKey, Down, Keyless
<1>3. CASE BeginCycle(w)
  BY <1>3 DEF TypeOK, BeginCycle, HoldsKey, Armed, Keyless, LocksEnabled, UnlockedAllowed
<1>4. CASE Connect(w)
  BY <1>4, ArmedType DEF TypeOK, Connect, HoldsKey
<1>5. CASE SetBusy(w)
  BY <1>5, ArmedType DEF TypeOK, SetBusy, HoldsKey
<1>6. CASE SetThrows(w)
  BY <1>6, ArmedType DEF TypeOK, SetThrows, HoldsKey
<1>7. CASE EndWork(w)
  BY <1>7, ArmedType DEF TypeOK, EndWork, HoldsKey, Cycle
<1>8. CASE ReleaseGet(w)
  BY <1>8, ArmedType DEF TypeOK, ReleaseGet, HoldsKey, ReleasersHold, Cycle
<1>9. CASE ReleaseDel(w)
  BY <1>9, ArmedType DEF TypeOK, ReleaseDel, HoldsKey
<1>10. CASE ReleaseThrows(w)
  BY <1>10, ArmedType DEF TypeOK, ReleaseThrows, HoldsKey
<1> QED BY <1>1, <1>2, <1>3, <1>4, <1>5, <1>6, <1>7, <1>8, <1>9, <1>10 DEF WorkerStep

\* What happens to a key: it stays, SET NX stores a fresh token where no live
\* key was, or the DEL of a worker removes the key of that worker's bucket.
LEMMA KeyStep ==
  ASSUME TypeOK, NEW w \in Workers, WorkerStep(w), NEW b \in Buckets
  PROVE  \/ redis'[b] = redis[b]
         \/ ~Live(b) /\ redis'[b].token = issued + 1
         \/ cycle[w].stage = "del" /\ cycle[w].bucket = b /\ ~HoldsKey(w)'
<1>1. CASE SetGranted(w) \/ SetThrows(w)
  BY <1>1 DEF TypeOK, SetGranted, SetThrows, StoreToken
<1>2. CASE ReleaseDel(w)
  BY <1>2, ArmedType DEF TypeOK, ReleaseDel, HoldsKey
<1>3. CASE redis' = redis
  BY <1>3
<1> QED
  BY <1>1, <1>2, <1>3
     DEF WorkerStep, Start, Kill, BeginCycle, Connect, SetBusy, EndWork, ReleaseGet, ReleaseThrows

\* No key is held and no cycle runs in the initial states.
LEMMA InitIInv == Init => IInv
<1> SUFFICES ASSUME Init PROVE IInv
  OBVIOUS
<1>1. TypeOK
  BY TypeInit
<1>2. \A w \in Workers : cycle[w].stage = "down"
  BY DEF Init, Down, Keyless
<1> QED
  BY <1>1, <1>2 DEF IInv, HolderOwnsKey, TokensApart, ReleasersHold, ProductionHolds, HoldsKey

\* A granted SET NX keeps the invariant: the key was not live, so nobody held
\* it, and the token is new.
LEMMA GrantKeeps ==
  ASSUME IInv, TypeOK', NEW w \in Workers, SetGranted(w)
  PROVE  IInv'
<1> DEFINE b == cycle[w].bucket
<1>1. /\ cycle'[w].stage = "work" /\ cycle'[w].token = issued + 1
      /\ cycle'[w].until = now + Ttl /\ cycle'[w].bucket = b
  BY DEF SetGranted, IInv, TypeOK, Cycle
<1>2. /\ b \in Buckets
      /\ redis' = [redis EXCEPT ![b] = [token |-> issued + 1, expiresAt |-> now + Ttl]]
      /\ UNCHANGED <<now, runtime>> /\ ~Live(b)
  BY DEF SetGranted, StoreToken, IInv, TypeOK, Cycle
<1>3. \A v \in Workers : v # w => cycle'[v] = cycle[v]
  BY DEF SetGranted, IInv, TypeOK
<1>4. \A v \in Workers : v # w /\ HoldsKey(v) => cycle[v].bucket # b
  BY <1>2 DEF IInv, HolderOwnsKey, Live, HoldsKey
<1>5. HolderOwnsKey'
  <2> SUFFICES ASSUME NEW v \in Workers, HoldsKey(v)'
               PROVE  /\ redis'[cycle'[v].bucket].token = cycle'[v].token
                      /\ redis'[cycle'[v].bucket].expiresAt = cycle'[v].until
                      /\ cycle'[v].until > now'
    BY DEF HolderOwnsKey
  <2>1. CASE v = w
    BY <2>1, <1>1, <1>2, LockAssumption DEF IInv, TypeOK, Cycle
  <2>2. CASE v # w
    BY <2>2, <1>2, <1>3, <1>4 DEF IInv, HolderOwnsKey, HoldsKey, TypeOK, Cycle
  <2> QED BY <2>1, <2>2
<1>6. issued + 1 # NoToken /\ \A v \in Workers : cycle[v].token # issued + 1
  BY DEF IInv, TypeOK, Cycle, NoToken
<1>7. TokensApart'
  BY <1>1, <1>3, <1>6 DEF IInv, TokensApart, HoldsKey
<1>8. ReleasersHold' /\ ProductionHolds'
  BY <1>1, <1>2, <1>3, <1>6 DEF IInv, ReleasersHold, ProductionHolds
<1> QED BY <1>5, <1>7, <1>8 DEF IInv

\* Every other step of a worker keeps it: a key changes only where it was not
\* live or by the DEL of the one worker that holds it.
LEMMA OtherStepsKeep ==
  ASSUME IInv, TypeOK', NEW w \in Workers, WorkerStep(w), ~SetGranted(w)
  PROVE  IInv'
<1>1. /\ \A v \in Workers : v # w => cycle'[v] = cycle[v]
      /\ UNCHANGED <<runtime, now>>
  BY OthersKeep DEF IInv
<1>2. \A v \in Workers : HoldsKey(v)' =>
        /\ HoldsKey(v)
        /\ cycle'[v].token = cycle[v].token
        /\ cycle'[v].bucket = cycle[v].bucket
        /\ cycle'[v].until = cycle[v].until
  BY <1>1, OwnStep DEF IInv, HoldsKey
<1>3. HolderOwnsKey'
  <2> SUFFICES ASSUME NEW v \in Workers, HoldsKey(v)'
               PROVE  /\ redis'[cycle'[v].bucket].token = cycle'[v].token
                      /\ redis'[cycle'[v].bucket].expiresAt = cycle'[v].until
                      /\ cycle'[v].until > now'
    BY DEF HolderOwnsKey
  <2> DEFINE b == cycle[v].bucket
  <2>1. /\ HoldsKey(v) /\ b \in Buckets
        /\ redis[b].token = cycle[v].token /\ redis[b].expiresAt = cycle[v].until
        /\ cycle[v].until > now
    BY <1>2 DEF IInv, HolderOwnsKey, TypeOK, Cycle
  <2>2. Live(b)
    BY <2>1 DEF Live, HoldsKey
  <2>3. ~(cycle[w].stage = "del" /\ cycle[w].bucket = b /\ ~HoldsKey(w)')
    <3> SUFFICES ASSUME cycle[w].stage = "del", cycle[w].bucket = b, ~HoldsKey(w)' PROVE FALSE
      OBVIOUS
    <3>1. HoldsKey(w)
      BY DEF HoldsKey, IInv, ReleasersHold
    <3>2. redis[b].token = cycle[w].token /\ redis[b].token = cycle[v].token
      BY <2>1, <3>1 DEF IInv, HolderOwnsKey
    <3> QED BY <2>1, <3>1, <3>2 DEF IInv, TokensApart
  <2>4. redis'[b] = redis[b]
    BY <2>1, <2>2, <2>3, KeyStep DEF IInv
  <2> QED BY <1>1, <1>2, <2>1, <2>4
<1>4. TokensApart'
  BY <1>2 DEF IInv, TokensApart
<1>5. ReleasersHold'
  BY <1>1, OwnStep DEF IInv, ReleasersHold
<1>6. ProductionHolds'
  BY <1>1, OwnStep DEF IInv, ProductionHolds
<1> QED BY <1>3, <1>4, <1>5, <1>6 DEF IInv

\* The invariant is inductive when cycles fit the TTL.
LEMMA StepIInv ==
  ASSUME CyclesFitTtl
  PROVE  IInv /\ [Next]_vars => IInv'
<1> SUFFICES ASSUME IInv, [Next]_vars PROVE IInv'
  OBVIOUS
<1>1. TypeOK'
  BY TypeStep DEF IInv
<1>2. ASSUME NEW w \in Workers, WorkerStep(w) PROVE IInv'
  BY <1>1, <1>2, GrantKeeps, OtherStepsKeep
<1>3. CASE RedisFlips
  BY <1>1, <1>3
     DEF IInv, RedisFlips, HolderOwnsKey, TokensApart, ReleasersHold, ProductionHolds, HoldsKey
<1>4. CASE Tick
  BY <1>1, <1>4, CyclesFitTtl
     DEF IInv, Tick, HolderOwnsKey, TokensApart, ReleasersHold, ProductionHolds, HoldsKey
<1>5. CASE UNCHANGED vars
  BY <1>1, <1>5
     DEF IInv, vars, HolderOwnsKey, TokensApart, ReleasersHold, ProductionHolds, HoldsKey
<1> QED BY <1>2, <1>3, <1>4, <1>5 DEF Next

\* While cycles fit the TTL, nobody takes the key of a running cycle away.
THEOREM HolderKeepsKey == ASSUME CyclesFitTtl PROVE Spec => []HolderOwnsKey
<1>1. IInv => HolderOwnsKey
  BY DEF IInv
<1> QED BY <1>1, InitIInv, StepIInv, PTL DEF Spec

\* While cycles fit the TTL, a bucket is never worked by two workers at once.
THEOREM CyclesExclude == ASSUME CyclesFitTtl PROVE Spec => []OneCyclePerBucket
<1>1. IInv => OneCyclePerBucket
  BY DEF IInv, HolderOwnsKey, TokensApart, OneCyclePerBucket
<1> QED BY <1>1, InitIInv, StepIInv, PTL DEF Spec

\* While cycles fit the TTL, production never runs a cycle without its own key.
THEOREM ProductionIsLocked == ASSUME CyclesFitTtl PROVE Spec => []ProductionWorkIsLocked
<1>1. IInv => ProductionWorkIsLocked
  BY DEF IInv, HolderOwnsKey, ProductionHolds, ProductionWorkIsLocked, HoldsKey, Live
<1> QED BY <1>1, InitIInv, StepIInv, PTL DEF Spec

-----------------------------------------------------------------------------
(***************************************************************************)
(* The release, whatever the cycles take.  The GET compares and the DEL    *)
(* deletes: all that can go wrong is that the TTL ends in between          *)
(* (DelsInTime excludes it).  A worker between the two still has its token *)
(* under its key, as a token is drawn once and the key is live until the   *)
(* expiry its worker was granted.                                          *)
(***************************************************************************)

\* No TTL ends between the GET and the DEL of a release.
DelsInTime == \A w \in Workers : cycle[w].stage = "del" => cycle[w].until > now

\* Where a holder's token is under its key, so is the expiry it was granted.
TokenHasExpiry ==
  \A w \in Workers : HoldsKey(w) /\ redis[cycle[w].bucket].token = cycle[w].token =>
    redis[cycle[w].bucket].expiresAt = cycle[w].until

\* The token whose GET was answered is still there.
DelOwns ==
  \A w \in Workers : cycle[w].stage = "del" => redis[cycle[w].bucket].token = cycle[w].token

RInv == TypeOK /\ TokensApart /\ ReleasersHold /\ TokenHasExpiry /\ DelOwns

\* A worker comes to the DEL by the GET that found its token.
LEMMA GetComesFirst ==
  ASSUME TypeOK, NEW w \in Workers, WorkerStep(w), cycle'[w].stage = "del"
  PROVE  /\ UNCHANGED redis /\ cycle'[w].bucket = cycle[w].bucket /\ cycle'[w].token = cycle[w].token
         /\ redis[cycle[w].bucket].token = cycle[w].token
<1>1. ReleaseGet(w)
  BY ArmedType DEF TypeOK, Cycle, WorkerStep, Start, Kill, BeginCycle, Connect, SetGranted, SetBusy, SetThrows,
         EndWork, ReleaseDel, ReleaseThrows, Down, Keyless
<1> QED BY <1>1, ArmedType DEF TypeOK, Cycle, ReleaseGet

\* A step of a worker while the releases are in time.
LEMMA ReleaseKeeps ==
  ASSUME RInv, TypeOK', DelsInTime, NEW w \in Workers, WorkerStep(w)
  PROVE  RInv'
<1>0. TypeOK /\ TokensApart /\ ReleasersHold /\ TokenHasExpiry /\ DelOwns
  BY DEF RInv
<1>1. (\A v \in Workers : v # w => cycle'[v] = cycle[v]) /\ UNCHANGED <<runtime, now>>
  BY <1>0, OthersKeep
<1>2. ASSUME ~SetGranted(w)
      PROVE  \A v \in Workers : HoldsKey(v)' =>
               /\ HoldsKey(v) /\ cycle'[v].token = cycle[v].token
               /\ cycle'[v].bucket = cycle[v].bucket /\ cycle'[v].until = cycle[v].until
  BY <1>0, <1>1, <1>2, OwnStep DEF HoldsKey
<1>3. ASSUME SetGranted(w)
      PROVE  /\ cycle'[w].stage = "work" /\ cycle'[w].token = issued + 1
             /\ cycle'[w].until = now + Ttl /\ cycle'[w].bucket = cycle[w].bucket
             /\ redis' = [redis EXCEPT ![cycle[w].bucket] = [token |-> issued + 1, expiresAt |-> now + Ttl]]
  BY <1>0, <1>3 DEF SetGranted, StoreToken, TypeOK, Cycle
<1>4. \A v \in Workers : /\ cycle[v].bucket \in Buckets /\ cycle[v].token # issued + 1
                         /\ cycle[v].token \in Nat
  BY <1>0 DEF TypeOK, Cycle
<1>5. issued + 1 # NoToken
  BY <1>0 DEF TypeOK, NoToken
<1>6. TokensApart'
  BY <1>0, <1>1, <1>2, <1>3, <1>4 DEF TokensApart, HoldsKey
<1>7. ReleasersHold'
  BY <1>0, <1>1, <1>3, OwnStep DEF ReleasersHold
<1>8. TokenHasExpiry'
  <2> SUFFICES ASSUME NEW v \in Workers, HoldsKey(v)', redis'[cycle'[v].bucket].token = cycle'[v].token
               PROVE  redis'[cycle'[v].bucket].expiresAt = cycle'[v].until
    BY DEF TokenHasExpiry
  <2>1. CASE SetGranted(w)
    <3>1. CASE v = w
      BY <1>0, <1>3, <1>4, <2>1, <3>1 DEF TypeOK
    <3>2. CASE v # w
      <4>1. cycle'[v] = cycle[v] /\ HoldsKey(v)
        BY <1>1, <3>2 DEF HoldsKey
      <4>2. cycle[v].bucket # cycle[w].bucket
        BY <1>0, <1>3, <1>4, <2>1, <4>1 DEF TypeOK
      <4>3. redis'[cycle[v].bucket] = redis[cycle[v].bucket]
        BY <1>0, <1>3, <1>4, <2>1, <4>2 DEF TypeOK
      <4> QED BY <1>0, <4>1, <4>3 DEF TokenHasExpiry
    <3> QED BY <3>1, <3>2
  <2>2. CASE ~SetGranted(w)
    <3>1. /\ HoldsKey(v) /\ cycle'[v].token = cycle[v].token
          /\ cycle'[v].bucket = cycle[v].bucket /\ cycle'[v].until = cycle[v].until
      BY <1>2, <2>2
    <3>2. cycle[v].token # NoToken
      BY <3>1 DEF HoldsKey
    <3>3. redis'[cycle[v].bucket] = redis[cycle[v].bucket]
      <4>1. \/ redis'[cycle[v].bucket] = redis[cycle[v].bucket]
            \/ redis'[cycle[v].bucket].token = issued + 1
            \/ redis'[cycle[v].bucket] = NoEntry
        BY <1>0, <1>4 DEF TypeOK, WorkerStep, Start, Kill, BeginCycle, Connect, SetGranted, SetBusy, SetThrows,
               StoreToken, EndWork, ReleaseGet, ReleaseDel, ReleaseThrows
      <4> QED BY <1>4, <3>1, <3>2, <4>1 DEF NoEntry
    <3> QED BY <1>0, <3>1, <3>3 DEF TokenHasExpiry
  <2> QED BY <2>1, <2>2
<1>9. DelOwns'
  <2> SUFFICES ASSUME NEW v \in Workers, cycle'[v].stage = "del"
               PROVE  redis'[cycle'[v].bucket].token = cycle'[v].token
    BY DEF DelOwns
  <2>1. CASE v = w
    BY <1>0, <2>1, GetComesFirst
  <2>2. CASE v # w
    <3>1. /\ cycle'[v] = cycle[v] /\ HoldsKey(v) /\ redis[cycle[v].bucket].token = cycle[v].token
          /\ redis[cycle[v].bucket].expiresAt = cycle[v].until /\ cycle[v].until > now
      BY <1>0, <1>1, <2>2 DEF ReleasersHold, HoldsKey, DelOwns, TokenHasExpiry, DelsInTime
    <3>2. Live(cycle[v].bucket)
      BY <3>1 DEF Live, HoldsKey
    <3>3. ~(cycle[w].stage = "del" /\ cycle[w].bucket = cycle[v].bucket)
      BY <1>0, <2>2, <3>1 DEF DelOwns, TokensApart, ReleasersHold, HoldsKey
    <3>4. redis'[cycle[v].bucket] = redis[cycle[v].bucket]
      BY <1>0, <1>4, <3>2, <3>3, KeyStep
    <3> QED BY <3>1, <3>4
  <2> QED BY <2>1, <2>2
<1> QED BY <1>6, <1>7, <1>8, <1>9 DEF RInv

\* However long a cycle takes: as long as no TTL ends between the GET and the DEL of a
\* release, a live key is only ever freed by the worker it was granted to.
THEOREM ReleasesByToken == Spec /\ []DelsInTime => ReleaseByToken
<1>1. Init => RInv
  <2> SUFFICES ASSUME Init PROVE RInv
    OBVIOUS
  <2>1. \A w \in Workers : cycle[w].stage = "down"
    BY DEF Init, Down, Keyless
  <2> QED
    BY <2>1, TypeInit DEF RInv, TokensApart, ReleasersHold, TokenHasExpiry, DelOwns, HoldsKey
<1>2. RInv /\ DelsInTime /\ [Next]_vars => RInv'
  <2> SUFFICES ASSUME RInv, DelsInTime, [Next]_vars PROVE RInv'
    OBVIOUS
  <2>1. TypeOK'
    BY TypeStep DEF RInv
  <2>2. ASSUME NEW w \in Workers, WorkerStep(w) PROVE RInv'
    BY <2>1, <2>2, ReleaseKeeps
  <2>3. CASE UNCHANGED <<redis, cycle>>
    BY <2>1, <2>3 DEF RInv, TokensApart, ReleasersHold, TokenHasExpiry, DelOwns, HoldsKey
  <2> QED BY <2>2, <2>3 DEF Next, RedisFlips, Tick, vars
<1>3. RInv /\ [Next]_vars => [FreedByToken]_vars
  <2> SUFFICES ASSUME RInv, Next, NEW b \in Buckets, Live(b), redis'[b] = NoEntry
               PROVE  \E w \in Workers : cycle[w].stage = "del" /\ cycle[w].token = redis[b].token
    BY DEF FreedByToken
  <2>1. redis'[b] # redis[b] /\ redis'[b].token # issued + 1
    BY DEF RInv, TypeOK, Live, NoEntry, NoToken
  <2>2. PICK w \in Workers : WorkerStep(w)
    BY <2>1 DEF Next, RedisFlips, Tick
  <2>3. cycle[w].stage = "del" /\ cycle[w].bucket = b
    BY <2>1, <2>2, KeyStep DEF RInv
  <2> QED BY <2>3 DEF RInv, DelOwns
<1> QED BY <1>1, <1>2, <1>3, PTL DEF Spec, ReleaseByToken

-----------------------------------------------------------------------------
(* The lock implements BucketMutex.                                        *)

\* The holders are those of the bucket before, with the worker that entered or
\* without the worker that left.
LEMMA StepEntersOrLeaves ==
  ASSUME IInv, NEW w \in Workers, WorkerStep(w)
  PROVE  Mutex!MutexNext \/ UNCHANGED HoldersOf
<1> DEFINE b == cycle[w].bucket
<1>0. b \in Buckets
  BY DEF IInv, TypeOK, Cycle
<1>1. \A v \in Workers : v # w => cycle'[v] = cycle[v]
  BY OthersKeep DEF IInv
<1>2. CASE SetGranted(w)
  <2>1. cycle'[w].stage = "work" /\ cycle'[w].token = issued + 1 /\ cycle'[w].bucket = b
    BY <1>2 DEF SetGranted, IInv, TypeOK, Cycle
  <2>2. issued + 1 # NoToken
    BY DEF IInv, TypeOK, NoToken
  <2>3. HoldersOf[b] = {}
    BY <1>0, <1>2 DEF HoldersOf, SetGranted, Live, IInv, HolderOwnsKey, HoldsKey
  <2>4. ~HoldsKey(w) /\ HoldsKey(w)'
    BY <1>2, <2>1, <2>2 DEF SetGranted, HoldsKey
  <2>5. HoldersOf' = [HoldersOf EXCEPT ![b] = {w}]
    <3>1. ASSUME NEW c \in Buckets
          PROVE  HoldersOf'[c] = IF c = b THEN {w} ELSE HoldersOf[c]
      <4>1. \A v \in Workers : v # w => (v \in HoldersOf'[c] <=> v \in HoldersOf[c])
        BY <1>1 DEF HoldersOf, HoldsKey
      <4>2. w \in HoldersOf'[c] <=> c = b
        BY <2>1, <2>4 DEF HoldersOf
      <4>3. w \notin HoldersOf[c]
        BY <2>4 DEF HoldersOf
      <4> QED BY <2>3, <4>1, <4>2, <4>3 DEF HoldersOf
    <3> QED BY <1>0, <3>1 DEF HoldersOf
  <2>6. Mutex!Enter(w, b)
    BY <2>3, <2>5 DEF Mutex!Enter
  <2> QED BY <1>0, <2>6 DEF Mutex!MutexNext
<1>3. CASE ~SetGranted(w) /\ (HoldsKey(w)' <=> HoldsKey(w))
  <2>1. HoldsKey(w) => cycle'[w].bucket = b
    BY <1>3, OwnStep DEF IInv
  <2>2. ASSUME NEW c \in Buckets PROVE HoldersOf'[c] = HoldersOf[c]
    <3>1. \A v \in Workers : v \in HoldersOf'[c] <=> v \in HoldersOf[c]
      BY <1>1, <1>3, <2>1 DEF HoldersOf, HoldsKey
    <3> QED BY <3>1 DEF HoldersOf
  <2> QED BY <2>2 DEF HoldersOf
<1>4. CASE ~SetGranted(w) /\ ~(HoldsKey(w)' <=> HoldsKey(w))
  <2>1. HoldsKey(w) /\ ~HoldsKey(w)'
    BY <1>4, OwnStep DEF IInv
  <2>2. w \in HoldersOf[b]
    BY <1>0, <2>1 DEF HoldersOf
  <2>3. HoldersOf' = [HoldersOf EXCEPT ![b] = @ \ {w}]
    <3>1. ASSUME NEW c \in Buckets PROVE HoldersOf'[c] = HoldersOf[c] \ {w}
      <4>1. \A v \in Workers : v # w => (v \in HoldersOf'[c] <=> v \in HoldersOf[c])
        BY <1>1 DEF HoldersOf, HoldsKey
      <4>2. w \notin HoldersOf'[c]
        BY <2>1 DEF HoldersOf
      <4> QED BY <4>1, <4>2 DEF HoldersOf
    <3>2. \A c \in Buckets : c # b => w \notin HoldersOf[c]
      BY DEF HoldersOf
    <3>3. \A c \in Buckets : HoldersOf'[c] = IF c = b THEN HoldersOf[c] \ {w} ELSE HoldersOf[c]
      BY <3>1, <3>2
    <3> QED BY <1>0, <3>3 DEF HoldersOf
  <2>4. Mutex!Leave(w, b)
    BY <2>2, <2>3 DEF Mutex!Leave
  <2> QED BY <1>0, <2>4 DEF Mutex!MutexNext
<1> QED BY <1>2, <1>3, <1>4

\* While cycles fit the TTL, every behaviour of the lock is one of BucketMutex.
THEOREM LockImplementsMutex == ASSUME CyclesFitTtl PROVE Spec => ImplementsBucketMutex
<1>1. Init => Mutex!MutexInit
  <2> SUFFICES ASSUME Init PROVE HoldersOf = [b \in Buckets |-> {}]
    BY DEF Mutex!MutexInit
  <2>1. \A w \in Workers : ~HoldsKey(w)
    BY DEF Init, Down, Keyless, HoldsKey
  <2> QED BY <2>1 DEF HoldersOf
<1>2. IInv /\ [Next]_vars => [Mutex!MutexNext]_HoldersOf
  <2> SUFFICES ASSUME IInv, [Next]_vars PROVE Mutex!MutexNext \/ UNCHANGED HoldersOf
    OBVIOUS
  <2>1. ASSUME NEW w \in Workers, WorkerStep(w) PROVE Mutex!MutexNext \/ UNCHANGED HoldersOf
    BY <2>1, StepEntersOrLeaves
  <2>2. CASE UNCHANGED cycle
    BY <2>2 DEF HoldersOf, HoldsKey
  <2> QED BY <2>1, <2>2 DEF Next, RedisFlips, Tick, vars
<1> QED BY <1>1, <1>2, InitIInv, StepIInv, PTL DEF Spec, ImplementsBucketMutex, Mutex!MutexSpec

-----------------------------------------------------------------------------
(***************************************************************************)
(* The burnout alerts under the lock.  A worker that met neither another   *)
(* bucket nor a push left behind is alone, as cycles of one bucket exclude *)
(* each other; so is a push left behind that no cycle ran beside.  What    *)
(* one that is alone goes by is still so.                                  *)
(***************************************************************************)
PassTyped ==
  /\ pass \in [Workers -> PassStages]
  /\ behind \in [Workers -> LeftStages]
  /\ DOMAIN met = Workers
  /\ crossed \subseteq Strays
  /\ pushes \in Nat
  /\ \A w \in Workers : ~Working(w) => pass[w] = "off"

\* Who works beside another knows its bucket; who works beside a push left behind
\* knows of that.
Meets ==
  \A v, w \in Workers : Working(w) =>
    /\ v # w /\ Working(v) => cycle[v].bucket \in met[w]
    /\ behind[v] # "off" => Stray \in met[w]

\* In production a push left behind without another, or a cycle, beside it is alone.
StraysCross ==
  runtime.nodeEnv = "production" =>
    \A v \in Strays \ crossed : \A w \in Workers : ~Working(w) /\ (w # v => behind[w] = "off")

\* What a command goes by is still so.
Current(stage) ==
  /\ stage \in {"write", "skip", "sent", "failed"} => job # "sent"
  /\ stage = "push" => job = "planned"

CurrentAlone ==
  runtime.nodeEnv = "production" =>
    \A w \in Workers : /\ Working(w) /\ ~BesideAnother(w) => Current(pass[w])
                       /\ w \in Strays \ crossed => Current(behind[w])

AInv == PassTyped /\ Meets /\ StraysCross /\ CurrentAlone

\* The passes change nothing the lock knows of: the alerts are one use of it.
LEMMA AlertsStepIsLockStep == [AlertsNext]_allVars => [Next]_vars
BY DEF AlertsNext, LockStep, PassStep, Snapshot, ReadJob, WriteJob, PlanFails, ReadDue, PushJob,
       Record, RecordFails, LeftStep, LeftPush, LeftRecord, LeftRecordFails, Next, allVars

\* Whatever the cycles of the burnout alerts do, they do it as SchedulerLock allows.
THEOREM AlertsUseTheLock == AlertsSpec => Spec
<1>1. AlertsInit => Init
  BY DEF AlertsInit
<1> QED BY <1>1, AlertsStepIsLockStep, PTL DEF AlertsSpec, Spec

LEMMA AlertsInitAInv == AlertsInit => AInv
<1> SUFFICES ASSUME AlertsInit PROVE AInv
  OBVIOUS
<1>1. (\A w \in Workers : ~Working(w)) /\ Strays = {}
  BY DEF AlertsInit, Init, Down, Keyless, Working, Strays
<1> QED
  BY <1>1 DEF AlertsInit, AInv, PassTyped, PassStages, LeftStages, Meets, StraysCross, CurrentAlone, Strays

\* In production, who works beside another without having met another bucket would share
\* its own bucket; and who works beside a push left behind has met it.
LEMMA AloneUnlessBeside ==
  ASSUME IInv, Meets, runtime.nodeEnv = "production", NEW w \in Workers, Working(w),
         ~BesideAnother(w)
  PROVE  Strays = {} /\ \A v \in Workers : Working(v) => v = w
<1>1. Stray # cycle[w].bucket
  <2>1. cycle[w].bucket \in Buckets
    BY DEF IInv, TypeOK, Cycle
  <2>2. \A t \in 0..MaxTime : t \div Interval \in Nat
    BY LockAssumption
  <2> QED BY <2>1, <2>2 DEF Stray, Buckets
<1>2. Strays = {}
  BY <1>1 DEF Meets, BesideAnother, Strays
<1>3. ASSUME NEW v \in Workers, Working(v), v # w PROVE FALSE
  <2>1. HoldsKey(v) /\ HoldsKey(w)
    BY <1>3 DEF IInv, ProductionHolds, HoldsKey, Working
  <2>2. cycle[v].bucket # cycle[w].bucket
    BY <1>3, <2>1 DEF IInv, HolderOwnsKey, TokensApart
  <2> QED BY <1>3, <2>2 DEF Meets, BesideAnother
<1> QED BY <1>2, <1>3

\* A step of the lock does not let a worker go on working.
LEMMA WorkEnds ==
  ASSUME TypeOK, NEW w \in Workers, WorkerStep(w), Working(w)
  PROVE  ~Working(w)'
<1>1. cycle' = [cycle EXCEPT ![w] = cycle'[w]] /\ cycle[w].stage = "work"
  BY DEF TypeOK, Working, WorkerStep, Start, Kill, BeginCycle, Connect, SetGranted, SetBusy,
         SetThrows, EndWork, ReleaseGet, ReleaseDel, ReleaseThrows
<1> QED BY <1>1 DEF TypeOK, Cycle, Working, WorkerStep, Start, Kill, BeginCycle, Connect, SetGranted,
         SetBusy, SetThrows, EndWork, ReleaseGet, ReleaseDel, ReleaseThrows, Down, Armed, Keyless

\* A worker that dies does not work.
LEMMA DeadIdle ==
  ASSUME TypeOK, NEW w \in Workers, WorkerStep(w), kills' > kills
  PROVE  ~Working(w)'
BY DEF TypeOK, Working, WorkerStep, Start, Kill, BeginCycle, Connect, SetGranted, SetBusy,
       SetThrows, EndWork, ReleaseGet, ReleaseDel, ReleaseThrows, Down, Keyless

\* A command of a pass: its worker is the only one to move, and the lock does not.  What
\* it goes by next is so when what it went by was.
LEMMA PassMoves ==
  ASSUME PassTyped, NEW w \in Workers, PassStep(w)
  PROVE  /\ UNCHANGED <<vars, behind, met, crossed>>
         /\ pass[w] # "off" /\ Working(w)
         /\ pass'[w] \in PassStages
         /\ pass' = [pass EXCEPT ![w] = pass'[w]]
         /\ pushes' \in Nat
         /\ Current(pass[w]) => Current(pass[w])'
<1>1. pass[w] # "off"
  BY DEF PassStep, Snapshot, ReadJob, WriteJob, PlanFails, Planning, ReadDue, PushJob, Record, RecordFails
<1>2. /\ UNCHANGED <<vars, behind, met, crossed>>
      /\ pass'[w] \in PassStages
      /\ pass' = [pass EXCEPT ![w] = pass'[w]]
  BY DEF PassTyped, PassStages, Goes, PassStep, Snapshot, ReadJob, WriteJob, PlanFails, ReadDue, PushJob,
         Record, RecordFails
<1>3. pushes' \in Nat
  BY DEF PassTyped, PassStep, Snapshot, ReadJob, WriteJob, PlanFails, ReadDue, PushJob, Delivers, Record,
         RecordFails
<1>4. Current(pass[w]) => Current(pass[w])'
  BY DEF PassTyped, Current, Goes, PassStep, Snapshot, ReadJob, WriteJob, PlanFails, ReadDue, PushJob,
         Record, RecordFails
<1> QED BY <1>1, <1>2, <1>3, <1>4 DEF PassTyped

\* The same of the commands of a push left behind.
LEMMA LeftMoves ==
  ASSUME PassTyped, NEW w \in Workers, LeftStep(w)
  PROVE  /\ UNCHANGED <<vars, pass, met>>
         /\ w \in Strays
         /\ behind'[w] \in LeftStages
         /\ behind' = [behind EXCEPT ![w] = behind'[w]]
         /\ crossed' = IF behind'[w] = "off" THEN crossed \ {w} ELSE crossed
         /\ pushes' \in Nat
         /\ Current(behind[w]) => Current(behind[w])'
<1>1. w \in Strays
  BY DEF LeftStep, LeftPush, LeftRecord, LeftRecordFails, Strays
<1>2. /\ UNCHANGED <<vars, pass, met>>
      /\ behind'[w] \in LeftStages
      /\ behind' = [behind EXCEPT ![w] = behind'[w]]
      /\ crossed' = IF behind'[w] = "off" THEN crossed \ {w} ELSE crossed
  BY DEF PassTyped, LeftStages, LeftGoes, LeftStep, LeftPush, LeftRecord, LeftRecordFails
<1>3. pushes' \in Nat
  BY DEF PassTyped, LeftStep, LeftPush, LeftRecord, LeftRecordFails, Delivers
<1>4. Current(behind[w]) => Current(behind[w])'
  BY DEF PassTyped, Current, LeftGoes, LeftStep, LeftPush, LeftRecord, LeftRecordFails
<1> QED BY <1>1, <1>2, <1>3, <1>4

LEMMA PassStepKeeps ==
  ASSUME IInv, AInv, NEW w \in Workers, PassStep(w)
  PROVE  AInv'
<1>1. /\ UNCHANGED <<vars, behind, met, crossed>> /\ Working(w)
      /\ pass' = [pass EXCEPT ![w] = pass'[w]] /\ pass'[w] \in PassStages /\ pushes' \in Nat
      /\ Current(pass[w]) => Current(pass[w])'
  BY PassMoves DEF AInv
<1>2. /\ \A v \in Workers : (Working(v)' <=> Working(v)) /\ (BesideAnother(v)' <=> BesideAnother(v))
      /\ Strays' = Strays
  BY <1>1 DEF vars, Working, BesideAnother, Strays
<1>3. PassTyped'
  BY <1>1, <1>2 DEF AInv, PassTyped
<1>4. Meets' /\ StraysCross'
  BY <1>1, <1>2 DEF AInv, Meets, StraysCross, vars
<1>5. CurrentAlone'
  <2> SUFFICES ASSUME runtime.nodeEnv = "production"
               PROVE  \A v \in Workers : /\ Working(v) /\ ~BesideAnother(v) => Current(pass[v])'
                                         /\ v \in Strays \ crossed => Current(behind[v])'
    BY <1>1, <1>2 DEF CurrentAlone, vars
  <2>1. ASSUME NEW v \in Workers, Working(v), ~BesideAnother(v) PROVE Current(pass[v])'
    <3>1. v = w
      BY <1>1, <2>1, AloneUnlessBeside DEF AInv
    <3> QED BY <1>1, <2>1, <3>1 DEF AInv, CurrentAlone
  <2>2. Strays \ crossed = {}
    BY <1>1 DEF AInv, StraysCross
  <2> QED BY <2>1, <2>2
<1> QED BY <1>3, <1>4, <1>5 DEF AInv

LEMMA LeftStepKeeps ==
  ASSUME IInv, AInv, NEW w \in Workers, LeftStep(w)
  PROVE  AInv'
<1>1. /\ UNCHANGED <<vars, pass, met>> /\ w \in Strays
      /\ behind' = [behind EXCEPT ![w] = behind'[w]] /\ behind'[w] \in LeftStages /\ pushes' \in Nat
      /\ crossed' = IF behind'[w] = "off" THEN crossed \ {w} ELSE crossed
      /\ Current(behind[w]) => Current(behind[w])'
  BY LeftMoves DEF AInv
<1>2. /\ \A v \in Workers : (Working(v)' <=> Working(v)) /\ (BesideAnother(v)' <=> BesideAnother(v))
      /\ \A v \in Workers \ {w} : behind'[v] = behind[v]
      /\ Strays' = IF behind'[w] = "off" THEN Strays \ {w} ELSE Strays
  BY <1>1 DEF vars, Working, BesideAnother, Strays, AInv, PassTyped
<1>3. PassTyped'
  BY <1>1, <1>2 DEF AInv, PassTyped
<1>4. Meets' /\ StraysCross'
  <2>1. \A v \in Workers : behind'[v] # "off" => behind[v] # "off"
    BY <1>1, <1>2 DEF Strays
  <2>2. Meets'
    BY <1>1, <1>2, <2>1 DEF AInv, Meets, vars
  <2>3. Strays' \ crossed' \subseteq Strays \ crossed
    BY <1>1, <1>2
  <2>4. StraysCross'
    BY <1>1, <1>2, <2>1, <2>3 DEF AInv, StraysCross, vars
  <2> QED BY <2>2, <2>4
<1>5. CurrentAlone'
  <2> SUFFICES ASSUME runtime.nodeEnv = "production"
               PROVE  \A v \in Workers : /\ Working(v) /\ ~BesideAnother(v) => Current(pass[v])'
                                         /\ v \in Strays' \ crossed' => Current(behind[v])'
    BY <1>1, <1>2 DEF CurrentAlone, vars
  <2>1. \A v \in Workers : Working(v) => BesideAnother(v)
    BY <1>1, AloneUnlessBeside DEF AInv
  <2>2. ASSUME NEW v \in Workers, v \in Strays' \ crossed' PROVE Current(behind[v])'
    <3>1. v \in Strays \ crossed
      BY <1>1, <1>2, <2>2
    <3>2. v = w
      BY <1>1, <3>1 DEF AInv, StraysCross, Strays
    <3> QED BY <1>1, <3>1, <3>2 DEF AInv, CurrentAlone
  <2> QED BY <2>1, <2>2
<1> QED BY <1>3, <1>4, <1>5 DEF AInv

\* Where a pass begins, ends or stays when its worker moves in the lock, whom it meets and
\* what it leaves behind.
LEMMA LockMoves ==
  ASSUME TypeOK, PassTyped, NEW w \in Workers, LockStep(w)
  PROVE  /\ \A v \in Workers : v # w => cycle'[v] = cycle[v] /\ pass'[v] = pass[v] /\ behind'[v] = behind[v]
         /\ UNCHANGED <<runtime, job, pushes>>
         /\ pass' = [pass EXCEPT ![w] = IF Working(w)' THEN "snapshot" ELSE "off"]
         /\ behind' = [behind EXCEPT ![w] = behind'[w]]
         /\ \/ behind'[w] \in {"off", behind[w]}
            \/ behind[w] = "off" /\ Working(w) /\ behind'[w] = pass[w] /\ behind'[w] \in LeftStages
         /\ Working(w)' => ~Working(w) /\ behind' = behind
         /\ DOMAIN met' = Workers
<1>1. WorkerStep(w) /\ (\A v \in Workers : v # w => cycle'[v] = cycle[v]) /\ runtime' = runtime
  BY OthersKeep DEF LockStep
<1>2. Working(w) => ~Working(w)'
  BY <1>1, WorkEnds
<1>3. kills' > kills => ~Working(w)'
  BY <1>1, DeadIdle
<1>4. CASE BeginsWork(w)
  BY <1>1, <1>4 DEF BeginsWork, Goes, PassTyped, Working
<1>5. CASE EndsWork(w)
  BY <1>1, <1>2, <1>5 DEF EndsWork, Goes, PassTyped
<1>6. CASE LeavesBehind(w)
  BY <1>1, <1>2, <1>6 DEF LeavesBehind, Goes, LeftGoes, PassTyped, LeftStages
<1>7. CASE Dies(w)
  BY <1>1, <1>3, <1>7 DEF Dies, Goes, LeftGoes, PassTyped
<1>8. CASE OutsideWork(w)
  <2>1. pass[w] = "off" /\ ~Working(w)' /\ UNCHANGED alerts
    BY <1>8 DEF OutsideWork, Working, PassTyped
  <2> QED BY <1>1, <2>1 DEF alerts, PassTyped
<1> QED BY <1>4, <1>5, <1>6, <1>7, <1>8 DEF LockStep

\* Who meets whom when a worker moves in the lock.
LEMMA LockMeets ==
  ASSUME TypeOK, PassTyped, NEW w \in Workers, LockStep(w)
  PROVE  /\ \A v \in Workers : v # w => met[v] \subseteq met'[v]
         /\ Working(w)' =>
              /\ \A v \in Workers : v # w /\ Working(v) =>
                   cycle'[w].bucket \in met'[v] /\ cycle[v].bucket \in met'[w]
              /\ Strays # {} => Stray \in met'[w]
              /\ crossed' = Strays
         /\ ~Working(w)' => \A v \in crossed : v # w \/ behind'[w] # "off" => v \in crossed'
         /\ behind[w] = "off" /\ behind'[w] # "off" =>
              /\ \A v \in Workers : v # w /\ Working(v) => Stray \in met'[v]
              /\ BesideAnother(w) => w \in crossed'
         /\ crossed' \subseteq Strays'
<1>1. WorkerStep(w) /\ DOMAIN met = Workers /\ crossed \subseteq Strays
  BY DEF LockStep, PassTyped
<1>2. Working(w) => ~Working(w)'
  BY <1>1, WorkEnds
<1>3. kills' > kills => ~Working(w)'
  BY <1>1, DeadIdle
<1>4. /\ behind' = [behind EXCEPT ![w] = behind'[w]]
      /\ DOMAIN behind = Workers
  BY LockMoves DEF PassTyped
<1>5. CASE BeginsWork(w)
  <2>1. /\ behind' = behind /\ crossed' = Strays /\ Working(w)'
        /\ met' = [v \in Workers |->
             CASE v = w -> {cycle[u].bucket : u \in {u \in Workers \ {w} : Working(u)}} \cup {Stray : u \in Strays}
               [] v \in {u \in Workers \ {w} : Working(u)} -> met[v] \cup {cycle'[w].bucket}
               [] OTHER -> met[v]]
    BY <1>5, Zenon DEF BeginsWork, Working
  <2>2. Strays' = Strays
    BY <2>1 DEF Strays
  <2>3. met'[w] = {cycle[u].bucket : u \in {u \in Workers \ {w} : Working(u)}} \cup {Stray : u \in Strays}
    BY <2>1
  <2>4. ASSUME NEW v \in Workers, v # w
        PROVE  met'[v] = IF Working(v) THEN met[v] \cup {cycle'[w].bucket} ELSE met[v]
    BY <2>1, <2>4
  <2>5. Strays # {} => Stray \in met'[w]
    BY <2>3
  <2> QED BY <2>1, <2>2, <2>3, <2>4, <2>5
<1>6. CASE EndsWork(w)
  <2>1. behind' = behind /\ crossed' = crossed /\ met' = [met EXCEPT ![w] = {}] /\ ~Working(w)'
    BY <1>2, <1>6 DEF EndsWork
  <2> QED BY <1>1, <2>1 DEF Strays
<1>7. CASE LeavesBehind(w)
  <2>1. /\ behind[w] = "off" /\ behind'[w] = pass[w] /\ pass[w] # "off" /\ ~Working(w)'
        /\ met' = [v \in Workers |-> CASE v = w -> {}
                               [] v # w /\ Working(v) -> met[v] \cup {Stray}
                               [] OTHER -> met[v]]
        /\ crossed' = IF BesideAnother(w) THEN crossed \cup {w} ELSE crossed
    BY <1>2, <1>4, <1>7 DEF LeavesBehind, LeftGoes
  <2>2. Strays' = Strays \cup {w}
    BY <1>4, <2>1 DEF Strays
  <2> QED BY <1>1, <2>1, <2>2
<1>8. CASE Dies(w)
  <2>1. /\ behind'[w] = "off" /\ crossed' = crossed \ {w} /\ met' = [met EXCEPT ![w] = {}] /\ ~Working(w)'
    BY <1>3, <1>4, <1>8 DEF Dies, LeftGoes
  <2>2. Strays' = Strays \ {w}
    BY <1>4, <2>1 DEF Strays
  <2> QED BY <1>1, <2>1, <2>2
<1>9. CASE OutsideWork(w)
  <2>1. behind' = behind /\ crossed' = crossed /\ met' = met /\ ~Working(w)'
    BY <1>9 DEF OutsideWork, Working, alerts
  <2> QED BY <1>1, <2>1 DEF Strays
<1> QED BY <1>5, <1>6, <1>7, <1>8, <1>9 DEF LockStep

LEMMA LockStepKeeps ==
  ASSUME IInv, AInv, NEW w \in Workers, LockStep(w)
  PROVE  AInv'
<1> USE DEF AInv
<1>0. TypeOK /\ PassTyped /\ Meets /\ StraysCross /\ CurrentAlone
  BY DEF IInv
<1>1. /\ \A v \in Workers : v # w =>
           /\ cycle'[v] = cycle[v] /\ pass'[v] = pass[v] /\ behind'[v] = behind[v]
           /\ Working(v)' <=> Working(v)
      /\ UNCHANGED <<runtime, job, pushes>>
      /\ pass' = [pass EXCEPT ![w] = IF Working(w)' THEN "snapshot" ELSE "off"]
      /\ behind' = [behind EXCEPT ![w] = behind'[w]]
      /\ \/ behind'[w] \in {"off", behind[w]}
         \/ behind[w] = "off" /\ Working(w) /\ behind'[w] = pass[w] /\ behind'[w] \in LeftStages
      /\ Working(w)' => ~Working(w) /\ behind' = behind
      /\ DOMAIN met' = Workers
  BY <1>0, LockMoves DEF Working
<1>2. \A v \in Workers : v # w /\ ~BesideAnother(v)' => ~BesideAnother(v)
  BY <1>0, <1>1, LockMeets DEF BesideAnother
<1>3. PassTyped'
  <2>1. crossed' \subseteq Strays'
    BY <1>0, LockMeets
  <2>2. behind' \in [Workers -> LeftStages] /\ pass' \in [Workers -> PassStages]
    BY <1>0, <1>1 DEF PassTyped, PassStages, LeftStages
  <2> QED BY <1>0, <1>1, <2>1, <2>2 DEF PassTyped
<1>4. Meets'
  <2> SUFFICES ASSUME NEW u \in Workers, NEW v \in Workers, Working(v)'
               PROVE  /\ u # v /\ Working(u)' => cycle'[u].bucket \in met'[v]
                      /\ behind'[u] # "off" => Stray \in met'[v]
    BY DEF Meets
  <2>1. CASE v = w
    <3>1. behind'[u] # "off" => Strays # {}
      BY <1>1, <2>1 DEF Strays
    <3> QED BY <1>0, <1>1, <2>1, <3>1, LockMeets
  <2>2. CASE v # w /\ u = w
    <3>1. behind[w] # "off" => Stray \in met[v]
      BY <1>0, <1>1, <2>2 DEF Meets
    <3> QED BY <1>0, <1>1, <2>2, <3>1, LockMeets
  <2>3. CASE u # w /\ v # w
    BY <1>0, <1>1, <2>3, LockMeets DEF Meets
  <2> QED BY <2>1, <2>2, <2>3
<1>5. ASSUME runtime.nodeEnv = "production", NEW x \in Strays' \ crossed'
      PROVE  /\ ~Working(w)' /\ x \in Workers
             /\ x \in Strays => x \notin crossed /\ behind'[x] = behind[x]
             /\ x \notin Strays => x = w /\ Working(w) /\ ~BesideAnother(w) /\ behind'[w] = pass[w]
  <2>1. ~Working(w)'
    <3>1. Working(w)' => Strays' = crossed'
      BY <1>0, <1>1, LockMeets DEF Strays
    <3> QED BY <3>1, <1>5
  <2>2. x \in Workers /\ behind'[x] # "off"
    BY <1>5 DEF Strays
  <2>3. x \in Strays => x \notin crossed /\ behind'[x] = behind[x]
    BY <1>0, <1>1, <1>5, <2>1, <2>2, LockMeets DEF Strays
  <2>4. x \notin Strays => x = w /\ behind[w] = "off"
    BY <1>1, <2>2 DEF Strays
  <2>5. x \notin Strays => Working(w) /\ ~BesideAnother(w) /\ behind'[w] = pass[w]
    BY <1>0, <1>1, <1>5, <2>2, <2>4, LockMeets
  <2> QED BY <2>1, <2>2, <2>3, <2>4, <2>5
<1>6. StraysCross'
  <2> SUFFICES ASSUME runtime.nodeEnv = "production", NEW x \in Strays' \ crossed', NEW y \in Workers
               PROVE  ~Working(y)' /\ (y # x => behind'[y] = "off")
    BY <1>1 DEF StraysCross
  <2>1. CASE x \in Strays
    <3>1. \A v \in Workers : ~Working(v) /\ (v # x => behind[v] = "off")
      BY <1>0, <1>5, <2>1 DEF StraysCross
    <3> QED BY <1>1, <1>5, <2>1, <3>1
  <2>2. CASE x \notin Strays
    <3>1. Strays = {} /\ \A v \in Workers : Working(v) => v = w
      BY <1>0, <1>5, <2>2, AloneUnlessBeside
    <3> QED BY <1>1, <1>5, <2>2, <3>1 DEF Strays
  <2> QED BY <2>1, <2>2
<1>7. CurrentAlone'
  <2> SUFFICES ASSUME runtime.nodeEnv = "production", NEW v \in Workers
               PROVE  /\ Working(v)' /\ ~BesideAnother(v)' => Current(pass[v])'
                      /\ v \in Strays' \ crossed' => Current(behind[v])'
    BY <1>1 DEF CurrentAlone
  <2>1. ASSUME Working(v)', ~BesideAnother(v)' PROVE Current(pass[v])'
    <3>1. CASE v = w
      BY <1>0, <1>1, <2>1, <3>1 DEF Current, PassTyped
    <3>2. CASE v # w
      BY <1>0, <1>1, <1>2, <2>1, <3>2 DEF Current, CurrentAlone
    <3> QED BY <3>1, <3>2
  <2>2. ASSUME v \in Strays' \ crossed' PROVE Current(behind[v])'
    <3>1. CASE v \in Strays
      BY <1>0, <1>1, <1>5, <2>2, <3>1 DEF Current, CurrentAlone
    <3>2. CASE v \notin Strays
      BY <1>0, <1>1, <1>5, <2>2, <3>2 DEF Current, CurrentAlone
    <3> QED BY <3>1, <3>2
  <2> QED BY <2>1, <2>2
<1> QED BY <1>3, <1>4, <1>6, <1>7

\* The inductive invariant of the composition.
LEMMA AlertsStepAInv == IInv /\ AInv /\ [AlertsNext]_allVars => AInv'
<1> SUFFICES ASSUME IInv, AInv, [AlertsNext]_allVars PROVE AInv'
  OBVIOUS
<1>1. ASSUME NEW w \in Workers, LockStep(w) \/ PassStep(w) \/ LeftStep(w) PROVE AInv'
  BY <1>1, LockStepKeeps, PassStepKeeps, LeftStepKeeps
<1>2. CASE UNCHANGED <<runtime, cycle, alerts>>
  BY <1>2 DEF AInv, PassTyped, Meets, StraysCross, CurrentAlone, Current, Strays, Working, BesideAnother,
              alerts
<1>3. (RedisFlips \/ Tick) /\ UNCHANGED alerts => UNCHANGED <<runtime, cycle, alerts>>
  BY DEF RedisFlips, Tick
<1> QED BY <1>1, <1>2, <1>3 DEF AlertsNext, allVars, vars

\* Two workers' cycles push a job twice, or overwrite the record of a push, only side by
\* side: in two buckets, or beside a push that a rejected pool left behind.  As long as
\* cycles fit the TTL, the lock excludes everything else.
THEOREM PushedOnceUnderLock == ASSUME CyclesFitTtl PROVE AlertsSpec => OncePushedUnlessBesideAnother
<1>1. AlertsInit => IInv
  BY InitIInv DEF AlertsInit
<1>2. IInv /\ [AlertsNext]_allVars => IInv'
  BY StepIInv, AlertsStepIsLockStep
<1>3. IInv /\ AInv /\ [AlertsNext]_allVars =>
        [runtime.nodeEnv = "production" /\ (Repeats \/ Erases) =>
           \E w \in Workers : \/ pass'[w] # pass[w] /\ BesideAnother(w)
                              \/ behind'[w] # behind[w] /\ w \in crossed]_allVars
  <2> SUFFICES ASSUME IInv, AInv, AlertsNext, runtime.nodeEnv = "production", Repeats \/ Erases
               PROVE  \E w \in Workers : \/ pass'[w] # pass[w] /\ BesideAnother(w)
                                         \/ behind'[w] # behind[w] /\ w \in crossed
    OBVIOUS
  <2>0. PassTyped /\ TypeOK /\ pushes \in Nat
    BY DEF AInv, IInv, PassTyped
  <2>1. PICK w \in Workers : PassStep(w) \/ LeftStep(w)
    BY <2>0, LockMoves DEF AlertsNext, Repeats, Erases, alerts
  <2>2. CASE PassStep(w)
    <3>1. pass'[w] # pass[w] /\ Working(w)
      BY <2>0, <2>2, PassMoves DEF PassTyped, Goes, Repeats, Erases, PassStep, Snapshot, ReadJob, WriteJob,
                        PlanFails, Planning, ReadDue, PushJob, Record, RecordFails
    <3>2. SUFFICES ASSUME ~BesideAnother(w) PROVE FALSE
      BY <3>1
    <3>3. Current(pass[w]) /\ Strays = {} /\ \A v \in Workers : Working(v) => v = w
      BY <3>1, <3>2, AloneUnlessBeside DEF AInv, CurrentAlone
    <3>4. ~Erases
      BY <2>2, <3>3 DEF Erases, Current, PassStep, Snapshot, ReadJob, WriteJob, PlanFails, ReadDue, PushJob,
                        Record, RecordFails
    <3>5. pass[w] = "push"
      BY <2>0, <2>2, <3>4 DEF Repeats, PassStep, Snapshot, ReadJob, WriteJob, PlanFails, ReadDue, PushJob,
                        Record, RecordFails
    <3>6. ~OnRecord
      BY <2>0, <3>3, <3>5 DEF OnRecord, Current, Strays, PassTyped
    <3> QED BY <3>4, <3>6 DEF Repeats
  <2>3. CASE LeftStep(w)
    <3>1. behind'[w] # behind[w] /\ w \in Strays
      BY <2>0, <2>3 DEF PassTyped, LeftGoes, LeftStep, LeftPush, LeftRecord, LeftRecordFails, Strays
    <3>2. SUFFICES ASSUME w \notin crossed PROVE FALSE
      BY <3>1
    <3>3. Current(behind[w]) /\ \A v \in Workers : ~Working(v) /\ (v # w => behind[v] = "off")
      BY <3>1, <3>2 DEF AInv, CurrentAlone, StraysCross
    <3>4. ~Erases
      BY <2>3, <3>3 DEF Erases, Current, LeftStep, LeftPush, LeftRecord, LeftRecordFails
    <3>5. behind[w] = "push"
      BY <2>0, <2>3, <3>4 DEF Repeats, LeftStep, LeftPush, LeftRecord, LeftRecordFails
    <3>6. ~OnRecord
      BY <2>0, <3>3, <3>5 DEF OnRecord, Current, PassTyped
    <3> QED BY <3>4, <3>6 DEF Repeats
  <2> QED BY <2>1, <2>2, <2>3
<1> QED BY <1>1, <1>2, <1>3, AlertsInitAInv, AlertsStepAInv, PTL DEF AlertsSpec, OncePushedUnlessBesideAnother

-----------------------------------------------------------------------------
(* The interview window: the selection of its days. *)

\* A set of naturals has a least member.
LEMMA LeastOf ==
  ASSUME NEW S \in SUBSET Nat, S # {}
  PROVE  \E m \in S : \A n \in S : m <= n
<1>1. \E m \in S : \A n \in S : <<n, m>> \notin OpToRel(<, Nat)
  BY NatLessThanWellFounded, WFMin
<1>2. PICK m \in S : \A n \in S : <<n, m>> \notin OpToRel(<, Nat)
  BY <1>1
<1>3. ASSUME NEW n \in S PROVE m <= n
  <2>1. <<n, m>> \in OpToRel(<, Nat) <=> n < m
    BY DEF OpToRel
  <2>2. ~(n < m)
    BY <1>2, <2>1
  <2> QED BY <2>2
<1> QED BY <1>3

\* The day the generation writes next is one of the days left.
LEMMA EarliestIn ==
  ASSUME NEW days \in SUBSET Nat, days # {}
  PROVE  Earliest(days) \in days
BY LeastOf DEF Earliest

\* Induction over the naturals, of a set.
LEMMA FromZeroOn ==
  ASSUME NEW S, 0 \in S, \A n \in Nat : n \in S => n + 1 \in S
  PROVE  Nat \subseteq S
<1> SUFFICES ASSUME Nat \ S # {} PROVE FALSE
  OBVIOUS
<1>1. PICK m \in Nat \ S : \A n \in Nat \ S : m <= n
  BY LeastOf
<1>2. m # 0
  OBVIOUS
<1>3. m - 1 \in Nat /\ m - 1 < m /\ (m - 1) + 1 = m
  BY <1>2
<1>4. m - 1 \in S
  BY <1>1, <1>3
<1> QED BY <1>3, <1>4

\* The loop of Pick, n times.
Grown(p, pool, taken) ==
  LET rest == pool \ taken
      far == {d \in rest : \A e \in taken : Apart(d, e) >= Spacing}
  IN  IF rest = {} THEN taken
      ELSE taken \cup {Best(p, IF far = {} THEN rest ELSE far)}
Loop(f, p, pool, m) == f = [n \in 0..m |-> IF n = 0 THEN {} ELSE Grown(p, pool, f[n - 1])]

\* There is such a loop, so that the CHOOSE of Pick finds it.
LEMMA LoopExists ==
  ASSUME NEW p, NEW pool, NEW m \in Nat
  PROVE  \E f : Loop(f, p, pool, m)
<1> DEFINE S == {n \in Nat : \E f : Loop(f, p, pool, n)}
<1>1. 0 \in S
  <2>1. Loop([n \in 0..0 |-> {}], p, pool, 0)
    BY DEF Loop
  <2> QED BY <2>1
<1>2. ASSUME NEW n \in Nat, n \in S PROVE n + 1 \in S
  <2>1. PICK f : Loop(f, p, pool, n)
    BY <1>2
  <2> DEFINE g == [k \in 0..n + 1 |-> IF k = n + 1 THEN Grown(p, pool, f[n]) ELSE f[k]]
  <2>2. ASSUME NEW k \in 0..n + 1 PROVE g[k] = IF k = 0 THEN {} ELSE Grown(p, pool, g[k - 1])
    <3>1. CASE k = n + 1
      BY <3>1
    <3>2. CASE k # n + 1
      <4>1. k \in 0..n /\ g[k] = f[k] /\ (k # 0 => g[k - 1] = f[k - 1])
        BY <3>2
      <4>2. f[k] = IF k = 0 THEN {} ELSE Grown(p, pool, f[k - 1])
        BY <2>1, <4>1 DEF Loop
      <4> QED BY <4>1, <4>2
    <3> QED BY <3>1, <3>2
  <2>3. Loop(g, p, pool, n + 1)
    BY <2>2 DEF Loop
  <2> QED BY <2>3
<1> HIDE DEF S
<1>3. m \in S
  BY <1>1, <1>2, FromZeroOn
<1> QED BY <1>3 DEF S

LEMMA PickLoops ==
  ASSUME NEW p, NEW pool, NEW target \in Nat
  PROVE  \E f : Loop(f, p, pool, target) /\ Pick(p, pool, target) = f[target]
<1> DEFINE f == CHOOSE f : Loop(f, p, pool, target)
<1>1. Pick(p, pool, target) = f[target]
  BY Zenon DEF Pick, Loop, Grown
<1>2. Loop(f, p, pool, target)
  BY LoopExists
<1> HIDE DEF f
<1> QED BY <1>1, <1>2

\* The best day there is one, and no other than one of the days.
Ahead(p, d, e) == Score[p][d] > Score[p][e] \/ (Score[p][d] = Score[p][e] /\ d < e)

LEMMA ScoreType == ASSUME NEW p \in Profiles, NEW d \in Days PROVE Score[p][d] \in Nat
BY WindowAssumption

LEMMA DaysType == Days \subseteq Nat /\ \E n \in Nat : Days = 0..n
<1>1. MaxDay + Threshold + Horizon + RefillDays \in Nat
  BY ProfileAssumption, WindowAssumption
<1> QED BY <1>1 DEF Days

\* Some day is ahead of all others, as scores and days are ordered.
LEMMA BestExists ==
  ASSUME NEW p \in Profiles, NEW days \in SUBSET Days, days # {}
  PROVE  \E d \in days : \A e \in days \ {d} : Ahead(p, d, e)
<1> DEFINE Has(D) == \E d \in D : \A e \in D \ {d} : Ahead(p, d, e)
           S == {n \in Nat : \A D \in SUBSET (Days \cap (0..n)) : D # {} => Has(D)}
<1>1. 0 \in S
  <2> SUFFICES ASSUME NEW D \in SUBSET (Days \cap (0..0)), D # {} PROVE Has(D)
    OBVIOUS
  <2>1. D = {0}
    OBVIOUS
  <2> QED BY <2>1
<1>2. ASSUME NEW n \in Nat, n \in S PROVE n + 1 \in S
  <2> SUFFICES ASSUME NEW D \in SUBSET (Days \cap (0..n + 1)), D # {} PROVE Has(D)
    OBVIOUS
  <2> DEFINE R == D \ {n + 1}
  <2>0. R \in SUBSET (Days \cap (0..n))
    OBVIOUS
  <2>1. CASE R = {}
    <3>1. D = {n + 1}
      BY <2>1
    <3> QED BY <3>1
  <2>2. CASE R # {}
    <3>1. PICK d \in R : \A e \in R \ {d} : Ahead(p, d, e)
      BY <1>2, <2>0, <2>2
    <3>2. CASE n + 1 \notin D
      BY <3>1, <3>2
    <3>3. CASE n + 1 \in D
      <4> DEFINE m == n + 1
      <4>1. m \in D /\ d \in D /\ d < m /\ \A e \in D : e \in R \/ e = m
        BY <3>1, <3>3, <2>0
      <4>2. Score[p][m] \in Nat /\ \A e \in D : Score[p][e] \in Nat
        BY <4>1, ScoreType
      <4>3. CASE Score[p][m] > Score[p][d]
        <5>1. ASSUME NEW e \in D \ {m} PROVE Ahead(p, m, e)
          <6>1. e = d \/ Ahead(p, d, e)
            BY <3>1, <4>1
          <6>2. Score[p][d] \in Nat /\ Score[p][e] \in Nat
            BY <4>1, <4>2
          <6> QED BY <4>2, <4>3, <6>1, <6>2 DEF Ahead
        <5> QED BY <4>1, <5>1
      <4>4. CASE ~(Score[p][m] > Score[p][d])
        <5>1. Ahead(p, d, m)
          <6>1. Score[p][d] \in Nat
            BY <4>1, <4>2
          <6> QED BY <4>1, <4>2, <4>4, <6>1 DEF Ahead
        <5>2. ASSUME NEW e \in D \ {d} PROVE Ahead(p, d, e)
          BY <3>1, <4>1, <5>1
        <5> QED BY <4>1, <5>2
      <4> QED BY <4>3, <4>4
    <3> QED BY <3>2, <3>3
  <2> QED BY <2>1, <2>2
<1> HIDE DEF S
<1>3. Nat \subseteq S
  BY <1>1, <1>2, FromZeroOn
<1>4. PICK n \in Nat : Days = 0..n
  BY DaysType
<1> QED BY <1>3, <1>4 DEF S

LEMMA BestIn ==
  ASSUME NEW p \in Profiles, NEW days \in SUBSET Days, days # {}
  PROVE  Best(p, days) \in days
BY BestExists DEF Best, Ahead

\* A turn of the loop, the whole loop and the selection stay among their days.
LEMMA GrownIn ==
  ASSUME NEW p \in Profiles, NEW pool \in SUBSET Days, NEW taken \in SUBSET pool
  PROVE  Grown(p, pool, taken) \in SUBSET pool
<1> DEFINE rest == pool \ taken
           far == {d \in rest : \A e \in taken : Apart(d, e) >= Spacing}
           from == IF far = {} THEN rest ELSE far
<1>1. Grown(p, pool, taken) = IF rest = {} THEN taken ELSE taken \cup {Best(p, from)}
  BY DEF Grown
<1>2. rest # {} => from # {} /\ from \in SUBSET Days /\ from \subseteq pool
  OBVIOUS
<1> HIDE DEF rest, from
<1>3. rest # {} => Best(p, from) \in pool
  BY <1>2, BestIn
<1> QED BY <1>1, <1>3

LEMMA PickIn ==
  ASSUME NEW p \in Profiles, NEW pool \in SUBSET Days, NEW target \in Nat
  PROVE  Pick(p, pool, target) \in SUBSET pool
<1>1. PICK f : Loop(f, p, pool, target) /\ Pick(p, pool, target) = f[target]
  BY PickLoops
<1> DEFINE S == {n \in Nat : n <= target => f[n] \in SUBSET pool}
<1>2. 0 \in S
  BY <1>1 DEF Loop
<1>3. ASSUME NEW n \in Nat, n \in S PROVE n + 1 \in S
  <2>1. CASE n + 1 > target
    BY <2>1
  <2>2. CASE n + 1 <= target
    <3>0. n + 1 \in 0..target /\ n + 1 # 0 /\ (n + 1) - 1 = n
      BY <2>2
    <3>1. f[n + 1] = Grown(p, pool, f[n])
      <4>1. \A k \in 0..target : f[k] = IF k = 0 THEN {} ELSE Grown(p, pool, f[k - 1])
        BY <1>1 DEF Loop
      <4> QED BY <3>0, <4>1
    <3>2. f[n] \in SUBSET pool
      BY <1>3, <2>2
    <3> QED BY <3>1, <3>2, GrownIn
  <2> QED BY <2>1, <2>2
<1> HIDE DEF S
<1>4. target \in S
  BY <1>2, <1>3, FromZeroOn
<1> QED BY <1>1, <1>4 DEF S

\* How many slots a range is to have is a number of turns.
LEMMA TargetType ==
  ASSUME NEW range \in Int
  PROVE  Target(range) \in Nat /\ AtMost(Target(range), 1) \in Nat
<1> DEFINE share == (2 * range * MonthlyTarget + MonthDays) \div (2 * MonthDays)
<1>1. MonthDays \in Nat \ {0} /\ MonthlyTarget \in Nat \ {0}
  BY WindowAssumption
<1>2. 2 * range * MonthlyTarget + MonthDays \in Int /\ 2 * MonthDays \in Nat /\ 2 * MonthDays > 0
  BY <1>1
<1>3. share \in Int
  BY <1>2
<1>4. Target(range) = AtLeast(1, AtMost(MonthlyTarget, share))
  BY DEF Target
<1> HIDE DEF share
<1> QED BY <1>1, <1>3, <1>4 DEF AtLeast, AtMost

LEMMA SelectIn ==
  ASSUME NEW p \in Profiles, NEW days \in SUBSET Days, NEW range \in Int
  PROVE  Select(p, days, range) \in SUBSET days
<1> DEFINE qualified == {d \in days : Score[p][d] >= MinScore}
           safe == {d \in days : Score[p][d] >= SafetyScore}
<1>1. Pick(p, qualified, Target(range)) \in SUBSET qualified
  BY TargetType, PickIn
<1>2. Pick(p, safe, AtMost(Target(range), 1)) \in SUBSET safe
  BY TargetType, PickIn
<1> QED BY <1>1, <1>2 DEF Select

-----------------------------------------------------------------------------
(* What the window and the requests are made of.                           *)

Hashes == Profiles \cup {NoProfile}
IsRequest(r) ==
  r \in [kind : {"none", "put", "chart", "plan", "pass"}, stage : RequestStages,
         hash : Hashes, was : Hashes, level : 0..MaxLevel, since : Nat, alone : BOOLEAN,
         from : Nat, until : Days \cup {NotFilled}, left : SUBSET Days, found : SUBSET Days,
         missed : BOOLEAN, rebuild : BOOLEAN]
\* The slots there may be.
Slots == [day : Days, start : Nat, of : Profiles, told : Profiles]

\* A PUT that is about to empty the window.
Resetting(r) == r.stage \in {"reset", "wipe", "wipeSlots", "wipeSettings"}
\* A request that works from the profile it has read, and one of them that builds the
\* window anew.
Generating(r) ==
  \/ r.stage \in {"transit", "write", "polish", "record"}
  \/ r.stage = "fetch" /\ r.found # {}
Rebuilding(r) ==
  r.rebuild /\ r.stage \in {"natal", "transit", "write", "polish", "record"}

\* What a request carries at its stage, in a step (Bare) and between steps (Shape).
Bare(r) ==
  /\ IsRequest(r)
  /\ r.stage = "idle" => r = Idle
  /\ r.stage \in {"upsert", "chart"} \/ Generating(r) => r.hash \in Profiles
  /\ Resetting(r) => r.kind = "put"
  /\ r.rebuild => Rebuilding(r)
Shape(r) ==
  /\ Bare(r)
  /\ r.stage \in {"transit", "write", "polish"} => r.left # {}
  /\ r.stage = "write" => r.found # {}

WorkerStages ==
  {"idle", "expire", "settings", "clear", "natal", "transit", "write", "polish", "record"}

\* Every request is of its shape and began no later than today; the worker only passes.
Shapes ==
  /\ req = [a \in Actors |-> req[a]]
  /\ \A a \in Actors : Shape(req[a]) /\ req[a].since <= today
  /\ req[Worker].stage \in WorkerStages

StateTypes ==
  /\ today \in 0..MaxDay /\ clean \in BOOLEAN /\ charts \subseteq Profiles
  /\ profile \in [hash : Hashes, level : 0..MaxLevel, until : {profile.until}]
  /\ filledUntil \in Days \cup {NotFilled}
  /\ slots \subseteq Slots

\* A request that has met no other so far.  One that only reads, or polishes what it
\* reads, is not asked.
Lone(a) ==
  /\ req[a].alone /\ InFlight(a)
  /\ a = Worker \/ req[a].stage \notin {"fetch", "polish"}

\* The history flag `alone` means what it says.
LoneIsAlone == \A a \in Actors : Lone(a) => \A b \in Actors \ {a} : ~InFlight(b)

\* The inductive type invariant.
TypeInv == Shapes /\ StateTypes /\ LoneIsAlone

-----------------------------------------------------------------------------
(* The forms of the steps. *)

\* The steps that begin a request, and those of one that is in flight.
BeginStep(a) ==
  \/ a = Worker /\ BeginPass
  \/ BeginPlan(a) \/ BeginFetch(a) \/ BeginRefresh(a)
  \/ PostEmpty(a) /\ UNCHANGED windowVars
  \/ \E h \in Profiles : (ReadExisting(a, h) /\ UNCHANGED windowVars) \/ PostOther(a, h)

ServeStep(a) == Serve(a) \/ TransitFails(a) \/ Lose(a)

LEMMA StepForms ==
  ASSUME [WindowNext]_stateVars
  PROVE  \/ UNCHANGED stateVars
         \/ SaveSettings
         \/ NextDay /\ planned' = planned \ {today} /\ UNCHANGED <<enabled, filledUntil, slots, clean>>
         \/ \E a \in Actors : BeginStep(a) \/ ServeStep(a)
BY ProfileAssumption DEF WindowNext, BeginStep, ServeStep

\* A request that begins: what becomes of the others.
Begun(a, q) ==
  /\ IsRequest(q)
  /\ req' = [b \in Actors |-> req'[b]]
  /\ \A b \in Actors \ {a} :
       \/ ~InFlight(b) /\ req'[b] = Idle
       \/ InFlight(b) /\ req'[b] = [req[b] EXCEPT !.alone = FALSE]
  /\ \E alone \in BOOLEAN :
       /\ req'[a] = [q EXCEPT !.alone = alone]
       /\ alone <=> \A b \in Actors \ {a} : ~InFlight(b)

LEMMA IdleIs ==
  /\ IsRequest(Idle)
  /\ Idle.stage = "idle" /\ Idle.hash = NoProfile /\ Idle.since = 0 /\ Idle.alone
  /\ Idle.found = {} /\ ~Idle.rebuild
<1>1. 0 \in Days /\ NoLock \in 0..MaxLevel
  BY DaysType, ProfileAssumption DEF NoLock
<1> QED BY <1>1 DEF IsRequest, Idle, Hashes, RequestStages, NoLock

LEMMA IdleShape == Shape(Idle) /\ Idle.stage = "idle" /\ Idle.found = {} /\ Idle.alone
BY IdleIs DEF Shape, Bare, Generating, Resetting, Rebuilding

LEMMA BeginsForm ==
  ASSUME NEW a \in Actors, NEW q, IsRequest(q), Begins(a, q)
  PROVE  Begun(a, q)
<1>1. req' = [b \in Actors |-> req'[b]]
  BY DEF Begins
<1> DEFINE alone == \A c \in Actors \ {a} : ~InFlight(c)
<1>2. alone \in BOOLEAN
  OBVIOUS
<1>3. req'[a] = [q EXCEPT !.alone = alone]
  BY DEF Begins
<1>4. \A b \in Actors \ {a} : req'[b] = IF InFlight(b) THEN [req[b] EXCEPT !.alone = FALSE] ELSE Idle
  BY DEF Begins
<1> QED BY <1>1, <1>2, <1>3, <1>4 DEF Begun

\* Which request a beginning step begins.
BeginKind(a, q) ==
  \/ /\ q.kind \in {"plan", "pass"} /\ q.stage = "expire" /\ q.since = today /\ q.until = filledUntil
     /\ UNCHANGED <<profile, clean>>
  \/ /\ a \in Requests /\ q.stage = "fetch" /\ q.found = {} /\ UNCHANGED <<profile, clean>>
  \/ /\ a \in Requests /\ q.stage = "settings" /\ q.since = today /\ UNCHANGED <<profile, clean>>
  \/ /\ a \in Requests /\ q.stage = "chart" /\ q.hash \in Profiles /\ UNCHANGED <<profile, clean>>
  \/ /\ a \in Requests /\ q.stage = "upsert" /\ q.hash \in Profiles /\ q.was = profile.hash
     /\ q.since = today /\ UNCHANGED <<profile, clean>>
  \/ /\ a \in Requests /\ q.stage = "chart" /\ q.hash \in Profiles
     /\ profile' = [profile EXCEPT !.hash = q.hash]
     /\ clean' = (clean /\ profile.hash \in {NoProfile, q.hash})

\* A beginning step begins a request and leaves the window as it is.
LEMMA BeginForms ==
  ASSUME TypeInv, NEW a \in Actors, BeginStep(a)
  PROVE  /\ ~InFlight(a) /\ UNCHANGED <<today, charts, slots, filledUntil, planned>>
         /\ \E q : Begun(a, q) /\ Shape(q) /\ BeginKind(a, q) /\ ~q.rebuild /\ q.since <= today
<1>0. /\ today \in Nat /\ filledUntil \in Days \cup {NotFilled} /\ profile.hash \in Hashes
      /\ charts \subseteq Profiles
  BY ProfileAssumption DEF TypeInv, StateTypes
<1>1. CASE BeginPass /\ a = Worker
  <2> DEFINE q == [Idle EXCEPT !.kind = "pass", !.stage = "expire", !.since = today, !.until = filledUntil]
  <2>1. Shape(q) /\ q.kind = "pass" /\ q.stage = "expire" /\ q.since = today /\ q.until = filledUntil /\ ~q.rebuild
    BY <1>0, IdleIs DEF Shape, Bare, Generating, IsRequest, Hashes, RequestStages, Resetting, Rebuilding
  <2>2. Begun(a, q)
    BY <1>1, <2>1, BeginsForm DEF BeginPass, Shape, Bare
  <2> HIDE DEF q
  <2> QED BY <1>0, <1>1, <2>1, <2>2 DEF BeginPass, BeginKind, windowVars, InFlight
<1>2. CASE BeginPlan(a)
  <2> DEFINE q == [Idle EXCEPT !.kind = "plan", !.stage = "expire", !.since = today, !.until = filledUntil]
  <2>1. Shape(q) /\ q.kind = "plan" /\ q.stage = "expire" /\ q.since = today /\ q.until = filledUntil /\ ~q.rebuild
    BY <1>0, IdleIs DEF Shape, Bare, Generating, IsRequest, Hashes, RequestStages, Resetting, Rebuilding
  <2>2. Begun(a, q)
    BY <1>2, <2>1, BeginsForm DEF BeginPlan, Shape, Bare
  <2> HIDE DEF q
  <2> QED BY <1>0, <1>2, <2>1, <2>2 DEF BeginPlan, BeginKind, windowVars, InFlight
<1>3. CASE BeginFetch(a)
  <2> DEFINE q == [Idle EXCEPT !.kind = "plan", !.stage = "fetch"]
  <2>1. Shape(q) /\ q.stage = "fetch" /\ q.found = {} /\ ~q.rebuild /\ q.since = 0
    BY <1>0, IdleIs DEF Shape, Bare, Generating, IsRequest, Hashes, RequestStages, Resetting, Rebuilding
  <2>2. Begun(a, q)
    BY <1>3, <2>1, BeginsForm DEF BeginFetch, Shape, Bare
  <2> HIDE DEF q
  <2> QED BY <1>0, <1>3, <2>1, <2>2 DEF BeginFetch, BeginKind, windowVars, InFlight
<1>4. CASE BeginRefresh(a)
  <2> DEFINE q == [Idle EXCEPT !.kind = "plan", !.stage = "settings", !.since = today]
  <2>1. Shape(q) /\ q.stage = "settings" /\ ~q.rebuild /\ q.since = today
    BY <1>0, IdleIs DEF Shape, Bare, Generating, IsRequest, Hashes, RequestStages, Resetting, Rebuilding
  <2>2. Begun(a, q)
    BY <1>4, <2>1, BeginsForm DEF BeginRefresh, Shape, Bare
  <2> HIDE DEF q
  <2> QED BY <1>0, <1>4, <2>1, <2>2 DEF BeginRefresh, BeginKind, windowVars, InFlight
<1>5. CASE PostEmpty(a) /\ UNCHANGED windowVars
  <2> DEFINE q == [Idle EXCEPT !.kind = "chart", !.stage = "chart", !.hash = profile.hash]
  <2>0. profile.hash \in Profiles
    BY <1>0, <1>5 DEF PostEmpty, Hashes
  <2>1. Shape(q) /\ q.stage = "chart" /\ ~q.rebuild /\ q.hash \in Profiles /\ q.since = 0
    BY <2>0, IdleIs DEF Shape, Bare, Generating, IsRequest, Hashes, RequestStages, Resetting, Rebuilding
  <2>2. Begun(a, q)
    BY <1>5, <2>1, BeginsForm DEF PostEmpty, Shape, Bare
  <2> HIDE DEF q
  <2> QED BY <1>0, <1>5, <2>1, <2>2 DEF PostEmpty, BeginKind, windowVars, InFlight
<1>6. ASSUME NEW h \in Profiles, ReadExisting(a, h), UNCHANGED windowVars
      PROVE  /\ ~InFlight(a) /\ UNCHANGED <<today, charts, slots, filledUntil, planned>>
             /\ \E q : Begun(a, q) /\ Shape(q) /\ BeginKind(a, q) /\ ~q.rebuild /\ q.since <= today
  <2> DEFINE q == [Idle EXCEPT !.kind = "put", !.stage = "upsert", !.hash = h,
                     !.was = profile.hash, !.level = NextLevel(h), !.since = today]
  <2>0. NextLevel(h) \in 0..MaxLevel
    BY ProfileAssumption DEF NextLevel, NoLock, TypeInv, StateTypes
  <2>1. Shape(q) /\ q.stage = "upsert" /\ ~q.rebuild /\ q.hash \in Profiles /\ q.was = profile.hash /\ q.since = today
    BY <1>0, <1>6, <2>0, IdleIs DEF Shape, Bare, Generating, IsRequest, Hashes, RequestStages, Resetting, Rebuilding
  <2>2. Begun(a, q)
    BY <1>6, <2>1, BeginsForm DEF ReadExisting, Shape, Bare
  <2> HIDE DEF q
  <2> QED BY <1>0, <1>6, <2>1, <2>2 DEF ReadExisting, BeginKind, windowVars, InFlight
<1>7. ASSUME NEW h \in Profiles, PostOther(a, h)
      PROVE  /\ ~InFlight(a) /\ UNCHANGED <<today, charts, slots, filledUntil, planned>>
             /\ \E q : Begun(a, q) /\ Shape(q) /\ BeginKind(a, q) /\ ~q.rebuild /\ q.since <= today
  <2> DEFINE q == [Idle EXCEPT !.kind = "chart", !.stage = "chart", !.hash = h]
  <2>1. Shape(q) /\ q.stage = "chart" /\ ~q.rebuild /\ q.hash = h /\ q.since = 0
    BY <1>7, IdleIs DEF Shape, Bare, Generating, IsRequest, Hashes, RequestStages, Resetting, Rebuilding
  <2>2. Begun(a, q)
    BY <1>7, <2>1, BeginsForm DEF PostOther, PostProfile, Shape, Bare
  <2> HIDE DEF q
  <2> QED BY <1>0, <1>7, <2>1, <2>2 DEF PostOther, PostProfile, BeginKind, windowVars, InFlight
<1> QED BY <1>1, <1>2, <1>3, <1>4, <1>5, <1>6, <1>7 DEF BeginStep

\* What a step of a request leaves to the others, and to its own shape.
Acted(a) ==
  /\ req' = [b \in Actors |-> req'[b]]
  /\ \A b \in Actors \ {a} : req'[b] = req[b]
  /\ Shape(req'[a]) /\ req'[a].since <= today
  /\ a = Worker => req'[a].stage \in WorkerStages
  /\ Lone(a)' => Lone(a)

\* After the transit of a day the generation asks for the next, gives up, or selects.
LEMMA CollectedForm ==
  ASSUME NEW r, Bare(r), r.stage = "transit"
  PROVE  \/ Collected(r) = r /\ r.left # {}
         \/ Collected(r) = Idle
         \/ \E stage \in {"record", "write"} : \E chosen \in SUBSET Days :
              /\ Collected(r) = [r EXCEPT !.stage = stage, !.found = chosen, !.left = chosen, !.missed = FALSE]
              /\ stage = "write" => chosen # {}
<1> DEFINE chosen == Select(r.hash, r.found, r.until - r.from + 1)
<1>1. r.hash \in Profiles /\ r.found \in SUBSET Days /\ r.until - r.from + 1 \in Int
  BY DaysType DEF Bare, Generating, IsRequest, NotFilled
<1>2. chosen \in SUBSET Days
  BY <1>1, SelectIn
<1>3. Collected(r) =
        IF r.left # {} THEN r
        ELSE IF r.found = {} /\ r.missed THEN Idle
        ELSE [r EXCEPT !.stage = IF chosen = {} THEN "record" ELSE "write",
                     !.found = chosen, !.left = chosen, !.missed = FALSE]
  BY DEF Collected
<1> HIDE DEF chosen
<1> QED BY <1>2, <1>3

\* The request of a generation at its next step.
LEMMA ContinuesForm ==
  ASSUME TypeInv, NEW a \in Actors, InFlight(a), req[a].stage \in {"natal", "transit"},
         NEW r, Bare(r), r.stage = "transit", r.since <= today, r.alone = req[a].alone, Continues(a, r)
  PROVE  /\ Acted(a)
         /\ req'[a] = Idle \/ /\ req'[a].stage \in {"transit", "write", "record"}
                              /\ req'[a].hash = r.hash /\ req'[a].rebuild = r.rebuild
                              /\ req'[a].from = r.from /\ req'[a].until = r.until
         /\ clean' = (clean /\ ~(req'[a] = Idle /\ r.rebuild))
<1>1. req = [b \in Actors |-> req[b]] /\ today \in 0..MaxDay
  BY DEF TypeInv, Shapes, StateTypes
<1>2. /\ req' = [req EXCEPT ![a] = Collected(r)]
      /\ clean' = (clean /\ ~(Collected(r) = Idle /\ r.rebuild))
  BY DEF Continues
<1>3. /\ req' = [b \in Actors |-> req'[b]]
      /\ \A b \in Actors \ {a} : req'[b] = req[b]
      /\ req'[a] = Collected(r)
  BY <1>1, <1>2
<1>4. IsRequest(r) /\ r.hash \in Profiles
  BY DEF Bare, Generating
<1> DEFINE q == req'[a]
<1>5. \/ q = Idle
      \/ /\ Shape(q) /\ q.stage \in {"transit", "write", "record"} /\ q.alone = r.alone
         /\ q.hash = r.hash /\ q.rebuild = r.rebuild
         /\ q.from = r.from /\ q.until = r.until /\ q.since <= today
  <2>1. CASE Collected(r) = r /\ r.left # {}
    BY <1>3, <2>1 DEF Shape
  <2>2. CASE Collected(r) = Idle
    BY <1>3, <2>2
  <2>3. ASSUME NEW stage \in {"record", "write"}, NEW chosen \in SUBSET Days,
               Collected(r) = [r EXCEPT !.stage = stage, !.found = chosen, !.left = chosen, !.missed = FALSE],
               stage = "write" => chosen # {}
        PROVE  /\ Shape(q) /\ q.stage \in {"transit", "write", "record"} /\ q.alone = r.alone
               /\ q.hash = r.hash /\ q.rebuild = r.rebuild
               /\ q.from = r.from /\ q.until = r.until /\ q.since <= today
    <3>1. q = [r EXCEPT !.stage = stage, !.found = chosen, !.left = chosen, !.missed = FALSE]
      BY <1>3, <2>3
    <3>2. /\ q.stage = stage /\ q.alone = r.alone /\ q.hash = r.hash /\ q.rebuild = r.rebuild
          /\ q.from = r.from /\ q.until = r.until /\ q.since = r.since
          /\ q.found = chosen /\ q.left = chosen
      BY <1>4, <3>1 DEF IsRequest
    <3>3. IsRequest(q)
      BY <1>4, <3>1 DEF IsRequest, RequestStages
    <3> HIDE DEF q
    <3> QED BY <1>4, <2>3, <3>2, <3>3 DEF Shape, Bare, Resetting, Rebuilding, Generating
  <2> HIDE DEF q
  <2>4. CASE \E stage \in {"record", "write"} : \E chosen \in SUBSET Days :
               /\ Collected(r) = [r EXCEPT !.stage = stage, !.found = chosen, !.left = chosen, !.missed = FALSE]
               /\ stage = "write" => chosen # {}
    BY <2>3, <2>4
  <2> QED BY <2>1, <2>2, <2>4, CollectedForm
<1>6. Idle.since = 0 /\ Idle.stage = "idle"
  BY DEF Idle
<1>7. Acted(a)
  BY <1>1, <1>3, <1>5, <1>6, IdleShape DEF Acted, Lone, InFlight, At, WorkerStages
<1> HIDE DEF q
<1> QED BY <1>2, <1>3, <1>5, <1>7 DEF q

\* A step of a generation: it goes on, or it has thrown.
Generated(a) ==
  /\ Acted(a) /\ InFlight(a) /\ req[a].stage \in {"natal", "transit"}
  /\ UNCHANGED <<today, profile, charts, enabled, filledUntil, slots, planned>>
  /\ \/ /\ req'[a] = Idle
        /\ clean' = (clean /\ ~req[a].rebuild)
     \/ /\ req'[a].stage \in {"transit", "write", "record"}
        /\ req'[a].hash = IF req[a].stage = "natal" THEN profile.hash ELSE req[a].hash
        /\ req'[a].rebuild = req[a].rebuild
        /\ req'[a].from = req[a].from /\ req'[a].until = req[a].until
        /\ UNCHANGED clean

LEMMA GenerateForm ==
  ASSUME TypeInv, NEW a \in Actors, ReadNatal(a) \/ Transit(a) \/ TransitFails(a)
  PROVE  Generated(a)
<1>0. /\ today \in 0..MaxDay /\ today \in Nat /\ MaxDay \in Nat /\ clean \in BOOLEAN
      /\ profile.hash \in Hashes
      /\ charts \subseteq Profiles
      /\ req = [b \in Actors |-> req[b]]
      /\ Shape(req[a]) /\ IsRequest(req[a]) /\ req[a].since <= today
  BY ProfileAssumption DEF TypeInv, StateTypes, Shapes, Shape, Bare
<1>1. /\ InFlight(a) /\ req[a].stage \in {"natal", "transit"}
      /\ UNCHANGED <<today, profile, charts, enabled, filledUntil, slots, planned>>
  BY DEF ReadNatal, Transit, TransitFails, InFlight, At
<1>2. Idle.stage = "idle" /\ Idle.since = 0 /\ Shape(Idle)
  BY IdleIs, IdleShape
<1>4. CASE ReadNatal(a)
  <2>1. CASE profile.hash \in charts
    <3> DEFINE q == [req[a] EXCEPT !.stage = "transit", !.hash = profile.hash,
                            !.left = Workdays \cap (req[a].from .. req[a].until)]
    <3>1. Bare(q) /\ q.stage = "transit" /\ q.since <= today /\ q.alone = req[a].alone
      BY <1>0, <1>4, <2>1, WindowAssumption DEF ReadNatal, At, Shape, Bare, Generating, IsRequest, RequestStages, Resetting, Rebuilding, WorkerStages
    <3>2. Continues(a, q) /\ InFlight(a) /\ req[a].stage = "natal"
      BY <1>4, <2>1 DEF ReadNatal, InFlight, At
    <3>3. q.hash = profile.hash /\ q.rebuild = req[a].rebuild /\ q.from = req[a].from /\ q.until = req[a].until
      BY <1>0, <1>4 DEF IsRequest
    <3> HIDE DEF q
    <3> QED BY <1>0, <1>1, <1>2, <3>1, <3>2, <3>3, ContinuesForm DEF Generated
  <2>2. CASE Ends(a) /\ clean' = (clean /\ ~req[a].rebuild)
    <3>1. /\ req' = [b \in Actors |-> req'[b]] /\ req'[a] = Idle
          /\ \A b \in Actors \ {a} : req'[b] = req[b]
      BY <1>0, <2>2 DEF Ends
    <3> QED BY <1>0, <1>1, <1>2, <2>2, <3>1 DEF Generated, Acted, Lone, InFlight, At, WorkerStages
  <2> QED BY <1>4, <2>1, <2>2 DEF ReadNatal
<1>5. CASE Transit(a) \/ TransitFails(a)
  <2>0. req[a].left \ {Earliest(req[a].left)} \in SUBSET Days /\ Earliest(req[a].left) \in Days
        /\ req[a].found \in SUBSET Days
    <3>1. req[a].left \in SUBSET Days /\ req[a].left # {} /\ req[a].found \in SUBSET Days
      BY <1>0, <1>5 DEF Transit, TransitFails, At, Shape, IsRequest
    <3> QED BY <3>1, EarliestIn, DaysType
  <2>1. ASSUME NEW left \in SUBSET Days, NEW found \in SUBSET Days, NEW missed \in BOOLEAN,
               Continues(a, [req[a] EXCEPT !.left = left, !.found = found, !.missed = missed])
        PROVE  Generated(a)
    <3> DEFINE q == [req[a] EXCEPT !.left = left, !.found = found, !.missed = missed]
    <3>1. Bare(q) /\ q.stage = "transit" /\ q.since <= today /\ q.alone = req[a].alone
      BY <1>0, <1>5 DEF Transit, TransitFails, At, Shape, Bare, Generating, IsRequest, RequestStages, Resetting, Rebuilding
    <3>2. Continues(a, q) /\ InFlight(a) /\ req[a].stage = "transit"
      BY <1>5, <2>1 DEF Transit, TransitFails, InFlight, At
    <3>3. q.hash = req[a].hash /\ q.rebuild = req[a].rebuild /\ q.from = req[a].from /\ q.until = req[a].until
      BY <1>0, <1>5 DEF IsRequest
    <3> HIDE DEF q
    <3> QED BY <1>0, <1>1, <1>2, <1>5, <3>1, <3>2, <3>3, ContinuesForm DEF Generated, Transit, TransitFails, At
  <2>2. \E left \in SUBSET Days, found \in SUBSET Days, missed \in BOOLEAN :
          Continues(a, [req[a] EXCEPT !.left = left, !.found = found, !.missed = missed])
    <3>1. CASE Transit(a)
      <4> DEFINE left == req[a].left \ {Earliest(req[a].left)}
                 found == IF profile.hash = req[a].hash THEN req[a].found \cup {Earliest(req[a].left)} ELSE req[a].found
      <4>1. [req[a] EXCEPT !.left = left, !.found = found, !.missed = req[a].missed]
              = [req[a] EXCEPT !.left = left, !.found = found]
        BY <1>0 DEF IsRequest
      <4>2. Continues(a, [req[a] EXCEPT !.left = left, !.found = found])
        BY <3>1 DEF Transit
      <4>3. req[a].missed \in BOOLEAN
        BY <1>0 DEF IsRequest
      <4>4. left \in SUBSET Days /\ found \in SUBSET Days
        BY <2>0
      <4> HIDE DEF left, found
      <4> QED BY <4>1, <4>2, <4>3, <4>4
    <3>2. CASE TransitFails(a)
      <4> DEFINE left == req[a].left \ {Earliest(req[a].left)}
      <4>1. [req[a] EXCEPT !.left = left, !.found = req[a].found, !.missed = TRUE]
              = [req[a] EXCEPT !.left = left, !.missed = TRUE]
        BY <1>0 DEF IsRequest
      <4>2. Continues(a, [req[a] EXCEPT !.left = left, !.missed = TRUE])
        BY <3>2 DEF TransitFails
      <4>3. left \in SUBSET Days
        BY <2>0
      <4> HIDE DEF left
      <4> QED BY <2>0, <4>1, <4>2, <4>3
    <3> QED BY <1>5, <3>1, <3>2
  <2> QED BY <2>1, <2>2
<1> QED BY <1>4, <1>5

\* What Expire does by the day the request works with.
ExpiresBy(a, day) ==
  /\ slots' = FutureOf(day)
  /\ IF req[a].until = NotFilled THEN req' = [req EXCEPT ![a].stage = "settings", ![a].since = day]
     ELSE IF req[a].until - day > Threshold THEN Stops(a)
     ELSE req' = [req EXCEPT ![a].stage = "natal", ![a].since = 0,
                    ![a].from = req[a].until + 1, ![a].until = req[a].until + RefillDays]

\* Every step of a request is its own: the others stay, and it keeps its shape.
LEMMA ServeForms ==
  ASSUME TypeInv, NEW a \in Actors, ServeStep(a)
  PROVE  Acted(a) /\ InFlight(a) /\ UNCHANGED today
<1>0. /\ today \in 0..MaxDay /\ today \in Nat /\ MaxDay \in Nat
      /\ filledUntil \in Days \cup {NotFilled} /\ profile.hash \in Hashes
      /\ charts \subseteq Profiles
      /\ req = [b \in Actors |-> req[b]]
      /\ Shape(req[a]) /\ IsRequest(req[a]) /\ req[a].since <= today
      /\ a = Worker => req[a].stage \in WorkerStages
  BY ProfileAssumption DEF TypeInv, StateTypes, Shapes, Shape, Bare
<1> DEFINE Fine(q) == /\ Shape(q) /\ q.since <= today
                      /\ a = Worker => q.stage \in WorkerStages
                      /\ \/ q.stage \in {"idle", "fetch"}
                         \/ q.stage = "polish" /\ (a = Worker => q.alone = req[a].alone)
                         \/ /\ q.alone = req[a].alone
                            /\ a # Worker => req[a].stage \notin {"fetch", "polish"}
<1>a. ASSUME NEW q, Fine(q), InFlight(a), req' = [req EXCEPT ![a] = q] PROVE Acted(a)
  BY <1>0, <1>a DEF Acted, Lone, InFlight, At, WorkerStages
<1>b. Fine(Idle)
  <2>1. Idle.since = 0 /\ Idle.stage = "idle" /\ Shape(Idle)
    BY IdleShape DEF Idle
  <2>2. 0 <= today /\ "idle" \in WorkerStages
    BY <1>0 DEF WorkerStages
  <2> QED BY <2>1, <2>2
<1>c. a # Worker => Fine([Idle EXCEPT !.kind = "plan", !.stage = "fetch"])
  <2> DEFINE q == [Idle EXCEPT !.kind = "plan", !.stage = "fetch"]
  <2>1. IsRequest(q) /\ q.stage = "fetch" /\ q.since = 0 /\ ~q.rebuild /\ q.found = {}
    BY IdleIs DEF IsRequest, RequestStages
  <2> HIDE DEF q
  <2>2. Shape(q)
    BY <2>1 DEF Shape, Bare, Generating, Resetting, Rebuilding
  <2> QED BY <1>0, <2>1, <2>2 DEF q
<1>d. Ends(a) => req' = [req EXCEPT ![a] = Idle]
  BY DEF Ends
<1>e. ASSUME NEW s \in RequestStages, GoesOn(a, s)
      PROVE  req' = [req EXCEPT ![a] = [req[a] EXCEPT !.stage = s]]
  BY <1>e DEF GoesOn
<1>1. CASE Expire(a)
  <2>0. PICK day \in DaysOf(a) : ExpiresBy(a, day)
    BY <1>1 DEF Expire, ExpiresBy
  <2>00. InFlight(a) /\ day \in Nat /\ day <= today /\ UNCHANGED today
    BY <1>0, <1>1, <2>0 DEF Expire, InFlight, At, DaysOf, IsRequest
  <2>1. CASE req' = [req EXCEPT ![a].stage = "settings", ![a].since = day]
    <3> DEFINE q == [req[a] EXCEPT !.stage = "settings", !.since = day]
    <3>1. Fine(q)
      BY <1>0, <1>1, <2>00 DEF Expire, At, Shape, Bare, Generating, IsRequest, RequestStages, Resetting, Rebuilding, WorkerStages
    <3>2. req' = [req EXCEPT ![a] = q]
      BY <2>1
    <3> HIDE DEF Fine, q
    <3> QED BY <3>1, <3>2, <1>a, <2>00
  <2>2. CASE Stops(a)
    <3> HIDE DEF Fine
    <3> QED BY <1>a, <1>b, <1>c, <2>2, <2>00 DEF Stops
  <2>3. CASE /\ req[a].until # NotFilled /\ req[a].until - day <= Threshold
             /\ req' = [req EXCEPT ![a].stage = "natal", ![a].since = 0,
                          ![a].from = req[a].until + 1, ![a].until = req[a].until + RefillDays]
    <3> DEFINE q == [req[a] EXCEPT !.stage = "natal", !.since = 0,
                          !.from = req[a].until + 1, !.until = req[a].until + RefillDays]
    <3>0. req[a].until + RefillDays \in Days /\ req[a].until + 1 \in Nat
      <4>1. req[a].until \in Nat /\ day <= MaxDay
        BY <1>0, <2>00, <2>3, DaysType DEF IsRequest
      <4>2. RefillDays \in Nat /\ Threshold \in Nat /\ Horizon \in Nat
        BY WindowAssumption
      <4> QED BY <1>0, <2>00, <2>3, <4>1, <4>2 DEF Days
    <3>1. Fine(q)
      BY <1>0, <1>1, <2>3, <3>0 DEF Expire, At, Shape, Bare, Generating, IsRequest, RequestStages, Resetting, Rebuilding, WorkerStages, NotFilled
    <3>2. req' = [req EXCEPT ![a] = q]
      BY <2>3
    <3> HIDE DEF Fine, q
    <3> QED BY <3>1, <3>2, <1>a, <2>00
  <2>4. req[a].until # NotFilled => req[a].until - day \in Int
    BY <1>0, <2>00, DaysType DEF IsRequest
  <2>5. Threshold \in Nat
    BY WindowAssumption
  <2> QED BY <2>0, <2>00, <2>1, <2>2, <2>3, <2>4, <2>5 DEF ExpiresBy
<1>2. CASE ReadSettings(a)
  <2>1. CASE GoesOn(a, "clear")
    <3>1. Fine([req[a] EXCEPT !.stage = "clear"])
      BY <1>0, <1>2 DEF ReadSettings, At, Shape, Bare, Generating, IsRequest, RequestStages, Resetting, Rebuilding, WorkerStages
    <3>2. req' = [req EXCEPT ![a] = [req[a] EXCEPT !.stage = "clear"]]
      BY <2>1 DEF GoesOn
    <3> HIDE DEF Fine
    <3> QED BY <3>1, <3>2, <1>a, <1>2 DEF ReadSettings, InFlight, At
  <2>2. CASE Stops(a)
    <3> HIDE DEF Fine
    <3> QED BY <1>a, <1>b, <1>c, <2>2, <1>2 DEF Stops, ReadSettings, InFlight, At
  <2> QED BY <1>2, <2>1, <2>2 DEF ReadSettings
<1>3. CASE Clear(a)
  <2> DEFINE q == [req[a] EXCEPT !.stage = "natal", !.rebuild = TRUE, !.since = 0,
               !.from = req[a].since, !.until = req[a].since + Horizon - 1]
  <2>0. req[a].since + Horizon - 1 \in Days
    <3>1. req[a].since \in Nat /\ req[a].since <= MaxDay
      BY <1>0 DEF IsRequest
    <3>2. Horizon \in Nat \ {0} /\ Threshold \in Nat /\ RefillDays \in Nat
      BY WindowAssumption
    <3> QED BY <1>0, <3>1, <3>2 DEF Days
  <2>1. Fine(q)
    BY <1>0, <1>3, <2>0 DEF Clear, At, Shape, Bare, Generating, IsRequest, RequestStages, Resetting, Rebuilding, WorkerStages
  <2>2. req' = [req EXCEPT ![a] = q]
    BY <1>3 DEF Clear
  <2> HIDE DEF Fine, q
  <2> QED BY <2>1, <2>2, <1>a, <1>3 DEF Clear, InFlight, At
<1>4. CASE ReadNatal(a) \/ Transit(a) \/ TransitFails(a)
  BY <1>4, GenerateForm DEF Generated
<1>5. CASE WriteSlot(a)
  <2> DEFINE rest == req[a].left \ {Slot(req[a].hash, Earliest(req[a].left)).day}
             left == IF rest = {} /\ a = Worker THEN req[a].found ELSE rest
             stage == IF rest # {} THEN req[a].stage ELSE IF a = Worker THEN "polish" ELSE "record"
  <2>1. req' = [req EXCEPT ![a].left = left, ![a].stage = stage]
    BY <1>5 DEF WriteSlot
  <2>2. /\ stage \in {"write", "polish", "record"} /\ (a # Worker => stage \in {"write", "record"})
        /\ left \in SUBSET Days /\ (stage \in {"write", "polish"} => left # {})
    BY <1>0, <1>5 DEF WriteSlot, At, Shape, IsRequest
  <2> HIDE DEF left, stage
  <2> DEFINE q == [req[a] EXCEPT !.left = left, !.stage = stage]
  <2>3. Fine(q)
    BY <1>0, <1>5, <2>2 DEF WriteSlot, At, Shape, Bare, Generating, IsRequest, RequestStages, Resetting, Rebuilding, WorkerStages
  <2>4. req' = [req EXCEPT ![a] = q]
    BY <2>1
  <2> HIDE DEF Fine, q
  <2> QED BY <2>3, <2>4, <1>a, <1>5 DEF WriteSlot, InFlight, At
<1>6. CASE Polish(a)
  <2> DEFINE rest == req[a].left \ {Slot(req[a].hash, Earliest(req[a].left)).day}
  <2>0. req[a].left \in SUBSET Days
    BY <1>0 DEF IsRequest
  <2>1. CASE rest # {} /\ req' = [req EXCEPT ![a].left = rest]
    <3>0. rest \in SUBSET Days
      BY <2>0
    <3> HIDE DEF rest
    <3> DEFINE q == [req[a] EXCEPT !.left = rest]
    <3>1. Fine(q)
      BY <1>0, <1>6, <2>1, <3>0 DEF Polish, At, Shape, Bare, Generating, IsRequest, RequestStages, Resetting, Rebuilding, WorkerStages
    <3>2. req' = [req EXCEPT ![a] = q]
      BY <2>1
    <3> HIDE DEF Fine, q
    <3> QED BY <3>1, <3>2, <1>a, <1>6 DEF Polish, InFlight, At
  <2>2. CASE a = Worker /\ req' = [req EXCEPT ![a].left = rest, ![a].stage = "record"]
    <3>0. rest \in SUBSET Days
      BY <2>0
    <3> HIDE DEF rest
    <3> DEFINE q == [req[a] EXCEPT !.left = rest, !.stage = "record"]
    <3>1. Fine(q)
      BY <1>0, <1>6, <2>2, <3>0 DEF Polish, At, Shape, Bare, Generating, IsRequest, RequestStages, Resetting, Rebuilding, WorkerStages
    <3>2. req' = [req EXCEPT ![a] = q]
      BY <2>2
    <3> HIDE DEF Fine, q
    <3> QED BY <3>1, <3>2, <1>a, <1>6 DEF Polish, InFlight, At
  <2>3. CASE Ends(a)
    <3> HIDE DEF Fine
    <3> QED BY <1>6, <2>3, <1>a, <1>b, <1>d DEF Polish, InFlight, At
  <2> QED BY <1>6, <2>1, <2>2, <2>3 DEF Polish
<1>7. CASE RecordRange(a)
  <2>1. CASE Ends(a)
    <3> HIDE DEF Fine
    <3> QED BY <1>7, <2>1, <1>a, <1>b, <1>d DEF RecordRange, InFlight, At
  <2>2. CASE a # Worker
    <3> DEFINE q == [Idle EXCEPT !.kind = "plan", !.stage = "fetch",
                                       !.hash = req[a].hash, !.found = req[a].found]
    <3>0. req[a].hash \in Profiles /\ req[a].found \in SUBSET Days
      BY <1>0, <1>7 DEF RecordRange, At, Shape, Bare, Generating, IsRequest
    <3>1. IsRequest(q) /\ q.stage = "fetch" /\ q.since = 0 /\ ~q.rebuild /\ q.hash \in Profiles
      BY <1>0, <3>0, IdleIs DEF IsRequest, RequestStages
    <3>2. req' = [req EXCEPT ![a] = q]
      BY <1>7, <2>2 DEF RecordRange
    <3> HIDE DEF q
    <3>3. Fine(q)
      BY <1>0, <2>2, <3>1 DEF Shape, Bare, Generating, Resetting, Rebuilding
    <3> HIDE DEF Fine
    <3> QED BY <3>3, <3>2, <1>a, <1>7 DEF RecordRange, InFlight, At
  <2> QED BY <1>7, <2>1, <2>2 DEF RecordRange
<1>8. CASE Fetch(a)
  <2>1. CASE Ends(a)
    <3> HIDE DEF Fine
    <3> QED BY <1>8, <2>1, <1>a, <1>b, <1>d DEF Fetch, InFlight, At
  <2>2. CASE req[a].found # {} /\ req' = [req EXCEPT ![a].stage = "polish", ![a].left = req[a].found]
    <3> DEFINE q == [req[a] EXCEPT !.stage = "polish", !.left = req[a].found]
    <3>1. Fine(q)
      BY <1>0, <1>8, <2>2 DEF Fetch, At, Shape, Bare, Generating, IsRequest, RequestStages, Resetting, Rebuilding, WorkerStages
    <3>2. req' = [req EXCEPT ![a] = q]
      BY <2>2
    <3> HIDE DEF Fine, q
    <3> QED BY <3>1, <3>2, <1>a, <1>8 DEF Fetch, InFlight, At
  <2> QED BY <1>8, <2>1, <2>2 DEF Fetch
<1>9. CASE EditProfile(a)
  <2>1. CASE Ends(a) \/ req' = [req EXCEPT ![a] = Idle]
    <3> HIDE DEF Fine
    <3> QED BY <1>9, <2>1, <1>a, <1>b, <1>d DEF EditProfile, Upsert, InFlight, At
  <2>2. CASE req' = [req EXCEPT ![a] = [Idle EXCEPT !.kind = "put", !.stage = "reset", !.alone = req[a].alone]]
    <3> DEFINE q == [Idle EXCEPT !.kind = "put", !.stage = "reset", !.alone = req[a].alone]
    <3>1. /\ IsRequest(q) /\ q.stage = "reset" /\ q.since = 0 /\ ~q.rebuild /\ q.kind = "put"
          /\ q.alone = req[a].alone
      BY <1>0, IdleIs DEF IsRequest, RequestStages
    <3> HIDE DEF q
    <3>2. a # Worker /\ At(a, "upsert")
      BY <1>0, <1>9 DEF EditProfile, Upsert, At, WorkerStages
    <3>3. Fine(q)
      BY <1>0, <3>1, <3>2 DEF Shape, Bare, Generating, Resetting, Rebuilding, At
    <3> HIDE DEF Fine
    <3> QED BY <3>2, <3>3, <2>2, <1>a, <1>9 DEF EditProfile, Upsert, InFlight, At, q
  <2> QED BY <1>9, <2>1, <2>2 DEF EditProfile, Upsert
<1>10. CASE ReadReset(a)
  <2> DEFINE q == [req[a] EXCEPT !.stage = "wipe", !.since = today]
  <2>1. Fine(q)
    BY <1>0, <1>10 DEF ReadReset, At, Shape, Bare, Generating, IsRequest, RequestStages, Resetting, Rebuilding, WorkerStages
  <2>2. req' = [req EXCEPT ![a] = q]
    BY <1>10 DEF ReadReset
  <2> HIDE DEF Fine, q
  <2> QED BY <2>1, <2>2, <1>a, <1>10 DEF ReadReset, InFlight, At
<1>11. CASE WipeSlots(a) \/ WipeSettings(a)
  <2>0. Resetting(req[a]) /\ InFlight(a) /\ UNCHANGED today
    BY <1>11 DEF WipeSlots, WipeSettings, Resetting, At, InFlight
  <2>1. CASE Ends(a)
    <3> HIDE DEF Fine
    <3> QED BY <2>0, <2>1, <1>a, <1>b, <1>d
  <2>2. ASSUME NEW s \in {"wipeSlots", "wipeSettings"}, GoesOn(a, s)
        PROVE  Acted(a)
    <3> DEFINE q == [req[a] EXCEPT !.stage = s]
    <3>1. Fine(q)
      BY <1>0, <2>0 DEF Shape, Bare, Generating, IsRequest, RequestStages, Resetting, Rebuilding, WorkerStages
    <3>2. req' = [req EXCEPT ![a] = q]
      BY <2>2 DEF GoesOn
    <3> HIDE DEF Fine, q
    <3> QED BY <3>1, <3>2, <1>a, <2>0
  <2> QED BY <1>11, <2>0, <2>1, <2>2 DEF WipeSlots, WipeSettings, Wiped
<1>12. CASE StoreChart(a) \/ Lose(a)
  <2> HIDE DEF Fine
  <2> QED BY <1>12, <1>a, <1>b, <1>d DEF StoreChart, Lose, Fails, InFlight, At
<1> QED BY <1>1, <1>2, <1>3, <1>4, <1>5, <1>6, <1>7, <1>8, <1>9, <1>10, <1>11, <1>12
         DEF ServeStep, Serve

\* What the commands write stays in its sets.
LEMMA ServeTypes ==
  ASSUME TypeInv, NEW a \in Actors, ServeStep(a)
  PROVE  StateTypes'
<1>0. /\ StateTypes /\ Shape(req[a]) /\ IsRequest(req[a]) /\ InFlight(a) /\ UNCHANGED today
      /\ \A b \in Actors : req[b].alone \in BOOLEAN
  BY ServeForms DEF TypeInv, Shapes, Shape, Bare, IsRequest
<1>00. /\ today \in 0..MaxDay /\ clean \in BOOLEAN /\ charts \subseteq Profiles
       /\ profile \in [hash : Hashes, level : 0..MaxLevel, until : {profile.until}]
       /\ filledUntil \in Days \cup {NotFilled}
       /\ slots \subseteq Slots
       /\ req[a].hash \in Hashes /\ req[a].until \in Days \cup {NotFilled}
       /\ req[a].rebuild \in BOOLEAN /\ req[a].level \in 0..MaxLevel
  BY <1>0 DEF StateTypes, IsRequest
<1>1. CASE Expire(a) \/ Clear(a) \/ Fetch(a) \/ WipeSlots(a)
  BY <1>00, <1>1 DEF StateTypes, Expire, Clear, Fetch, WipeSlots, Wiped, FutureOf
<1>2. CASE ReadSettings(a) \/ ReadReset(a)
  BY <1>00, <1>2 DEF StateTypes, ReadSettings, ReadReset, windowVars
<1>3. CASE ReadNatal(a) \/ Transit(a) \/ TransitFails(a)
  <2>1. /\ UNCHANGED <<today, profile, charts, filledUntil, slots>>
        /\ clean' \in BOOLEAN
    BY <1>00, <1>3 DEF ReadNatal, Transit, TransitFails, Continues
  <2> QED BY <1>00, <2>1 DEF StateTypes
<1>4. CASE WriteSlot(a)
  <2>0. req[a].hash \in Profiles /\ Earliest(req[a].left) \in Days
    <3>1. req[a].left \in SUBSET Days /\ req[a].left # {} /\ req[a].hash \in Profiles
      BY <1>0, <1>4 DEF WriteSlot, At, Shape, Bare, Generating, IsRequest
    <3> QED BY <3>1, EarliestIn, DaysType
  <2>1. Slot(req[a].hash, Earliest(req[a].left)) \in Slots
    BY <2>0, WindowAssumption DEF Slots, Slot
  <2>2. slots' \subseteq slots \cup {Slot(req[a].hash, Earliest(req[a].left))}
    BY <1>4 DEF WriteSlot
  <2>3. UNCHANGED <<today, profile, charts, filledUntil, clean>>
    BY <1>4 DEF WriteSlot
  <2> QED BY <1>00, <2>1, <2>2, <2>3 DEF StateTypes
<1>5. CASE Polish(a)
  <2>0. req[a].hash \in Profiles
    BY <1>0, <1>5 DEF Polish, At, Shape, Bare, Generating
  <2>1. UNCHANGED <<today, profile, charts, filledUntil, clean>>
    BY <1>5 DEF Polish
  <2>2. \A s \in slots' : \/ s \in slots
                          \/ \E t \in slots, h \in {req[a].hash, profile.hash} \ {NoProfile} : s = [t EXCEPT !.told = h]
    BY <1>5 DEF Polish
  <2>3. ASSUME NEW t \in slots, NEW h \in {req[a].hash, profile.hash} \ {NoProfile}
        PROVE  [t EXCEPT !.told = h] \in Slots
    <3>1. h \in Profiles
      BY <1>00, <2>0 DEF Hashes
    <3> QED BY <1>00, <3>1 DEF Slots
  <2> QED BY <1>00, <2>1, <2>2, <2>3 DEF StateTypes
<1>6. CASE RecordRange(a) \/ WipeSettings(a) \/ Lose(a) \/ (StoreChart(a) /\ UNCHANGED windowVars)
  <2>1. CASE RecordRange(a)
    <3>1. req[a].alone \in BOOLEAN /\ req[a].until \in Days \cup {NotFilled}
      BY <1>0, <1>00
    <3>2. /\ clean' \in BOOLEAN /\ filledUntil' = req[a].until
          /\ UNCHANGED <<today, profile, charts, slots>>
      BY <1>00, <2>1, <3>1 DEF RecordRange
    <3> QED BY <1>00, <3>1, <3>2 DEF StateTypes
  <2>2. CASE WipeSettings(a) \/ Lose(a)
    BY <1>0, <1>00, <2>2 DEF StateTypes, WipeSettings, Wiped, Lose, Fails
  <2>3. CASE StoreChart(a) /\ UNCHANGED windowVars
    BY <1>0, <1>00, <2>3 DEF StateTypes, StoreChart, windowVars, Shape, Bare, At
  <2> QED BY <1>6, <2>1, <2>2, <2>3
<1>7. CASE EditProfile(a)
  <2>0. req[a].hash \in Profiles
    BY <1>0, <1>7 DEF EditProfile, Upsert, At, Shape, Bare
  <2>1. UNCHANGED <<today, charts, filledUntil, slots>> /\ clean' \in BOOLEAN
    BY <1>00, <1>7 DEF EditProfile, Upsert
  <2>2. profile' \in [hash : Hashes, level : 0..MaxLevel, until : {profile'.until}]
    BY <1>00, <1>7, <2>0 DEF EditProfile, Upsert, Hashes
  <2> QED BY <1>00, <2>1, <2>2 DEF StateTypes
<1> QED BY <1>1, <1>2, <1>3, <1>4, <1>5, <1>6, <1>7 DEF ServeStep, Serve

\* The type invariant is inductive.
LEMMA Typed == TypeInv /\ [WindowNext]_stateVars => TypeInv'
<1> SUFFICES ASSUME TypeInv, [WindowNext]_stateVars PROVE TypeInv'
  OBVIOUS
<1>0. /\ Shapes /\ StateTypes /\ LoneIsAlone
      /\ today \in 0..MaxDay /\ MaxDay \in Nat /\ req = [a \in Actors |-> req[a]]
      /\ \A a \in Actors : Shape(req[a]) /\ IsRequest(req[a]) /\ req[a].since \in Nat /\ req[a].since <= today
  BY ProfileAssumption DEF TypeInv, Shapes, StateTypes, Shape, Bare, IsRequest
<1>1. CASE UNCHANGED stateVars
  BY <1>0, <1>1 DEF TypeInv, Shapes, StateTypes, LoneIsAlone, Lone, InFlight, At, stateVars, profileVars, windowVars
<1>2. CASE SaveSettings
  BY <1>0, <1>2 DEF SaveSettings, TypeInv, Shapes, StateTypes, LoneIsAlone, Lone, InFlight, At
<1>3. CASE NextDay /\ UNCHANGED <<filledUntil, slots, clean>>
  <2>1. today' = today + 1 /\ today < MaxDay /\ UNCHANGED <<profile, charts, req>>
    BY <1>3 DEF NextDay
  <2>2. Shapes'
    BY <1>0, <2>1 DEF Shapes
  <2>3. StateTypes' /\ LoneIsAlone'
    BY <1>0, <1>3, <2>1 DEF StateTypes, LoneIsAlone, Lone, InFlight, At
  <2> QED BY <2>2, <2>3 DEF TypeInv
<1>4. ASSUME NEW a \in Actors, BeginStep(a) PROVE TypeInv'
  <2>1. /\ ~InFlight(a) /\ UNCHANGED <<today, charts, slots, filledUntil, planned>>
        /\ \E q : Begun(a, q) /\ Shape(q) /\ BeginKind(a, q) /\ ~q.rebuild /\ q.since <= today
    BY <1>4, BeginForms
  <2>2. PICK q : Begun(a, q) /\ Shape(q) /\ BeginKind(a, q) /\ ~q.rebuild /\ q.since <= today
    BY <2>1
  <2>3. StateTypes'
    BY <1>0, <2>1, <2>2 DEF BeginKind, StateTypes, Hashes, Requests
  <2>4. PICK alone \in BOOLEAN : /\ req'[a] = [q EXCEPT !.alone = alone]
                                 /\ alone <=> \A b \in Actors \ {a} : ~InFlight(b)
    BY <2>2 DEF Begun
  <2>5. q.stage # "idle" /\ IsRequest(q)
    BY <2>2 DEF BeginKind, Shape, Bare
  <2>6. Shape(req'[a]) /\ req'[a].since <= today' /\ req'[a].alone = alone /\ req'[a].stage = q.stage
    BY <2>1, <2>2, <2>4, <2>5 DEF Shape, Bare, Generating, IsRequest, Resetting, Rebuilding
  <2>7. ASSUME NEW b \in Actors \ {a}
        PROVE  /\ Shape(req'[b]) /\ req'[b].since <= today' /\ ~Lone(b)' /\ req'[b].stage = req[b].stage
    <3>1. CASE ~InFlight(b) /\ req'[b] = Idle
      <4>1. Idle.since = 0
        BY DEF Idle
      <4>2. ~InFlight(b)'
        BY <3>1, IdleShape DEF InFlight, At
      <4> QED BY <1>0, <2>1, <3>1, <4>1, <4>2, IdleShape DEF InFlight, At, Lone
    <3>2. CASE InFlight(b) /\ req'[b] = [req[b] EXCEPT !.alone = FALSE]
      <4>1. /\ IsRequest(req'[b]) /\ req'[b].alone = FALSE /\ req'[b].stage = req[b].stage
            /\ req'[b].hash = req[b].hash /\ req'[b].kind = req[b].kind
            /\ req'[b].rebuild = req[b].rebuild /\ req'[b].since = req[b].since
            /\ req'[b].left = req[b].left /\ req'[b].found = req[b].found
        BY <1>0, <3>2 DEF IsRequest
      <4>2. req[b].stage # "idle"
        BY <3>2 DEF InFlight, At
      <4> QED BY <1>0, <2>1, <4>1, <4>2 DEF Shape, Bare, Generating, Resetting, Rebuilding, Lone
    <3> QED BY <2>2, <3>1, <3>2 DEF Begun
  <2>8. a = Worker => q.stage \in WorkerStages
    BY <2>2 DEF BeginKind, WorkerStages, Requests
  <2>9. Shapes'
    BY <1>0, <2>2, <2>6, <2>7, <2>8, ProfileAssumption DEF Shapes, Begun
  <2>10. LoneIsAlone'
    BY <2>4, <2>6, <2>7 DEF LoneIsAlone, Lone, InFlight, At
  <2> QED BY <2>3, <2>9, <2>10 DEF TypeInv
<1>5. ASSUME NEW a \in Actors, ServeStep(a) PROVE TypeInv'
  <2>1. Acted(a) /\ InFlight(a) /\ UNCHANGED today
    BY <1>5, ServeForms
  <2>2. Shapes'
    BY <1>0, <2>1, ProfileAssumption DEF Acted, Shapes
  <2>3. LoneIsAlone'
    BY <1>0, <2>1 DEF Acted, LoneIsAlone, Lone, InFlight, At
  <2>4. StateTypes'
    BY <1>5, ServeTypes
  <2> QED BY <2>2, <2>3, <2>4 DEF TypeInv
<1> QED BY <1>1, <1>2, <1>3, <1>4, <1>5, StepForms
-----------------------------------------------------------------------------
(* What a step of a request does to the window, its request seen field by  *)
(* field: q is the request after the step.                                 *)

\* A request that has nothing to do with the window any more, and one that goes on with
\* the range it has.
Quits(q) == q.stage \in {"idle", "fetch"} /\ ~Generating(q)
KeepsRange(r, q) ==
  q.hash = r.hash /\ q.rebuild = r.rebuild /\ q.from = r.from /\ q.until = r.until

\* GET and pass: what is past is deleted; then the request ends, reads the settings, or
\* refills behind the day it goes by.
Expired(r, q) ==
  /\ r.stage = "expire" /\ UNCHANGED <<profile, filledUntil, planned, clean>>
  /\ \E day \in r.since .. today :
       /\ slots' = FutureOf(day)
       /\ \/ Quits(q)
          \/ q.stage = "settings" /\ q.since = day /\ r.until = NotFilled
          \/ /\ q.stage = "natal" /\ ~q.rebuild
             /\ r.until # NotFilled /\ r.until - day <= Threshold
             /\ q.from = r.until + 1 /\ q.until = r.until + RefillDays

\* The settings are read; a window that is not there is built anew.
SettingsRead(r, q) ==
  /\ r.stage = "settings" /\ UNCHANGED <<profile, filledUntil, planned, slots, clean>>
  /\ Quits(q) \/ (q.stage = "clear" /\ q.since = r.since)

\* A rebuild deletes every slot and works on the days of a whole horizon.
Cleared(r, q) ==
  /\ r.stage = "clear" /\ slots' = {} /\ planned' = {} /\ clean' = (clean /\ r.alone)
  /\ UNCHANGED <<profile, filledUntil>>
  /\ q.stage = "natal" /\ q.rebuild /\ q.from = r.since /\ q.until = r.since + Horizon - 1

\* A slot of a selected day is stored, unless it was there.
Written(a, r, q) ==
  /\ r.stage = "write" /\ r.left # {} /\ UNCHANGED <<profile, filledUntil, planned, clean>>
  /\ slots' \subseteq slots \cup {Slot(r.hash, Earliest(r.left))}
  /\ q.stage \in {"write", "polish", "record"} /\ KeepsRange(r, q)
  /\ q.stage = "polish" => a = Worker

\* The explanation of a slot is rewritten, from the profile the request has or from that of
\* the moment.
Polished(a, r, q) ==
  /\ r.stage = "polish" /\ UNCHANGED <<profile, filledUntil, planned, clean>>
  /\ \A s \in slots' : s \in slots \/ \E t \in slots, h \in {r.hash, profile.hash} \ {NoProfile} : s = [t EXCEPT !.told = h]
  /\ \/ q.stage = "idle" /\ a # Worker
     \/ /\ q.stage \in {"polish", "record"} /\ KeepsRange(r, q)
        /\ q.stage = "record" => a = Worker

\* The settings record the end of the range.
Recorded(a, r, q) ==
  /\ r.stage = "record" /\ UNCHANGED <<profile, slots>>
  /\ filledUntil' = r.until /\ planned' = planned \cup (r.from .. r.until)
  /\ clean' = (clean \/ (r.rebuild /\ r.alone))
  /\ \/ q.stage = "idle"
     \/ q.stage = "fetch" /\ a # Worker /\ ~q.rebuild /\ q.hash = r.hash

\* The coming slots are read, to be answered or polished.
Fetched(a, r, q) ==
  /\ r.stage = "fetch" /\ slots' = FutureOf(today)
  /\ UNCHANGED <<profile, filledUntil, planned, clean>>
  /\ \/ q.stage = "idle"
     \/ q.stage = "polish" /\ r.found # {} /\ a # Worker /\ KeepsRange(r, q)

\* A PUT stores its profile, and goes on to the reset if that is another one.
Upserted(r, q) ==
  /\ r.stage = "upsert" /\ UNCHANGED <<filledUntil, planned, slots>>
  /\ profile'.hash = r.hash /\ r.hash \in Profiles
  /\ clean' = (clean /\ (r.alone \/ profile.hash \in {NoProfile, r.hash}))
  /\ (q.stage = "idle" /\ r.was \in {NoProfile, r.hash}) \/ q.stage = "reset"

\* The reset takes the day of the clock, then deletes slots and settings in any order.
ResetRead(r, q) ==
  /\ r.stage = "reset" /\ UNCHANGED <<profile, filledUntil, planned, slots, clean>>
  /\ q.stage = "wipe" /\ q.since = today

SlotsWiped(r, q) ==
  /\ r.stage \in {"wipe", "wipeSlots"} /\ UNCHANGED <<profile, filledUntil>>
  /\ slots' = slots \ FutureOf(r.since) /\ planned' = {d \in planned : d < r.since}
  /\ clean' = (r.alone /\ (clean \/ r.stage # "wipe"))
  /\ q.stage = IF r.stage = "wipe" THEN "wipeSettings" ELSE "idle"

SettingsWiped(r, q) ==
  /\ r.stage \in {"wipe", "wipeSettings"} /\ UNCHANGED <<profile, slots, planned>>
  /\ filledUntil' = NotFilled
  /\ clean' = (r.alone /\ (clean \/ r.stage # "wipe"))
  /\ q.stage = IF r.stage = "wipe" THEN "wipeSlots" ELSE "idle"

\* A request that ends or dies; the window counts as disturbed if it was emptying it or
\* building it.
Ended(r, q) ==
  /\ UNCHANGED <<profile, filledUntil, planned, slots>> /\ q.stage = "idle"
  /\ clean' => clean /\ ~r.rebuild /\ ~Resetting(r)

\* What a step of a request may do.
EffectOf(a, r, q) ==
  \/ Expired(r, q)
  \/ SettingsRead(r, q)
  \/ Cleared(r, q)
  \/ Generated(a)
  \/ Written(a, r, q)
  \/ Polished(a, r, q)
  \/ Recorded(a, r, q)
  \/ Fetched(a, r, q)
  \/ Upserted(r, q)
  \/ ResetRead(r, q)
  \/ SlotsWiped(r, q)
  \/ SettingsWiped(r, q)
  \/ Ended(r, q)

\* Every step of a request does one of these.
LEMMA ServeEffects ==
  ASSUME TypeInv, NEW a \in Actors, ServeStep(a)
  PROVE  EffectOf(a, req[a], req'[a])
<1>0. /\ today \in Nat /\ clean \in BOOLEAN /\ slots \subseteq Slots
      /\ profile \in [hash : Hashes, level : 0..MaxLevel, until : {profile.until}]
      /\ req = [b \in Actors |-> req[b]]
      /\ Shape(req[a]) /\ IsRequest(req[a]) /\ req[a].alone \in BOOLEAN
      /\ req[a].since <= today
      /\ a = Worker => req[a].stage \in WorkerStages
  BY ProfileAssumption DEF TypeInv, StateTypes, Shapes, Shape, Bare, IsRequest
<1>1. /\ Idle.stage = "idle" /\ Idle.found = {} /\ ~Idle.rebuild
      /\ [Idle EXCEPT !.kind = "plan", !.stage = "fetch"].stage = "fetch"
      /\ [Idle EXCEPT !.kind = "plan", !.stage = "fetch"].found = {}
  BY DEF Idle
<1>s. Stops(a) => Quits(req'[a])
  BY <1>0, <1>1 DEF Stops, Quits, Generating
<1>2. CASE Expire(a)
  <2>1. /\ req[a].stage = "expire"
        /\ UNCHANGED <<profile, filledUntil, planned, clean>> /\ ~req[a].rebuild
    BY <1>0, <1>2 DEF Expire, At, Shape, Bare, Rebuilding
  <2>2. PICK day \in DaysOf(a) : ExpiresBy(a, day)
    BY <1>2 DEF Expire, ExpiresBy
  <2>3. day \in req[a].since .. today /\ day \in Nat
    BY <1>0, <2>2 DEF DaysOf, IsRequest
  <2>4. req' = [req EXCEPT ![a].stage = "settings", ![a].since = day]
          => req'[a].stage = "settings" /\ req'[a].since = day
    BY <1>0 DEF IsRequest
  <2>5. req' = [req EXCEPT ![a].stage = "natal", ![a].since = 0,
                  ![a].from = req[a].until + 1, ![a].until = req[a].until + RefillDays]
          => /\ req'[a].stage = "natal" /\ req'[a].rebuild = req[a].rebuild
             /\ req'[a].from = req[a].until + 1 /\ req'[a].until = req[a].until + RefillDays
    BY <1>0 DEF IsRequest
  <2>6. (req[a].until # NotFilled => req[a].until - day \in Int) /\ Threshold \in Nat
    BY <1>0, <2>3, DaysType, WindowAssumption DEF IsRequest
  <2>7. /\ slots' = FutureOf(day)
        /\ \/ req' = [req EXCEPT ![a].stage = "settings", ![a].since = day] /\ req[a].until = NotFilled
           \/ Stops(a)
           \/ /\ req[a].until # NotFilled /\ req[a].until - day <= Threshold
              /\ req' = [req EXCEPT ![a].stage = "natal", ![a].since = 0,
                           ![a].from = req[a].until + 1, ![a].until = req[a].until + RefillDays]
    BY <2>2, <2>6 DEF ExpiresBy
  <2> QED BY <1>s, <2>1, <2>3, <2>4, <2>5, <2>7 DEF Expired, EffectOf
<1>3. CASE ReadSettings(a)
  <2>1. GoesOn(a, "clear") => req'[a].stage = "clear" /\ req'[a].since = req[a].since
    BY <1>0 DEF GoesOn, IsRequest
  <2> QED BY <1>s, <1>3, <2>1 DEF ReadSettings, At, SettingsRead, EffectOf, windowVars
<1>4. CASE Clear(a)
  BY <1>0, <1>4 DEF Clear, At, IsRequest, Cleared, EffectOf
<1>5. CASE ReadNatal(a) \/ Transit(a) \/ TransitFails(a)
  BY <1>5, GenerateForm DEF EffectOf
<1>6. CASE WriteSlot(a)
  BY <1>0, <1>6 DEF WriteSlot, At, IsRequest, Written, EffectOf, KeepsRange, Shape
<1>7. CASE Polish(a)
  BY <1>0, <1>1, <1>7 DEF Polish, At, Ends, IsRequest, Polished, EffectOf, KeepsRange
<1>8. CASE RecordRange(a)
  <2>1. /\ req[a].stage = "record" /\ UNCHANGED <<profile, slots>>
        /\ filledUntil' = req[a].until /\ planned' = planned \cup (req[a].from .. req[a].until)
        /\ clean' = (clean \/ (req[a].rebuild /\ req[a].alone))
    BY <1>8 DEF RecordRange, At
  <2>2. CASE a = Worker
    BY <1>0, <1>1, <1>8, <2>1, <2>2 DEF RecordRange, Ends, Recorded, EffectOf
  <2>3. CASE a # Worker
    <3> DEFINE q == [Idle EXCEPT !.kind = "plan", !.stage = "fetch", !.hash = req[a].hash, !.found = req[a].found]
    <3>1. q.stage = "fetch" /\ ~q.rebuild /\ q.hash = req[a].hash
      BY DEF Idle
    <3>2. req'[a] = q
      BY <1>0, <1>8, <2>3 DEF RecordRange
    <3> HIDE DEF q
    <3> QED BY <2>1, <2>3, <3>1, <3>2 DEF Recorded, EffectOf
  <2> QED BY <2>2, <2>3
<1>9. CASE Fetch(a)
  <2>1. a # Worker /\ req[a].stage = "fetch"
    BY <1>0, <1>9 DEF Fetch, At, WorkerStages
  <2> QED BY <1>0, <1>1, <1>9, <2>1 DEF Fetch, Ends, IsRequest, Fetched, EffectOf, KeepsRange
<1>10. CASE EditProfile(a)
  BY <1>0, <1>1, <1>10 DEF EditProfile, Upsert, EditResets, At, IsRequest, Upserted, EffectOf, Shape, Bare, Idle
<1>11. CASE ReadReset(a)
  BY <1>0, <1>11 DEF ReadReset, At, IsRequest, ResetRead, EffectOf, windowVars
<1>12. CASE WipeSlots(a)
  BY <1>0, <1>1, <1>12 DEF WipeSlots, Wiped, GoesOn, Ends, At, IsRequest, SlotsWiped, EffectOf
<1>13. CASE WipeSettings(a)
  BY <1>0, <1>1, <1>13 DEF WipeSettings, Wiped, GoesOn, Ends, At, IsRequest, SettingsWiped, EffectOf
<1>14. CASE StoreChart(a) /\ UNCHANGED windowVars
  BY <1>0, <1>1, <1>14 DEF StoreChart, Ends, At, Ended, EffectOf, Shape, Bare, Rebuilding, Resetting, windowVars
<1>15. CASE Lose(a)
  <2>1. req'[a] = Idle /\ UNCHANGED <<profile, filledUntil, planned, slots>>
    BY <1>0, <1>15 DEF Lose, Fails, Ends
  <2>2. clean' = (clean /\ ~req[a].rebuild /\ (req[a].kind = "put" => req[a].stage = "upsert"))
    BY <1>15 DEF Lose, At
  <2>3. Resetting(req[a]) => req[a].kind = "put" /\ req[a].stage # "upsert"
    BY <1>0 DEF Shape, Bare, Resetting
  <2> QED BY <1>0, <1>1, <2>1, <2>2, <2>3 DEF Ended, EffectOf
<1> QED BY <1>2, <1>3, <1>4, <1>5, <1>6, <1>7, <1>8, <1>9, <1>10, <1>11, <1>12, <1>13, <1>14, <1>15
         DEF ServeStep, Serve

-----------------------------------------------------------------------------
(* Slots follow the profile.                                               *)

\* A slot of the profile, in its time and in its words; a window nothing disturbed that
\* no PUT is emptying.
Follows(s) == s.of = profile.hash /\ s.told = profile.hash
Undisturbed == clean /\ \A a \in Actors : ~Resetting(req[a])

\* What a request relies on while it is under way.
Relies(a) ==
  /\ req[a].alone /\ req[a].stage = "upsert" => req[a].was = profile.hash
  /\ (clean \/ Lone(a)) /\ Generating(req[a]) => req[a].hash = profile.hash
  /\ Lone(a) /\ Rebuilding(req[a]) => \A s \in slots : Follows(s)
  /\ Lone(a) /\ req[a].stage = "wipeSettings" => \A s \in slots : s.day < today

\* Before there is a profile there is nothing of it.
NoneOfNobody ==
  profile.hash = NoProfile => slots = {} /\ \A a \in Actors : ~Generating(req[a])
\* SlotsFollowProfile, also while requests are under way.
ComingFollow == Undisturbed => \A s \in slots : s.day >= today => Follows(s)

\* The inductive invariant.
Followed == NoneOfNobody /\ ComingFollow /\ \A a \in Actors : Relies(a)

\* It holds at the start, and is kept by a request that begins.
LEMMA FollowedInit == WindowInit => Followed
<1> SUFFICES ASSUME WindowInit PROVE Followed
  OBVIOUS
<1>1. \A a \in Actors : req[a].stage = "idle" /\ req[a].found = {}
  BY IdleIs DEF WindowInit, ProfileInit
<1> QED BY <1>1 DEF WindowInit, Followed, NoneOfNobody, ComingFollow, Relies, Lone, InFlight, At, Generating

LEMMA FollowedBegin ==
  ASSUME TypeInv, Followed, NEW a \in Actors, BeginStep(a)
  PROVE  Followed'
<1>1. /\ ~InFlight(a) /\ UNCHANGED <<today, charts, slots, filledUntil, planned>>
      /\ \E q : Begun(a, q) /\ Shape(q) /\ BeginKind(a, q) /\ ~q.rebuild /\ q.since <= today
  BY BeginForms
<1>2. PICK q : Begun(a, q) /\ Shape(q) /\ BeginKind(a, q) /\ ~q.rebuild
  BY <1>1
<1>3. profile \in [hash : Hashes, level : 0..MaxLevel, until : {profile.until}] /\ clean \in BOOLEAN
  BY DEF TypeInv, StateTypes
<1>4. /\ clean' => clean /\ (profile'.hash = profile.hash \/ profile.hash = NoProfile)
      /\ profile'.hash = NoProfile => profile.hash = NoProfile
  <2>1. CASE UNCHANGED <<profile, clean>>
    BY <2>1
  <2>2. CASE /\ q.hash \in Profiles /\ profile' = [profile EXCEPT !.hash = q.hash]
             /\ clean' = (clean /\ profile.hash \in {NoProfile, q.hash})
    <3>1. profile'.hash = q.hash /\ q.hash # NoProfile
      BY <1>3, <2>2, ProfileAssumption
    <3> QED BY <2>2, <3>1
  <2> QED BY <1>2, <2>1, <2>2 DEF BeginKind
<1>5. /\ req'[a].stage = q.stage /\ ~req'[a].rebuild /\ ~Generating(req'[a])
      /\ ~Resetting(req'[a])
      /\ req'[a].stage = "upsert" => req'[a].was = profile'.hash
  BY <1>2 DEF Begun, BeginKind, IsRequest, Generating, Resetting
<1>6. ASSUME NEW b \in Actors \ {a}
      PROVE  /\ ~(Lone(b)') /\ (Generating(req'[b]) <=> Generating(req[b])) /\ req'[b].hash = req[b].hash
             /\ req'[b].stage = req[b].stage
             /\ req'[b].stage = "idle" \/ req'[b].alone = FALSE
  <2>0. Shape(req[b]) /\ IsRequest(req[b])
    BY DEF TypeInv, Shapes, Shape, Bare
  <2>1. CASE ~InFlight(b) /\ req'[b] = Idle
    <3>1. req[b] = Idle
      BY <2>0, <2>1 DEF Shape, Bare, InFlight, At
    <3> QED BY <2>1, <3>1, IdleIs DEF Lone, InFlight, At
  <2>2. CASE InFlight(b) /\ req'[b] = [req[b] EXCEPT !.alone = FALSE]
    BY <2>0, <2>2 DEF IsRequest, Lone, Generating
  <2> QED BY <1>2, <2>1, <2>2 DEF Begun
<1>7. ASSUME NEW b \in Actors PROVE Relies(b)'
  <2>1. CASE b = a
    BY <1>5, <2>1 DEF Relies, Rebuilding, Resetting
  <2>2. CASE b # a
    <3>1. b \in Actors \ {a} /\ ((clean \/ Lone(b)) /\ Generating(req[b]) => req[b].hash = profile.hash)
          /\ (profile.hash = NoProfile => ~Generating(req[b]))
      BY <2>2 DEF Followed, Relies, NoneOfNobody
    <3> QED BY <1>4, <1>6, <3>1 DEF Relies
  <2> QED BY <2>1, <2>2
<1>8. NoneOfNobody'
  BY <1>1, <1>4, <1>5, <1>6 DEF Followed, NoneOfNobody
<1>9. ComingFollow'
  <2>1. Undisturbed' => Undisturbed
    BY <1>1, <1>4, <1>6 DEF Undisturbed, Resetting, InFlight, At
  <2> QED BY <1>1, <1>4, <2>1 DEF Followed, ComingFollow, NoneOfNobody, Undisturbed, Follows
<1> QED BY <1>7, <1>8, <1>9 DEF Followed

\* A request that is alone meets nobody, and one that is not leaves the others what
\* they rely on.
LEMMA OthersRely ==
  ASSUME TypeInv, Followed, NEW a \in Actors, InFlight(a), Acted(a),
         clean' => \/ Lone(a)
                   \/ clean /\ (profile'.hash = profile.hash \/ profile.hash = NoProfile),
         NEW b \in Actors \ {a}
  PROVE  Relies(b)' /\ (clean' => ~Generating(req[b]) \/ (clean /\ profile'.hash = profile.hash))
<1>1. req'[b] = req[b] /\ ~Lone(b) /\ ~(Lone(b)') /\ IsRequest(req[b])
  BY DEF Acted, TypeInv, LoneIsAlone, Shapes, Shape, Bare, Lone, InFlight, At
<1>2. req[b].stage = "upsert" => ~req[b].alone
  BY <1>1 DEF Lone, InFlight, At
<1>3. Lone(a) => ~Generating(req[b])
  BY DEF TypeInv, LoneIsAlone, InFlight, At, Generating
<1>4. /\ clean /\ Generating(req[b]) => req[b].hash = profile.hash
      /\ profile.hash = NoProfile => ~Generating(req[b])
  BY DEF Followed, Relies, NoneOfNobody
<1> QED BY <1>1, <1>2, <1>3, <1>4 DEF Relies

\* It is kept by every step of a request, effect by effect, and so by every step.
LEMMA FollowedServe ==
  ASSUME TypeInv, Followed, NEW a \in Actors, ServeStep(a)
  PROVE  Followed'
<1> DEFINE r == req[a]
           q == req'[a]
<1>1. /\ Acted(a) /\ InFlight(a) /\ today' = today /\ EffectOf(a, r, q)
      /\ Shape(r) /\ Shape(q) /\ IsRequest(r) /\ IsRequest(q) /\ r.since <= today
      /\ clean \in BOOLEAN /\ today \in Nat /\ slots \subseteq Slots /\ charts \subseteq Profiles
      /\ profile.hash \in Hashes
      /\ r.alone \in BOOLEAN
  BY ServeForms, ServeEffects, ProfileAssumption DEF Acted, TypeInv, Shapes, StateTypes, Shape, Bare, IsRequest
<1>2. /\ r.stage # "idle" /\ (Lone(a)' => Lone(a)) /\ q.stage # "upsert"
      /\ \A b \in Actors \ {a} : req'[b] = req[b]
  <2>1. q.stage # "upsert"
    BY <1>1, IdleIs DEF EffectOf, Expired, SettingsRead, Cleared, Generated, Written, Polished, Recorded,
                Fetched, Upserted, ResetRead, SlotsWiped, SettingsWiped, Ended, Quits
  <2> QED BY <1>1, <2>1 DEF Acted, InFlight, At
<1>3. /\ r.alone /\ r.stage = "upsert" => r.was = profile.hash
      /\ (clean \/ Lone(a)) /\ Generating(r) => r.hash = profile.hash
      /\ Lone(a) /\ Rebuilding(r) => \A s \in slots : Follows(s)
      /\ Lone(a) /\ r.stage = "wipeSettings" => \A s \in slots : s.day < today
      /\ profile.hash = NoProfile => slots = {} /\ ~Generating(r)
      /\ Undisturbed => \A s \in slots : s.day >= today => Follows(s)
  BY DEF Followed, Relies, NoneOfNobody, ComingFollow
<1>4. r.alone /\ (a = Worker \/ r.stage \notin {"fetch", "polish"}) => Lone(a)
  BY <1>2 DEF Lone, InFlight, At
<1>5. /\ Undisturbed => clean /\ ~Resetting(r)
      /\ Undisturbed' => clean' /\ ~Resetting(q)
      /\ Undisturbed' /\ clean /\ ~Resetting(r) => Undisturbed
  BY <1>2 DEF Undisturbed
<1> DEFINE Kept ==
      /\ clean' => \/ Lone(a)
                   \/ clean /\ (profile'.hash = profile.hash \/ profile.hash = NoProfile)
      /\ (clean' \/ Lone(a)') /\ Generating(q) => q.hash = profile'.hash
      /\ Lone(a)' /\ Rebuilding(q) => \A s \in slots' : Follows(s)'
      /\ Lone(a)' /\ q.stage = "wipeSettings" => \A s \in slots' : s.day < today
      /\ profile'.hash = NoProfile => profile.hash = NoProfile /\ slots' = {} /\ ~Generating(q)
      /\ Undisturbed' => \A s \in slots' : s.day >= today => Follows(s)'
<1>k. ASSUME Kept PROVE Followed'
  <2>1. \A b \in Actors \ {a} : Relies(b)'
    BY <1>1, <1>k, OthersRely
  <2>2. Relies(a)'
    BY <1>1, <1>2, <1>k DEF Relies
  <2>3. NoneOfNobody'
    BY <1>2, <1>k DEF Followed, NoneOfNobody
  <2>4. ComingFollow'
    BY <1>1, <1>k DEF ComingFollow
  <2> QED BY <2>1, <2>2, <2>3, <2>4 DEF Followed
<1> HIDE DEF r, q
\* Steps that delete slots or leave them.
<1>6. CASE Expired(r, q) \/ SettingsRead(r, q) \/ Cleared(r, q) \/ Fetched(a, r, q) \/ ResetRead(r, q) \/ Ended(r, q)
  <2>1. /\ slots' \subseteq slots /\ UNCHANGED profile
        /\ clean' => clean
        /\ Rebuilding(q) => slots' = {}
        /\ q.stage # "wipeSettings"
        /\ Generating(q) => Generating(r) /\ q.hash = r.hash
        /\ Undisturbed' => Undisturbed
    <3>1. CASE Expired(r, q)
      BY <1>5, <3>1 DEF Expired, FutureOf, Quits, Generating, Rebuilding, Resetting
    <3>2. CASE SettingsRead(r, q)
      BY <1>5, <3>2 DEF SettingsRead, Quits, Generating, Rebuilding, Resetting
    <3>3. CASE Cleared(r, q)
      BY <1>1, <1>5, <3>3 DEF Cleared, Generating, Rebuilding, Resetting
    <3>4. CASE Fetched(a, r, q)
      <4>1. ~r.rebuild
        BY <1>1, <3>4 DEF Fetched, Shape, Bare, Rebuilding
      <4> QED BY <1>5, <3>4, <4>1 DEF Fetched, FutureOf, Generating, Rebuilding, Resetting, KeepsRange
    <3>5. CASE ResetRead(r, q)
      BY <1>5, <3>5 DEF ResetRead, Generating, Rebuilding, Resetting
    <3>6. CASE Ended(r, q)
      BY <1>5, <3>6 DEF Ended, Generating, Rebuilding, Resetting
    <3> QED BY <1>6, <3>1, <3>2, <3>3, <3>4, <3>5, <3>6
  <2>2. \A s : Follows(s)' <=> Follows(s)
    BY <2>1 DEF Follows
  <2>3. Kept
    BY <1>2, <1>3, <2>1, <2>2
  <2> HIDE DEF Kept
  <2> QED BY <1>k, <2>3
<1>7. CASE Generated(a)
  <2>1. /\ UNCHANGED <<profile, slots>> /\ (clean' => clean)
        /\ r.stage \in {"natal", "transit"} /\ ~Resetting(r)
    <3>1. /\ UNCHANGED <<profile, slots>> /\ r.stage \in {"natal", "transit"}
          /\ \/ clean' = (clean /\ ~r.rebuild)
             \/ clean' = clean
      BY <1>7 DEF Generated, r
    <3> QED BY <1>1, <3>1 DEF Resetting
  <2>2. \A s : Follows(s)' <=> Follows(s)
    BY <2>1 DEF Follows
  <2>3. \/ q = Idle
        \/ /\ q.stage \in {"transit", "write", "record"} /\ q.rebuild = r.rebuild
           /\ q.hash = IF r.stage = "natal" THEN profile.hash ELSE r.hash
    BY <1>7 DEF Generated, r, q
  <2>4. /\ Rebuilding(q) => Rebuilding(r)
        /\ Generating(q) => q.hash = profile.hash \/ (q.hash = r.hash /\ Generating(r))
        /\ q.stage # "wipeSettings" /\ ~Resetting(q)
    BY <2>1, <2>3, IdleIs DEF Rebuilding, Generating, Resetting
  <2>5. Generating(q) => q.hash # NoProfile
    BY <1>1, ProfileAssumption DEF Shape, Bare
  <2>6. profile.hash = NoProfile => ~Generating(q)
    BY <1>3, <2>4, <2>5
  <2>7. Kept
    BY <1>2, <1>3, <1>5, <2>1, <2>2, <2>4, <2>6
  <2> HIDE DEF Kept
  <2> QED BY <1>k, <2>7
\* Steps that write slots or explain them.
<1>8. CASE Written(a, r, q) \/ Polished(a, r, q)
  <2>1. /\ UNCHANGED <<profile, clean>> /\ Generating(r) /\ ~Resetting(r) /\ ~Resetting(q)
        /\ q.stage # "wipeSettings"
        /\ Generating(q) => q.hash = r.hash
        /\ Rebuilding(q) => Rebuilding(r)
    BY <1>8 DEF Written, Polished, Generating, Rebuilding, Resetting, KeepsRange
  <2>2. \A s : Follows(s)' <=> Follows(s)
    BY <2>1 DEF Follows
  <2>3. ASSUME r.hash = profile.hash, NEW s \in slots'
        PROVE  Follows(s) \/ (s \in slots) \/ \E t \in slots : s.day = t.day /\ (Follows(t) => Follows(s))
    <3>1. CASE Written(a, r, q)
      <4>1. CASE s = Slot(r.hash, Earliest(r.left))
        <5>1. s.of = r.hash /\ s.told = r.hash
          BY <4>1 DEF Slot
        <5> QED BY <2>3, <5>1 DEF Follows
      <4> QED BY <2>3, <3>1, <4>1 DEF Written
    <3>2. CASE Polished(a, r, q)
      <4>1. CASE \E t \in slots, h \in {r.hash, profile.hash} \ {NoProfile} : s = [t EXCEPT !.told = h]
        <5>1. PICK t \in slots : s = [t EXCEPT !.told = r.hash]
          BY <2>3, <4>1
        <5>2. t \in Slots
          BY <1>1, <5>1
        <5>3. s.day = t.day /\ s.of = t.of /\ s.told = r.hash
          BY <5>1, <5>2 DEF Slots
        <5> QED BY <2>3, <5>1, <5>3 DEF Follows
      <4> QED BY <2>3, <3>2, <4>1 DEF Polished
    <3> QED BY <1>8, <3>1, <3>2
  <2>4. profile.hash # NoProfile
    BY <1>3, <2>1
  <2>5. Undisturbed' => Undisturbed
    BY <1>5, <2>1
  <2>6. ASSUME Lone(a)', Rebuilding(q), NEW s \in slots' PROVE Follows(s)
    BY <1>2, <1>3, <2>1, <2>3, <2>6
  <2>7. ASSUME Undisturbed', NEW s \in slots', s.day >= today PROVE Follows(s)
    <3>1. r.hash = profile.hash /\ \A t \in slots : t.day >= today => Follows(t)
      BY <1>3, <1>5, <2>1, <2>5, <2>7
    <3> QED BY <2>3, <2>7, <3>1
  <2>8. Kept
    BY <1>2, <1>3, <2>1, <2>2, <2>4, <2>6, <2>7
  <2> HIDE DEF Kept
  <2> QED BY <1>k, <2>8
<1>9. CASE Recorded(a, r, q)
  <2>1. /\ UNCHANGED <<profile, slots>> /\ Generating(r) /\ ~Resetting(r) /\ ~Resetting(q)
        /\ q.stage # "wipeSettings" /\ r.stage = "record"
        /\ Generating(q) => q.hash = r.hash
        /\ ~Rebuilding(q)
        /\ clean' => clean \/ (Lone(a) /\ Rebuilding(r))
    BY <1>1, <1>4, <1>9 DEF Recorded, Generating, Rebuilding, Resetting
  <2>2. \A s : Follows(s)' <=> Follows(s)
    BY <2>1 DEF Follows
  <2>3. profile.hash # NoProfile
    BY <1>3, <2>1
  <2>4. Undisturbed' => Undisturbed \/ (Lone(a) /\ Rebuilding(r))
    BY <1>5, <2>1
  <2>5. Kept
    BY <1>2, <1>3, <2>1, <2>2, <2>3, <2>4
  <2> HIDE DEF Kept
  <2> QED BY <1>k, <2>5
\* An edit that has the window to itself resets it or leaves the profile.
<1>10. CASE Upserted(r, q)
  <2>1. /\ UNCHANGED slots /\ profile'.hash = r.hash /\ r.hash # NoProfile
        /\ r.stage = "upsert" /\ ~Resetting(r) /\ ~Generating(q) /\ ~Rebuilding(q)
        /\ q.stage # "wipeSettings"
        /\ clean' => clean /\ (r.alone \/ profile.hash \in {NoProfile, r.hash})
        /\ q.stage = "reset" \/ r.was \in {NoProfile, r.hash}
    BY <1>10, ProfileAssumption DEF Upserted, Generating, Rebuilding, Resetting
  <2>2. Undisturbed' => Undisturbed /\ q.stage # "reset"
    BY <1>5, <2>1 DEF Resetting
  <2>3. Undisturbed' => profile'.hash = profile.hash \/ slots = {}
    BY <1>3, <1>5, <2>1, <2>2
  <2>4. profile'.hash = profile.hash => \A s : Follows(s)' <=> Follows(s)
    BY DEF Follows
  <2>5. Kept
    BY <1>3, <1>4, <2>1, <2>2, <2>3, <2>4
  <2> HIDE DEF Kept
  <2> QED BY <1>k, <2>5
<1>11. CASE SlotsWiped(r, q)
  <2>1. /\ UNCHANGED profile /\ slots' \subseteq slots /\ ~Generating(q) /\ ~Rebuilding(q) /\ Resetting(r)
        /\ r.stage \in {"wipe", "wipeSlots"} /\ (clean' => r.alone)
    BY <1>11 DEF SlotsWiped, Generating, Rebuilding, Resetting
  <2>2. \A s \in slots' : s.day < today
    <3>1. ASSUME NEW s \in slots' PROVE s.day < today
      <4>1. s \in Slots /\ ~(s.day >= r.since)
        BY <1>1, <1>11, <3>1 DEF SlotsWiped, FutureOf
      <4>2. s.day \in Nat /\ r.since \in Nat
        BY <1>1, <4>1, DaysType DEF Slots, IsRequest
      <4> QED BY <1>1, <4>1, <4>2
    <3> QED BY <3>1
  <2>3. \A s \in slots' : ~(s.day >= today)
    <3>1. \A s \in slots' : s.day \in Nat
      BY <1>1, <2>1, DaysType DEF Slots
    <3> QED BY <1>1, <2>2, <3>1
  <2>4. Kept
    BY <1>2, <1>3, <1>4, <2>1, <2>2, <2>3
  <2> HIDE DEF Kept
  <2> QED BY <1>k, <2>4
<1>12. CASE SettingsWiped(r, q)
  <2>1. /\ UNCHANGED <<profile, slots>> /\ ~Generating(q) /\ ~Rebuilding(q) /\ Resetting(r)
        /\ r.stage \in {"wipe", "wipeSettings"} /\ (clean' => r.alone)
        /\ q.stage # "wipeSettings" /\ (r.stage = "wipe" => Resetting(q))
    BY <1>12 DEF SettingsWiped, Generating, Rebuilding, Resetting
  <2>2. Undisturbed' => Lone(a) /\ r.stage = "wipeSettings"
    BY <1>4, <1>5, <2>1
  <2>3. (\A s \in slots : s.day < today) => \A s \in slots : ~(s.day >= today)
    <3>1. \A s \in slots : s.day \in Nat
      BY <1>1, DaysType DEF Slots
    <3> QED BY <1>1, <3>1
  <2>4. Kept
    BY <1>2, <1>3, <1>4, <2>1, <2>2, <2>3
  <2> HIDE DEF Kept
  <2> QED BY <1>k, <2>4
<1> QED BY <1>1, <1>6, <1>7, <1>8, <1>9, <1>10, <1>11, <1>12 DEF EffectOf

LEMMA FollowedStep == TypeInv /\ Followed /\ [WindowNext]_stateVars => Followed'
<1> SUFFICES ASSUME TypeInv, Followed, [WindowNext]_stateVars PROVE Followed'
  OBVIOUS
<1>0. /\ \A a \in Actors : Lone(a) /\ req[a].stage = "wipeSettings" => \A s \in slots : s.day < today
      /\ today \in Nat /\ \A s \in slots : s.day \in Nat
  BY ProfileAssumption, DaysType DEF Followed, Relies, TypeInv, StateTypes, Slots
<1>1. CASE UNCHANGED stateVars \/ SaveSettings
  <2>1. UNCHANGED <<today, profile, req, slots, clean>>
    BY <1>1 DEF SaveSettings, stateVars, profileVars, windowVars
  <2> QED BY <2>1 DEF Followed, NoneOfNobody, ComingFollow, Undisturbed, Relies, Follows, Lone, InFlight, At
<1>2. CASE NextDay /\ planned' = planned \ {today} /\ UNCHANGED <<enabled, filledUntil, slots, clean>>
  <2>1. /\ today' = today + 1 /\ UNCHANGED <<profile, req, slots, clean>>
        /\ \A s : Follows(s)' <=> Follows(s)
    BY <1>2 DEF NextDay, Follows
  <2>2. /\ \A s \in slots : s.day < today => s.day < today'
        /\ \A s \in slots : s.day >= today' => s.day >= today
    BY <1>0, <2>1
  <2>3. \A a \in Actors : Relies(a)'
    BY <1>0, <2>1, <2>2 DEF Followed, Relies, Lone, InFlight, At
  <2>4. NoneOfNobody' /\ ComingFollow'
    BY <2>1, <2>2 DEF Followed, NoneOfNobody, ComingFollow, Undisturbed
  <2> QED BY <2>3, <2>4 DEF Followed
<1>3. ASSUME NEW a \in Actors, BeginStep(a) \/ ServeStep(a) PROVE Followed'
  BY <1>3, FollowedBegin, FollowedServe
<1> QED BY <1>1, <1>2, <1>3, StepForms

\* The type invariant at the start.
LEMMA WindowTypeInit == WindowInit => TypeInv
<1> SUFFICES ASSUME WindowInit PROVE TypeInv
  OBVIOUS
<1>1. /\ today = 0 /\ req = [a \in Actors |-> Idle] /\ slots = {} /\ clean = TRUE /\ filledUntil = NotFilled
      /\ \E p \in Hashes : profile = [hash |-> p, level |-> 0, until |-> 0] /\ charts = {p} \ {NoProfile}
  BY DEF WindowInit, ProfileInit, Hashes
<1>2. StateTypes
  BY <1>1, ProfileAssumption DEF StateTypes, Hashes
<1>3. Shapes
  BY <1>1, IdleIs, IdleShape, ProfileAssumption DEF Shapes, WorkerStages
<1>4. LoneIsAlone
  BY <1>1, IdleIs DEF LoneIsAlone, InFlight, At
<1> QED BY <1>2, <1>3, <1>4 DEF TypeInv

\* The window is typed, and a request that is alone meets no other.
THEOREM WindowTypes == WindowSpec => []TypeInv
<1>1. WindowInit => TypeInv
  BY WindowTypeInit
<1>2. TypeInv /\ [WindowNext]_stateVars => TypeInv'
  BY Typed
<1> QED BY <1>1, <1>2, PTL DEF WindowSpec

\* The numbers of the window.
LEMMA WindowNumbers ==
  /\ Horizon \in Nat \ {0} /\ Threshold \in Nat /\ RefillDays \in Nat \ {0}
  /\ NotFilled = -1 /\ NotFilled \notin Nat
BY WindowAssumption DEF NotFilled

\* What the slots do not depend on: the settings, the bounds, the end of the edit lock and
\* the history of generated days.
Limits ==
  /\ locksOn \in BOOLEAN /\ edits \in 0..MaxEdits /\ faults \in 0..MaxFaults
  /\ enabled \in BOOLEAN /\ profile.until \in Nat
  /\ planned \subseteq Days

\* The length of a lock is a power of two, or the longest.  The provers know no powers;
\* this is all that is needed of them.
LockDaysAreNumbers == \A level \in 1..MaxLevel : LockDays(level) \in Nat

\* Every step keeps the limits.
LEMMA LimitsStep ==
  LockDaysAreNumbers /\ TypeInv /\ Limits /\ [WindowNext]_stateVars => Limits'
<1> SUFFICES ASSUME LockDaysAreNumbers, TypeInv, Limits, [WindowNext]_stateVars PROVE Limits'
  OBVIOUS
<1>1. /\ locksOn \in BOOLEAN /\ edits \in 0..MaxEdits /\ faults \in 0..MaxFaults
      /\ enabled \in BOOLEAN /\ planned \subseteq Days
      /\ profile.until \in Nat /\ {MaxEdits, MaxFaults, MaxLevel} \subseteq Nat
      /\ profile \in [hash : Hashes, level : 0..MaxLevel, until : {profile.until}]
  BY ProfileAssumption DEF Limits, TypeInv, StateTypes
<1>2. CASE \/ UNCHANGED stateVars \/ SaveSettings
            \/ (NextDay /\ planned' = planned \ {today} /\ UNCHANGED <<enabled, filledUntil, slots, clean>>)
  <2>1. CASE UNCHANGED stateVars
    BY <1>1, <2>1 DEF Limits, stateVars, profileVars, windowVars
  <2>2. CASE SaveSettings
    <3>1. UNCHANGED <<locksOn, faults, profile, planned>> /\ edits < MaxEdits /\ edits' = edits + 1
      BY <2>2 DEF SaveSettings
    <3>2. enabled' \in BOOLEAN
      BY <1>1, <2>2 DEF SaveSettings
    <3> QED BY <1>1, <3>1, <3>2 DEF Limits
  <2>3. CASE NextDay /\ planned' = planned \ {today} /\ UNCHANGED <<enabled, filledUntil, slots, clean>>
    <3>1. UNCHANGED <<locksOn, enabled, edits, faults, profile>> /\ planned' \subseteq planned
      BY <2>3 DEF NextDay
    <3> QED BY <1>1, <3>1 DEF Limits
  <2> QED BY <1>2, <2>1, <2>2, <2>3
<1>3. ASSUME NEW a \in Actors, BeginStep(a) PROVE Limits'
  <2>1. CASE \/ BeginPass \/ BeginPlan(a) \/ BeginFetch(a) \/ BeginRefresh(a)
             \/ (PostEmpty(a) /\ UNCHANGED windowVars)
    BY <1>1, <2>1 DEF Limits, BeginPass, BeginPlan, BeginFetch, BeginRefresh, PostEmpty, windowVars
  <2>2. ASSUME NEW h \in Profiles, ReadExisting(a, h), UNCHANGED windowVars PROVE Limits'
    BY <1>1, <2>2 DEF Limits, ReadExisting, windowVars
  <2>3. ASSUME NEW h \in Profiles, PostOther(a, h) PROVE Limits'
    BY <1>1, <2>3 DEF Limits, PostOther, PostProfile
  <2> QED BY <1>3, <2>1, <2>2, <2>3 DEF BeginStep
<1>4. ASSUME NEW a \in Actors, ServeStep(a) PROVE Limits'
  <2>0. planned' \subseteq Days
    <3>1. EffectOf(a, req[a], req'[a])
      BY <1>4, ServeEffects
    <3>2. Recorded(a, req[a], req'[a]) => planned' \subseteq Days
      <4>1. req[a].from \in Nat /\ req[a].until \in Days \cup {NotFilled}
        BY DEF TypeInv, Shapes, Shape, Bare, IsRequest
      <4>2. req[a].from .. req[a].until \subseteq Days
        BY <4>1, DaysType, WindowNumbers
      <4> QED BY <1>1, <4>2 DEF Recorded
    <3>3. Ended(req[a], req'[a]) \/ Generated(a) => planned' \subseteq Days
      BY <1>1 DEF Ended, Generated
    <3> QED BY <1>1, <3>1, <3>2, <3>3
         DEF EffectOf, Expired, SettingsRead, Cleared, Written, Polished, Fetched, Upserted, ResetRead, SlotsWiped,
           SettingsWiped
  <2>1. CASE EditProfile(a)
    <3>1. req[a].since \in Nat /\ req[a].level \in 0..MaxLevel
      BY DEF TypeInv, Shapes, Shape, Bare, IsRequest
    <3>2. req[a].level # NoLock => req[a].since + LockDays(req[a].level) \in Nat
      <4>1. req[a].level # NoLock => LockDays(req[a].level) \in Nat
        BY <1>1, <3>1 DEF LockDaysAreNumbers, NoLock
      <4> QED BY <3>1, <4>1
    <3>3. UNCHANGED <<locksOn, enabled, edits, faults>> /\ profile'.until \in Nat
      BY <1>1, <2>1, <3>2 DEF EditProfile, Upsert
    <3> QED BY <1>1, <2>0, <3>3 DEF Limits
  <2>2. CASE TransitFails(a) \/ Lose(a)
    <3>1. /\ UNCHANGED <<locksOn, enabled, profile, edits>>
          /\ faults < MaxFaults /\ faults' = faults + 1
      BY <2>2 DEF TransitFails, Lose, Fails, windowVars
    <3> QED BY <1>1, <2>0, <3>1 DEF Limits
  <2>3. CASE Serve(a) /\ ~EditProfile(a)
    <3>1. UNCHANGED <<locksOn, enabled, profile, edits, faults>>
      BY <2>3 DEF Serve, Expire, ReadSettings, Clear, ReadNatal, Transit, WriteSlot, Polish, RecordRange, Fetch,
        ReadReset, WipeSlots, WipeSettings, Wiped, StoreChart, windowVars
    <3> QED BY <1>1, <2>0, <3>1 DEF Limits
  <2> QED BY <1>4, <2>1, <2>2, <2>3 DEF ServeStep
<1> QED BY <1>2, <1>3, <1>4, StepForms

\* The type invariant of the profile, the window and the requests.
THEOREM WindowTypeCorrect == LockDaysAreNumbers /\ WindowSpec => []WindowTypeOK
<1> SUFFICES ASSUME LockDaysAreNumbers PROVE WindowSpec => []WindowTypeOK
  OBVIOUS
<1>1. WindowInit => Limits
  BY ProfileAssumption DEF WindowInit, ProfileInit, Limits
<1>2. TypeInv /\ Limits /\ [WindowNext]_stateVars => Limits'
  BY LimitsStep
<1>3. TypeInv /\ Limits => WindowTypeOK
  <2> SUFFICES ASSUME TypeInv, Limits PROVE WindowTypeOK
    OBVIOUS
  <2>1. \A a \in Actors : IsRequest(req[a])
    BY DEF TypeInv, Shapes, Shape, Bare
  <2>2. profile \in [hash : Profiles \cup {NoProfile}, level : 0..MaxLevel, until : Nat]
    BY DEF TypeInv, StateTypes, Limits, Hashes
  <2>3. \A a \in Actors : req[a].stage \in RequestStages /\ req[a].found \cup req[a].left \subseteq Days
    BY <2>1 DEF IsRequest
  <2>4. /\ today \in 0..MaxDay /\ charts \subseteq Profiles /\ clean \in BOOLEAN
        /\ filledUntil \in Days \cup {NotFilled} /\ slots \subseteq Slots
    BY DEF TypeInv, StateTypes
  <2> QED BY <2>2, <2>3, <2>4 DEF Limits, WindowTypeOK, Slots
<1> QED BY <1>1, <1>2, <1>3, WindowTypes, PTL DEF WindowSpec

(* Slots follow the profile, for every number of profiles, requests, days  *)
(* and faults and every configuration of the window.                       *)
THEOREM SlotsFollow == WindowSpec => []SlotsFollowProfile
<1>1. WindowInit => Followed
  BY FollowedInit
<1>2. TypeInv /\ Followed /\ [WindowNext]_stateVars => Followed'
  BY FollowedStep
<1>3. TypeInv /\ Followed => SlotsFollowProfile
  BY DEF Followed, ComingFollow, Undisturbed, Resetting, Follows, SlotsFollowProfile, AtRest, InFlight, At
<1> QED BY <1>1, <1>2, <1>3, WindowTypes, PTL DEF WindowSpec

-----------------------------------------------------------------------------
(* What is marked as filled was generated, in a deployment whose refill    *)
(* does not reach further than a window that is built anew.                *)

\* Without it the settings may show an end that lies behind the whole window of a rebuild
\* under way.  A refill that reads it continues behind it, and the days between the end
\* of the rebuild and that one are generated by nobody: with a horizon of 2 days, a
\* threshold of 1 and a refill of 2, TLC finds such a run.  The defaults (30, 14
\* and 14 days) have it; the limits of the environment (7..90, 1..45, 1..45) do not
\* ensure it.
RefillIsShorter == Threshold + RefillDays < Horizon

\* A generation that extends the range.
Refilling(a) ==
  /\ ~req[a].rebuild
  /\ req[a].stage \in {"natal", "transit", "write", "record"} \/ (req[a].stage = "polish" /\ a = Worker)

\* A day that was generated, or that a rebuild under way will generate.
Soon(d) ==
  d \in planned \/ \E a \in Actors : Rebuilding(req[a]) /\ d \in req[a].from .. req[a].until
\* Every day from today to k is such a day.
Covered(k) == \A d \in today .. k : Soon(d)

\* The ranges of a request, and what it read of the settings.
Ranges(a) ==
  /\ req[a].stage = "expire" => req[a].until <= req[a].since + Horizon - 1
  /\ Rebuilding(req[a]) => req[a].from <= today /\ req[a].until = req[a].from + Horizon - 1
  /\ Refilling(a) => req[a].until <= today + Horizon - 1 /\ req[a].until = req[a].from + RefillDays - 1
  /\ Lone(a) /\ req[a].stage = "expire" => filledUntil = req[a].until
  /\ Lone(a) /\ req[a].stage \in {"settings", "clear"} => filledUntil <= req[a].since + Horizon - 1
  /\ Lone(a) /\ req[a].stage = "wipeSlots" => filledUntil = NotFilled
  /\ a # Worker /\ req[a].stage = "polish" => ~req[a].rebuild
  /\ Undisturbed /\ req[a].stage = "expire" /\ req[a].until # NotFilled => Covered(req[a].until)
  /\ Undisturbed /\ Refilling(a) => Covered(req[a].from - 1)

\* FilledIsPlanned, also while requests are under way.
FilledCovered == Undisturbed /\ filledUntil # NotFilled => Covered(filledUntil)

\* The inductive invariant: no end lies behind a whole window from today, so that a
\* rebuild makes every day up to the end it replaces.
Filled == filledUntil <= today + Horizon - 1 /\ FilledCovered /\ \A a \in Actors : Ranges(a)

\* The invariant holds at the start.
LEMMA FilledInit == WindowInit => Filled
<1> SUFFICES ASSUME WindowInit PROVE Filled
  OBVIOUS
<1>1. \A a \in Actors : req[a].stage = "idle" /\ ~req[a].rebuild
  BY IdleIs DEF WindowInit, ProfileInit
<1>2. filledUntil = NotFilled /\ today = 0
  BY DEF WindowInit, ProfileInit
<1>3. \A a \in Actors : Ranges(a)
  BY <1>1 DEF Ranges, Rebuilding, Refilling
<1> QED BY <1>2, <1>3, WindowNumbers DEF Filled, FilledCovered

\* What is covered stays so while rebuilds go on and nothing is deleted.
LEMMA SoonStays ==
  ASSUME NEW a \in Actors, \A b \in Actors \ {a} : req'[b] = req[b],
         planned \subseteq planned',
         Rebuilding(req[a]) => \/ Rebuilding(req'[a]) /\ req'[a].from = req[a].from /\ req'[a].until = req[a].until
                               \/ req[a].from .. req[a].until \subseteq planned',
         NEW d, Soon(d)
  PROVE  Soon(d)'
<1>1. CASE d \in planned
  BY <1>1 DEF Soon
<1>2. ASSUME NEW b \in Actors, Rebuilding(req[b]), d \in req[b].from .. req[b].until PROVE Soon(d)'
  <2>1. CASE b = a
    BY <1>2, <2>1 DEF Soon
  <2>2. CASE b # a
    <3>1. req'[b] = req[b]
      BY <2>2
    <3> QED BY <1>2, <3>1 DEF Soon
  <2> QED BY <2>1, <2>2
<1> QED BY <1>1, <1>2 DEF Soon

\* A step leaves the others what they rely on.
LEMMA OthersRanges ==
  ASSUME TypeInv, Filled, NEW a \in Actors, InFlight(a), Acted(a), today' = today,
         Undisturbed' => \/ Lone(a)
                         \/ Undisturbed /\ \A d : Soon(d) => Soon(d)',
         NEW b \in Actors \ {a}
  PROVE  Ranges(b)'
<1>1. req'[b] = req[b] /\ ~Lone(b) /\ ~(Lone(b)')
  BY DEF Acted, TypeInv, LoneIsAlone, Lone, InFlight, At
<1>2. Lone(a) => req[b].stage = "idle"
  BY DEF TypeInv, LoneIsAlone, InFlight, At
<1>3. (Refilling(b)' <=> Refilling(b)) /\ Ranges(b)
  BY <1>1 DEF Refilling, Filled
<1> DEFINE Still(k) == \A d \in today .. k : Soon(d)'
<1>4. ASSUME Undisturbed', req[b].stage # "idle" PROVE Undisturbed /\ \A k : Covered(k) => Still(k)
  BY <1>2, <1>4 DEF Covered
<1>5. Refilling(b) => req[b].stage # "idle"
  BY DEF Refilling
<1>6. /\ Undisturbed' /\ req[b].stage = "expire" /\ req[b].until # NotFilled => Still(req[b].until)
      /\ Undisturbed' /\ Refilling(b) => Still(req[b].from - 1)
  <2> HIDE DEF Still
  <2> QED BY <1>3, <1>4, <1>5 DEF Ranges
<1>7. /\ Covered(req[b].until)' <=> Still(req[b].until)
      /\ Covered(req[b].from - 1)' <=> Still(req[b].from - 1)
  BY <1>1 DEF Covered
<1> HIDE DEF Still
<1> QED BY <1>1, <1>3, <1>6, <1>7 DEF Ranges

\* The invariant is kept by a request that begins, by every step of a request, and so by
\* every step.
LEMMA FilledBegin ==
  ASSUME TypeInv, Filled, NEW a \in Actors, BeginStep(a)
  PROVE  Filled'
<1>1. /\ ~InFlight(a) /\ UNCHANGED <<today, charts, slots, filledUntil, planned>>
      /\ \E q : Begun(a, q) /\ Shape(q) /\ BeginKind(a, q) /\ ~q.rebuild /\ q.since <= today
  BY BeginForms
<1>2. PICK q : Begun(a, q) /\ Shape(q) /\ BeginKind(a, q) /\ ~q.rebuild
  BY <1>1
<1>3. req[a].stage = "idle" /\ (clean' => clean)
  BY <1>1, <1>2 DEF InFlight, At, BeginKind, TypeInv, StateTypes
<1>4. /\ req'[a].stage = q.stage /\ ~req'[a].rebuild /\ ~Rebuilding(req'[a]) /\ ~Refilling(a)'
      /\ q.stage \notin {"clear", "wipeSlots"} /\ ~Resetting(req'[a])
      /\ q.stage = "expire" => req'[a].since = today /\ req'[a].until = filledUntil
      /\ q.stage = "settings" => req'[a].since = today
  BY <1>2 DEF Begun, BeginKind, IsRequest, Rebuilding, Refilling, Resetting
<1>5. ASSUME NEW b \in Actors \ {a}
      PROVE  /\ ~(Lone(b)') /\ req'[b].stage = req[b].stage /\ req'[b].rebuild = req[b].rebuild
             /\ req'[b].from = req[b].from /\ req'[b].until = req[b].until /\ req'[b].since = req[b].since
             /\ Ranges(b) /\ (Refilling(b)' <=> Refilling(b)) /\ (Rebuilding(req'[b]) <=> Rebuilding(req[b]))
             /\ (Resetting(req'[b]) <=> Resetting(req[b]))
  <2>0. Shape(req[b]) /\ IsRequest(req[b])
    BY DEF TypeInv, Shapes, Shape, Bare
  <2>1. CASE ~InFlight(b) /\ req'[b] = Idle
    <3>1. req[b] = Idle
      BY <2>0, <2>1 DEF Shape, Bare, InFlight, At
    <3> QED BY <2>1, <3>1, IdleIs DEF Lone, InFlight, At, Filled, Refilling
  <2>2. CASE InFlight(b) /\ req'[b] = [req[b] EXCEPT !.alone = FALSE]
    <3>1. /\ req'[b].alone = FALSE /\ req'[b].stage = req[b].stage /\ req'[b].rebuild = req[b].rebuild
          /\ req'[b].from = req[b].from /\ req'[b].until = req[b].until /\ req'[b].since = req[b].since
      BY <2>0, <2>2 DEF IsRequest
    <3> QED BY <3>1 DEF Lone, Filled, Refilling, Rebuilding, Resetting
  <2> QED BY <1>2, <2>1, <2>2 DEF Begun
<1>6. Undisturbed' => Undisturbed
  BY <1>3, <1>5 DEF Undisturbed, Resetting
<1>7. ASSUME NEW d, Soon(d) PROVE Soon(d)'
  <2>1. CASE d \in planned
    BY <1>1, <2>1 DEF Soon
  <2>2. ASSUME NEW b \in Actors, Rebuilding(req[b]), d \in req[b].from .. req[b].until PROVE Soon(d)'
    <3>1. b # a
      BY <1>3, <2>2 DEF Rebuilding
    <3> QED BY <1>5, <2>2, <3>1 DEF Soon
  <2> QED BY <1>7, <2>1, <2>2 DEF Soon
<1> DEFINE Still(k) == \A d \in today .. k : Soon(d)'
<1>8. \A k : Covered(k) => Still(k)
  BY <1>7 DEF Covered
<1>9. FilledCovered'
  <2>1. Covered(filledUntil)' <=> Still(filledUntil)
    BY <1>1 DEF Covered
  <2> HIDE DEF Still
  <2> QED BY <1>1, <1>6, <1>8, <2>1 DEF Filled, FilledCovered
<1>10. ASSUME NEW b \in Actors PROVE Ranges(b)'
  <2>0. /\ Covered(req[b].until)' <=> \A d \in today .. req'[b].until : Soon(d)'
        /\ Covered(req[b].from - 1)' <=> \A d \in today .. req'[b].from - 1 : Soon(d)'
    BY <1>1 DEF Covered
  <2>1. CASE b = a
    <3>1. Undisturbed' /\ q.stage = "expire" /\ filledUntil # NotFilled => Still(filledUntil)
      <4> HIDE DEF Still
      <4> QED BY <1>6, <1>8 DEF Filled, FilledCovered
    <3>2. q.stage = "expire" => (Covered(req[b].until)' <=> Still(filledUntil))
      BY <1>4, <2>0, <2>1
    <3> HIDE DEF Still
    <3>3. filledUntil <= today + Horizon - 1
      BY DEF Filled
    <3> QED BY <1>1, <1>4, <2>1, <3>1, <3>2, <3>3 DEF Ranges
  <2>2. CASE b # a
    <3>1. /\ Covered(req[b].until)' <=> Still(req[b].until)
          /\ Covered(req[b].from - 1)' <=> Still(req[b].from - 1)
      BY <1>5, <2>0, <2>2
    <3> HIDE DEF Still
    <3> QED BY <1>1, <1>5, <1>6, <1>8, <2>2, <3>1 DEF Ranges
  <2> QED BY <2>1, <2>2
<1> QED BY <1>1, <1>9, <1>10 DEF Filled

LEMMA FilledServe ==
  ASSUME RefillIsShorter, TypeInv, Filled, NEW a \in Actors, ServeStep(a)
  PROVE  Filled'
<1> DEFINE r == req[a]
           q == req'[a]
<1>1. /\ Acted(a) /\ InFlight(a) /\ today' = today /\ EffectOf(a, r, q)
      /\ Shape(r) /\ Shape(q) /\ IsRequest(r) /\ IsRequest(q) /\ r.since <= today
      /\ clean \in BOOLEAN /\ r.alone \in BOOLEAN
  BY ServeForms, ServeEffects DEF Acted, TypeInv, Shapes, StateTypes, Shape, Bare, IsRequest
<1>n. /\ today \in Int /\ filledUntil \in Int /\ r.until \in Int /\ r.from \in Nat /\ r.since \in Nat
      /\ q.until \in Int /\ q.from \in Nat
  <2>1. filledUntil \in Days \cup {NotFilled} /\ today \in 0..MaxDay /\ MaxDay \in Nat
    BY ProfileAssumption DEF TypeInv, StateTypes
  <2> QED BY <1>1, <2>1, DaysType, WindowNumbers DEF IsRequest
<1>2. /\ r.stage # "idle" /\ (Lone(a)' => Lone(a)) /\ q.stage # "expire"
      /\ \A b \in Actors \ {a} : req'[b] = req[b]
  <2>1. q.stage # "expire"
    BY <1>1, IdleIs DEF EffectOf, Expired, SettingsRead, Cleared, Generated, Written, Polished, Recorded,
                Fetched, Upserted, ResetRead, SlotsWiped, SettingsWiped, Ended, Quits
  <2> QED BY <1>1, <2>1 DEF Acted, InFlight, At
<1> DEFINE Refills(x) == /\ ~x.rebuild
                         /\ \/ x.stage \in {"natal", "transit", "write", "record"}
                            \/ x.stage = "polish" /\ a = Worker
           Still(k) == \A d \in today .. k : Soon(d)'
           Stays == \A d : Soon(d) => Soon(d)'
<1>3. /\ r.stage = "expire" => r.until <= r.since + Horizon - 1
      /\ Rebuilding(r) => r.from <= today /\ r.until = r.from + Horizon - 1
      /\ Refills(r) => r.until <= today + Horizon - 1 /\ r.until = r.from + RefillDays - 1
      /\ Lone(a) /\ r.stage = "expire" => filledUntil = r.until
      /\ Lone(a) /\ r.stage \in {"settings", "clear"} => filledUntil <= r.since + Horizon - 1
      /\ Lone(a) /\ r.stage = "wipeSlots" => filledUntil = NotFilled
      /\ a # Worker /\ r.stage = "polish" => ~r.rebuild
      /\ Undisturbed /\ r.stage = "expire" /\ r.until # NotFilled => Covered(r.until)
      /\ Undisturbed /\ Refills(r) => Covered(r.from - 1)
      /\ filledUntil <= today + Horizon - 1
      /\ Undisturbed /\ filledUntil # NotFilled => Covered(filledUntil)
  BY DEF Filled, Ranges, FilledCovered, Refilling
<1>4. r.alone /\ (a = Worker \/ r.stage \notin {"fetch", "polish"}) => Lone(a)
  BY <1>2 DEF Lone, InFlight, At
<1>5. /\ Undisturbed => clean /\ ~Resetting(r)
      /\ Undisturbed' => clean' /\ ~Resetting(q)
      /\ Undisturbed' /\ clean /\ ~Resetting(r) => Undisturbed
  BY <1>2 DEF Undisturbed
<1>s. ASSUME planned \subseteq planned',
             Rebuilding(r) => \/ Rebuilding(q) /\ KeepsRange(r, q)
                              \/ r.from .. r.until \subseteq planned'
      PROVE  Stays
  BY <1>2, <1>s, SoonStays DEF KeepsRange
<1>c. ASSUME Stays, NEW k, Covered(k) PROVE Still(k)
  BY <1>c DEF Covered
<1>o. r.rebuild => Rebuilding(r)
  BY <1>1 DEF Shape, Bare
<1> DEFINE Own ==
      /\ Rebuilding(q) => q.from <= today /\ q.until = q.from + Horizon - 1
      /\ Refills(q) => q.until <= today + Horizon - 1 /\ q.until = q.from + RefillDays - 1
      /\ Lone(a)' /\ q.stage \in {"settings", "clear"} => filledUntil' <= q.since + Horizon - 1
      /\ Lone(a)' /\ q.stage = "wipeSlots" => filledUntil' = NotFilled
      /\ a # Worker /\ q.stage = "polish" => ~q.rebuild
      /\ Undisturbed' /\ Refills(q) => Still(q.from - 1)
           Kept ==
      /\ Undisturbed' => Lone(a) \/ (Undisturbed /\ Stays)
      /\ filledUntil' <= today + Horizon - 1
      /\ Undisturbed' /\ filledUntil' # NotFilled => Still(filledUntil')
<1>k. ASSUME Own, Kept PROVE Filled'
  <2>1. \A b \in Actors \ {a} : Ranges(b)'
    BY <1>1, <1>k, OthersRanges
  <2>2. Ranges(a)'
    <3>1. (Refilling(a)' <=> Refills(q)) /\ (Covered(r.from - 1)' <=> Still(q.from - 1))
      BY <1>1 DEF Refilling, Covered
    <3> HIDE DEF Still, Refills, Stays
    <3> QED BY <1>1, <1>2, <1>k, <3>1 DEF Ranges
  <2>3. FilledCovered'
    <3>1. Covered(filledUntil)' <=> Still(filledUntil')
      BY <1>1 DEF Covered
    <3> HIDE DEF Still, Own
    <3> QED BY <1>k, <3>1 DEF FilledCovered
  <2>4. (filledUntil <= today + Horizon - 1)'
    BY <1>1, <1>k
  <2> QED BY <2>1, <2>2, <2>3, <2>4 DEF Filled
<1>l. ASSUME UNCHANGED filledUntil, Undisturbed' => Undisturbed /\ Stays PROVE Kept
  <2> HIDE DEF Still, Stays
  <2> QED BY <1>3, <1>c, <1>l
<1> HIDE DEF r, q
<1>6. CASE Expired(r, q)
  <2>1. /\ UNCHANGED <<filledUntil, planned, clean>> /\ r.stage = "expire" /\ ~r.rebuild
        /\ ~Resetting(r)
    BY <1>6, <1>o DEF Expired, Rebuilding, Resetting
  <2>2. Stays
    BY <1>o, <1>s, <2>1 DEF Rebuilding
  <2>3. Undisturbed' => Undisturbed
    BY <1>5, <2>1
  <2>0. PICK day \in r.since .. today :
          \/ Quits(q)
          \/ q.stage = "settings" /\ q.since = day /\ r.until = NotFilled
          \/ /\ q.stage = "natal" /\ ~q.rebuild
             /\ r.until # NotFilled /\ r.until - day <= Threshold
             /\ q.from = r.until + 1 /\ q.until = r.until + RefillDays
    BY <1>6 DEF Expired
  <2>00. day \in Nat /\ day <= today
    BY <1>n, <2>0
  <2>4. Own
    <3>1. CASE Quits(q)
      BY <3>1 DEF Quits, Rebuilding
    <3>2. CASE q.stage = "settings" /\ q.since = day /\ r.until = NotFilled
      BY <1>2, <1>3, <1>n, <2>1, <2>00, <3>2, WindowNumbers DEF Rebuilding
    <3>3. CASE /\ q.stage = "natal" /\ ~q.rebuild
               /\ r.until # NotFilled /\ r.until - day <= Threshold
               /\ q.from = r.until + 1 /\ q.until = r.until + RefillDays
      <4>1. q.until <= today + Horizon - 1 /\ q.until = q.from + RefillDays - 1 /\ q.from - 1 = r.until
        BY <1>1, <1>n, <2>00, <3>3, WindowNumbers DEF RefillIsShorter
      <4>2. Undisturbed' => Still(q.from - 1)
        <5> HIDE DEF Still, Stays
        <5> QED BY <1>3, <1>c, <2>1, <2>2, <2>3, <3>3, <4>1
      <4> HIDE DEF Still
      <4> QED BY <3>3, <4>1, <4>2 DEF Rebuilding
    <3> HIDE DEF Own
    <3> QED BY <2>0, <3>1, <3>2, <3>3
  <2>5. Kept
    <3> HIDE DEF Kept, Stays
    <3> QED BY <1>l, <2>1, <2>2, <2>3
  <2> HIDE DEF Own, Kept
  <2> QED BY <1>k, <2>4, <2>5
<1>7. CASE SettingsRead(r, q)
  <2>1. /\ UNCHANGED <<filledUntil, planned, clean>> /\ r.stage = "settings" /\ ~r.rebuild
        /\ ~Resetting(r)
    BY <1>7, <1>o DEF SettingsRead, Rebuilding, Resetting
  <2>2. Stays
    BY <1>o, <1>s, <2>1 DEF Rebuilding
  <2>3. Undisturbed' => Undisturbed
    BY <1>5, <2>1
  <2>4. Own
    <3>1. CASE Quits(q)
      BY <3>1 DEF Quits, Rebuilding
    <3>2. CASE q.stage = "clear" /\ q.since = r.since
      BY <1>2, <1>3, <2>1, <3>2 DEF Rebuilding
    <3> HIDE DEF Own
    <3> QED BY <1>7, <3>1, <3>2 DEF SettingsRead
  <2>5. Kept
    <3> HIDE DEF Kept, Stays
    <3> QED BY <1>l, <2>1, <2>2, <2>3
  <2> HIDE DEF Own, Kept
  <2> QED BY <1>k, <2>4, <2>5
\* A rebuild promises what it deletes: its range reaches as far as the settings say.
<1>8. CASE Cleared(r, q)
  <2>1. /\ UNCHANGED filledUntil /\ r.stage = "clear" /\ (clean' => r.alone)
        /\ q.stage = "natal" /\ q.rebuild /\ q.from = r.since /\ q.until = r.since + Horizon - 1
    BY <1>8, <1>1 DEF Cleared
  <2>2. Undisturbed' => Lone(a)
    BY <1>4, <1>5, <2>1
  <2>3. Own
    BY <1>1, <1>n, <2>1, WindowNumbers DEF Rebuilding
  <2>4. Undisturbed' => Still(filledUntil)
    <3> SUFFICES ASSUME Undisturbed', NEW d \in today .. filledUntil PROVE Soon(d)'
      OBVIOUS
    <3>1. filledUntil <= q.until /\ q.from <= today
      BY <1>1, <1>3, <2>1, <2>2
    <3>2. d \in q.from .. q.until
      BY <1>n, <3>1
    <3> QED BY <2>1, <3>2 DEF Soon, Rebuilding, q
  <2>5. Kept
    <3> HIDE DEF Still, Stays
    <3> QED BY <1>3, <2>1, <2>2, <2>4
  <2> HIDE DEF Own, Kept
  <2> QED BY <1>k, <2>3, <2>5
<1>9. CASE Generated(a)
  <2>1. /\ UNCHANGED <<filledUntil, planned>> /\ ~Resetting(r) /\ r.stage \in {"natal", "transit"}
        /\ \/ q = Idle /\ clean' = (clean /\ ~r.rebuild)
           \/ /\ q.stage \in {"transit", "write", "record"}
              /\ q.rebuild = r.rebuild /\ q.from = r.from /\ q.until = r.until
              /\ UNCHANGED clean
    BY <1>9 DEF Generated, Resetting, r, q
  <2>2. CASE q = Idle /\ clean' = (clean /\ ~r.rebuild)
    <3>1. Own
      BY <2>2, IdleIs DEF Rebuilding
    <3>2. Undisturbed' => Undisturbed /\ ~r.rebuild
      BY <1>1, <1>5, <2>1, <2>2
    <3>3. Undisturbed' => Stays
      BY <1>s, <2>1, <3>2 DEF Rebuilding
    <3>4. Kept
      <4> HIDE DEF Kept, Stays
      <4> QED BY <1>l, <2>1, <3>2, <3>3
    <3> HIDE DEF Own, Kept
    <3> QED BY <1>k, <3>1, <3>4
  <2>3. CASE /\ q.stage \in {"transit", "write", "record"}
             /\ q.rebuild = r.rebuild /\ q.from = r.from /\ q.until = r.until
             /\ UNCHANGED clean
    <3>1. /\ Rebuilding(q) <=> Rebuilding(r)
          /\ Refills(q) <=> Refills(r)
      BY <2>1, <2>3 DEF Rebuilding
    <3>2. Undisturbed' => Undisturbed
      BY <1>5, <2>1, <2>3
    <3>3. Stays
      BY <1>2, <2>1, <2>3, <3>1, SoonStays DEF r, q
    <3>4. Undisturbed' /\ Refills(q) => Still(q.from - 1)
      <4> HIDE DEF Still, Stays, Refills
      <4> QED BY <1>3, <1>c, <2>3, <3>1, <3>2, <3>3
    <3>5. Own
      <4> HIDE DEF Still, Refills
      <4> QED BY <1>3, <2>3, <3>1, <3>4
    <3>6. Kept
      <4> HIDE DEF Kept, Stays
      <4> QED BY <1>l, <2>1, <3>2, <3>3
    <3> HIDE DEF Own, Kept
    <3> QED BY <1>k, <3>5, <3>6
  <2> QED BY <2>1, <2>2, <2>3
<1>10. CASE Written(a, r, q) \/ Polished(a, r, q) \/ Fetched(a, r, q)
  <2>1. /\ UNCHANGED <<filledUntil, planned, clean>> /\ ~Resetting(r)
        /\ r.stage \in {"write", "polish", "fetch"}
        /\ \/ q.stage = "idle" /\ ~r.rebuild
           \/ /\ q.stage \in {"write", "polish", "record"} /\ KeepsRange(r, q)
              /\ r.stage \in {"polish", "fetch"} /\ a # Worker => q.stage = "polish" /\ ~r.rebuild
              /\ r.stage = "write" => (q.stage = "polish" => a = Worker)
              /\ r.stage = "fetch" => a # Worker
    <3>1. r.stage = "fetch" => ~r.rebuild
      BY <1>o DEF Rebuilding
    <3> QED BY <1>3, <1>10, <3>1 DEF Written, Polished, Fetched, Resetting
  <2>2. /\ Rebuilding(q) => Rebuilding(r)
        /\ Rebuilding(r) => Rebuilding(q) /\ KeepsRange(r, q)
        /\ Refills(q) => Refills(r)
        /\ a # Worker /\ q.stage = "polish" => ~q.rebuild
        /\ q.stage \notin {"settings", "clear", "wipeSlots"}
        /\ Rebuilding(q) \/ Refills(q) => q.from = r.from /\ q.until = r.until
    BY <2>1 DEF Rebuilding, KeepsRange
  <2>3. Stays
    BY <1>s, <2>1, <2>2
  <2>4. Undisturbed' => Undisturbed
    BY <1>5, <2>1
  <2>5. Undisturbed' /\ Refills(q) => Still(q.from - 1)
    <3> HIDE DEF Still, Stays, Refills
    <3> QED BY <1>3, <1>c, <2>2, <2>3, <2>4
  <2>6. Own
    <3> HIDE DEF Still, Refills
    <3> QED BY <1>3, <2>2, <2>5
  <2>7. Kept
    <3> HIDE DEF Kept, Stays
    <3> QED BY <1>l, <2>1, <2>3, <2>4
  <2> HIDE DEF Own, Kept
  <2> QED BY <1>k, <2>6, <2>7
\* The range that is recorded begins in what is covered, or at this day.
<1>11. CASE Recorded(a, r, q)
  <2>1. /\ filledUntil' = r.until /\ planned' = planned \cup (r.from .. r.until)
        /\ clean' = (clean \/ (r.rebuild /\ r.alone)) /\ r.stage = "record"
        /\ q.stage \in {"idle", "fetch"} /\ ~Resetting(r)
    BY <1>11 DEF Recorded, Resetting
  <2>2. Stays
    <3>1. planned \subseteq planned' /\ r.from .. r.until \subseteq planned'
      BY <2>1
    <3> QED BY <1>s, <3>1
  <2>3. Own
    BY <2>1 DEF Rebuilding
  <2>4. Rebuilding(r) \/ Refills(r)
    BY <1>1, <2>1 DEF Rebuilding, IsRequest
  <2>5. Undisturbed' => Undisturbed \/ (Lone(a) /\ Rebuilding(r))
    BY <1>1, <1>4, <1>5, <1>o, <2>1
  <2>6. \A d \in r.from .. r.until : Soon(d)'
    BY <2>1 DEF Soon
  <2>7. r.until <= today + Horizon - 1
    BY <1>3, <1>n, <2>4, WindowNumbers
  <2>8. Undisturbed' => Still(r.until)
    <3> SUFFICES ASSUME Undisturbed', NEW d \in today .. r.until PROVE Soon(d)'
      OBVIOUS
    <3>1. CASE Rebuilding(r)
      <4>1. d \in r.from .. r.until
        BY <1>3, <1>n, <3>1
      <4> QED BY <2>6, <4>1
    <3>2. CASE Refills(r) /\ Undisturbed
      <4>1. CASE d >= r.from
        <5>1. d \in r.from .. r.until
          BY <1>n, <4>1
        <5> QED BY <2>6, <5>1
      <4>2. CASE ~(d >= r.from)
        <5>1. d \in today .. (r.from - 1)
          BY <1>n, <4>2
        <5>2. Covered(r.from - 1)
          BY <1>3, <3>2
        <5> QED BY <2>2, <5>1, <5>2 DEF Covered
      <4> QED BY <4>1, <4>2
    <3> QED BY <2>4, <2>5, <3>1, <3>2
  <2>9. Kept
    <3> HIDE DEF Still, Stays
    <3> QED BY <2>1, <2>2, <2>5, <2>7, <2>8
  <2> HIDE DEF Own, Kept
  <2> QED BY <1>k, <2>3, <2>9
<1>12. CASE Upserted(r, q) \/ ResetRead(r, q) \/ Ended(r, q)
  <2>1. /\ UNCHANGED <<filledUntil, planned>> /\ q.stage \in {"idle", "reset", "wipe"}
        /\ clean' => clean /\ ~r.rebuild
        /\ Resetting(r) /\ clean' => Resetting(q)
    <3>1. CASE Upserted(r, q) \/ ResetRead(r, q)
      BY <1>1, <1>o, <3>1 DEF Upserted, ResetRead, Rebuilding, Resetting
    <3>2. CASE Ended(r, q)
      BY <3>2 DEF Ended
    <3> QED BY <1>12, <3>1, <3>2
  <2>2. Own
    BY <2>1 DEF Rebuilding
  <2>3. Undisturbed' => Undisturbed /\ ~r.rebuild
    BY <1>5, <2>1
  <2>4. Undisturbed' => Stays
    BY <1>s, <2>1, <2>3 DEF Rebuilding
  <2>5. Kept
    <3> HIDE DEF Kept, Stays
    <3> QED BY <1>l, <2>1, <2>3, <2>4
  <2> HIDE DEF Own, Kept
  <2> QED BY <1>k, <2>2, <2>5
<1>13. CASE SlotsWiped(r, q)
  <2>1. /\ UNCHANGED filledUntil /\ r.stage \in {"wipe", "wipeSlots"}
        /\ q.stage \in {"wipeSettings", "idle"} /\ (r.stage = "wipe" => Resetting(q))
        /\ clean' => r.alone
    BY <1>1, <1>13 DEF SlotsWiped, Resetting
  <2>2. Own
    BY <2>1 DEF Rebuilding
  <2>3. Undisturbed' => Lone(a) /\ filledUntil = NotFilled
    BY <1>3, <1>4, <1>5, <2>1
  <2>4. Kept
    <3> HIDE DEF Still, Stays
    <3> QED BY <1>3, <2>1, <2>3
  <2> HIDE DEF Own, Kept
  <2> QED BY <1>k, <2>2, <2>4
<1>14. CASE SettingsWiped(r, q)
  <2>1. /\ filledUntil' = NotFilled /\ r.stage \in {"wipe", "wipeSettings"}
        /\ q.stage \in {"wipeSlots", "idle"}
        /\ clean' => r.alone
    BY <1>1, <1>14 DEF SettingsWiped
  <2>2. Own
    BY <2>1 DEF Rebuilding
  <2>3. Undisturbed' => Lone(a)
    BY <1>4, <1>5, <2>1
  <2>4. NotFilled <= today + Horizon - 1
    <3>1. today \in Nat
      BY ProfileAssumption DEF TypeInv, StateTypes
    <3> QED BY <3>1, WindowNumbers
  <2>5. Kept
    <3> HIDE DEF Still, Stays
    <3> QED BY <2>1, <2>3, <2>4
  <2> HIDE DEF Own, Kept
  <2> QED BY <1>k, <2>2, <2>5
<1> QED BY <1>1, <1>6, <1>7, <1>8, <1>9, <1>10, <1>11, <1>12, <1>13, <1>14 DEF EffectOf

LEMMA FilledStep == RefillIsShorter /\ TypeInv /\ Filled /\ [WindowNext]_stateVars => Filled'
<1> SUFFICES ASSUME RefillIsShorter, TypeInv, Filled, [WindowNext]_stateVars PROVE Filled'
  OBVIOUS
<1>1. CASE UNCHANGED stateVars \/ SaveSettings
  <2>1. UNCHANGED <<today, filledUntil, planned, req, clean>>
    BY <1>1 DEF SaveSettings, stateVars, profileVars, windowVars
  <2> QED BY <2>1 DEF Filled, FilledCovered, Undisturbed, Ranges, Refilling, Covered, Soon, Lone, InFlight, At
<1>2. CASE NextDay /\ planned' = planned \ {today} /\ UNCHANGED <<enabled, filledUntil, slots, clean>>
  <2>1. today' = today + 1 /\ UNCHANGED <<req, filledUntil, clean>>
    BY <1>2 DEF NextDay
  <2>2. today \in Nat /\ filledUntil \in Int /\ \A a \in Actors : IsRequest(req[a])
    BY ProfileAssumption, DaysType, WindowNumbers DEF TypeInv, StateTypes, Shapes, Shape, Bare
  <2> DEFINE Still(k) == \A d \in today' .. k : Soon(d)'
  <2>3. ASSUME NEW k \in Int, Covered(k) PROVE Still(k)
    <3> SUFFICES ASSUME NEW d \in today' .. k PROVE Soon(d)'
      OBVIOUS
    <3>1. d \in today .. k /\ d # today
      BY <2>1, <2>2
    <3>2. Soon(d)
      BY <2>3, <3>1 DEF Covered
    <3> QED BY <1>2, <2>1, <3>1, <3>2 DEF Soon
  <2>4. FilledCovered' /\ filledUntil' <= today' + Horizon - 1
    <3>1. Covered(filledUntil)' <=> Still(filledUntil)
      BY <2>1 DEF Covered
    <3>2. FilledCovered'
      <4> HIDE DEF Still
      <4> QED BY <2>1, <2>2, <2>3, <3>1 DEF Filled, FilledCovered, Undisturbed
    <3>3. filledUntil <= today + Horizon - 1
      BY DEF Filled
    <3> QED BY <2>1, <2>2, <3>2, <3>3, WindowNumbers
  <2>5. ASSUME NEW a \in Actors PROVE Ranges(a)'
    <3>1. /\ Covered(req[a].until)' <=> Still(req[a].until)
          /\ Covered(req[a].from - 1)' <=> Still(req[a].from - 1)
      BY <2>1 DEF Covered
    <3>2. /\ req[a].until \in Int /\ req[a].from \in Int /\ req[a].from - 1 \in Int /\ req[a].since \in Int
      BY <2>2, DaysType, WindowNumbers DEF IsRequest
    <3>3. Ranges(a)
      BY DEF Filled
    <3>4. /\ Rebuilding(req[a]) => req[a].from <= today'
          /\ Refilling(a) => req[a].until <= today' + Horizon - 1
      BY <2>1, <2>2, <3>2, <3>3, WindowNumbers DEF Ranges
    <3>5. /\ Undisturbed /\ req[a].stage = "expire" /\ req[a].until # NotFilled => Still(req[a].until)
          /\ Undisturbed /\ Refilling(a) => Still(req[a].from - 1)
      <4> HIDE DEF Still
      <4> QED BY <2>3, <3>2, <3>3 DEF Ranges
    <3>6. (Refilling(a)' <=> Refilling(a)) /\ (Undisturbed' <=> Undisturbed) /\ (Lone(a)' <=> Lone(a))
      BY <2>1 DEF Refilling, Undisturbed, Lone, InFlight, At
    <3> HIDE DEF Still
    <3> QED BY <2>1, <3>1, <3>3, <3>4, <3>5, <3>6 DEF Ranges
  <2> QED BY <2>4, <2>5 DEF Filled
<1>3. ASSUME NEW a \in Actors, BeginStep(a) \/ ServeStep(a) PROVE Filled'
  BY <1>3, FilledBegin, FilledServe
<1> QED BY <1>1, <1>2, <1>3, StepForms

(* What is marked as filled was generated, for every number of profiles,   *)
(* requests, days and faults, where the days of the threshold and of a     *)
(* refill together are fewer than those of a window built anew.            *)
THEOREM FilledWasPlanned == RefillIsShorter /\ WindowSpec => []FilledIsPlanned
<1> SUFFICES ASSUME RefillIsShorter PROVE WindowSpec => []FilledIsPlanned
  OBVIOUS
<1>1. WindowInit => Filled
  BY FilledInit
<1>2. TypeInv /\ Filled /\ [WindowNext]_stateVars => Filled'
  BY FilledStep
<1>3. Filled => FilledIsPlanned
  <2> SUFFICES ASSUME Filled, clean, AtRest, filledUntil # NotFilled
               PROVE  today .. filledUntil \subseteq planned
    BY DEF FilledIsPlanned
  <2>1. Undisturbed /\ \A a \in Actors : ~Rebuilding(req[a])
    BY DEF AtRest, InFlight, At, Undisturbed, Resetting, Rebuilding
  <2> QED BY <2>1 DEF Filled, FilledCovered, Covered, Soon
<1> QED BY <1>1, <1>2, <1>3, WindowTypes, PTL DEF WindowSpec
=============================================================================
