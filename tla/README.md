# HoroJob server: a verification project

TLA+ modules, TLC configurations and TLAPS proofs for the HoroJob backend
(`src/`, TypeScript, Fastify, MongoDB, Redis).  Paths below are relative to the
repository root; the service code is under `src/services`, the routes under
`src/routes`.

## 1. The system

The same code base starts as an API process (`src/apiServer.ts`), a worker
(`src/worker.ts`) or both in one (`src/server.ts`).  Nothing is shared in memory
between processes: they meet in MongoDB, in Redis (locks) and in external
services (Expo push, RevenueCat, Apple, the astrology provider, OpenAI, job
boards).  Every handler is an `async` function whose reads and writes are
separate commands; there are no transactions.  What is hard in this code is
therefore always the same thing in other clothes: a document is read, something
is awaited, and a document is written from what was read.

| Component | State | Operations | Meets | Correct when |
|---|---|---|---|---|
| Scheduler locks (`cacheStore`, `schedulerLockPolicy`, `runtime/*`) | the lock keys in Redis, the lazy client and its backoff | acquire (SET PX NX), release (GET, DEL), connect; the timer loop around them | all five schedulers | two workers never run one bucket's cycle at once; no cycle runs bare in production; a key is freed by its owner or its TTL |
| Burnout push alerts (`burnoutAlertScheduler`, `burnoutAlerts`, `routes/notifications`) | one job per user and local day; settings; tokens | planning pass, dispatch pass, `POST /burnout-seen`, `PUT /burnout-settings`, `PUT /push-token` | daily transit, birth profile, subscription tier, Expo | a day is pushed once; what was pushed stays on record; the cooldown is kept; an acknowledged day stays quiet; a due job is dealt with |
| Lunar productivity alerts (`lunarProductivityScheduler`, `lunarProductivity`) | one job per user and day of the transit, settings | the same | the same | a job is of a day in range; two pushes within the cooldown are of two days of the server |
| Auth sessions (`auth`, `routes/auth`) | users, sessions with two token hashes | anonymous start, refresh rotation, logout, Apple link | every route | a refresh token is good once; no second live session from one token |
| Billing (`billingSync`, `routes/billing`, `subscriptionProjection`) | subscription snapshot, the user's tier, webhook events | webhook, sync, status | RevenueCat, every premium route | the tier follows the newest answer; no event is lost |
| Job scans and usage limits (`jobs/*`, `jobUsageLimits`) | raw, parsed, analysis and negative caches, counters, history | preflight, analyze, screenshots, history import | job boards, market data, natal chart | limits hold; a fresh page is not deleted; newer history stays |
| Interview strategy | settings, slots of a window | settings, refill, reset, rebuild, scheduler | birth profile, daily transit | the slots ahead are of the active profile; what counts as filled was generated; the window rolls on |
| Daily narratives (`dailyTransit`, `aiSynergy`, `careerVibePlan`, `morningBriefing`) | one document per profile and day, background tasks | get or create, refresh, midnight scheduler | astrology provider, LLM providers | a document speaks of the profile it is filed under; a pending plan is finished; what is ready stays |
| Birth profile and natal chart (`astrology/*`) | profile, edit lock, chart | upsert, generate | everything above | a lock holds; what is computed from the profile follows it |
| Full natal analysis, operation progress | document, in-flight map and progress record of each process | get or create, progress | LLM gateway | one generation per process and profile; the progress tells the truth |
| LLM gateway, structured fallback | none | retry, backoff, backup provider | OpenAI and another provider | bounded attempts; the last error is the answer |
| Discover roles (`discoverRoles`, `discoverRoleCurrentJobStore`, `discoverRoleShortlistStore`) | the role catalog and its caches, stored recommendations, current job, shortlist | seed, search and recommend, set and clear the job, save and remove | birth profile, market data | the catalog is the deployed one; answers follow it; a chosen job stays; newer entries stay |
| Market data, cities | occupation cache | read | O*NET, CareerOneStop | (no shared state beyond a cache) |

`PROJECT.json` lists all of them under `components`, with the modelled extent,
and the places where each can go wrong under `hazards`.

## 2. Modules and the code they stand for

`A -> B` reads "B extends A".

| Module | Models | Written from |
|---|---|---|
| `BucketMutex` | what the callers of the scheduler lock count on: one holder per bucket | abstract |
| `SchedulerLock` -> `LockedAlerts`, on which the runs and proofs are | the lock and the timer loop | `services/cacheStore.ts`, `services/schedulerLockPolicy.ts`, `runtime/runtimeProcessCore.ts`, the schedulers' loops |
| `BurnoutAlerts` -> `MCBurnoutAlerts`, `LunarAlerts` | planning, dispatch, acknowledgement | `services/burnoutAlertScheduler.ts`, `services/burnoutAlerts.ts`, `routes/notifications.ts` |
| `Sessions` -> `MCSessions`, `SessionsProofs` | users, sessions, tokens | `services/auth.ts`, `routes/auth.ts` (with the limiter of anonymous starts) |
| `Billing` -> `MCBilling`, `BillingProofs` | webhook, sync, projection | `routes/billing.ts`, `services/billingSync.ts`, `services/subscriptionProjection.ts`, `services/revenuecatClient.ts` |
| `JobScans` -> `MCJobScans`, `JobScansProofs` | scans, caches, limits, history | `services/jobs/*`, `services/jobUsageLimits.ts`, `services/jobProviders.ts`, `services/jobCachePolicy.ts` |
| `BirthProfile` | the profile, its edit lock, its charts | `services/astrology/astrologyProfileRoutes.ts`, `astrologyShared.ts`, `astrologyNatalChartRoutes.ts` |
| `InterviewWindow` -> `MCInterviewWindow`, `WorkerProofs` (extends `BirthProfile`) | the window of interview slots beside the edits | `services/interviewStrategy.ts`, `services/interviewStrategyScheduler.ts`, `routes/notifications.ts` |
| `LockedAlerts` -> `MCSchedulerLock`, `WorkerProofs` (extends `SchedulerLock`) | the passes of the burnout alerts on several workers under the lock | `services/burnoutAlertScheduler.ts` |
| `LunarAlerts` -> `MCLunarAlerts`, `AlertsProofs` (the proofs of both kinds) | planning and dispatch of lunar alerts | `services/lunarProductivityScheduler.ts`, `services/lunarProductivity.ts`, `routes/notifications.ts` |
| `Narratives` -> `NarrativesProofs` | transit, synergy, plan and briefing of a day | `services/dailyTransit.ts`, `aiSynergy.ts`, `careerVibePlan.ts`, `morningBriefing.ts`, `llmStructuredFallback.ts`, `astrology/astrologyPremiumAnalysisRoutes.ts` |
| `FullNatal` -> `FullNatalProofs` | the full report, its progress and the attempts of the gateway | `services/astrology/astrologyShared.ts`, `fullNatalAnalysis.ts`, `llmGateway.ts`, `operationProgress.ts` |
| `DiscoverRoles` -> `MCDiscoverRoles`, `DiscoverRolesProofs` | catalog, recommendations, current job, shortlist | `services/discoverRoles.ts`, `services/astrology/discoverRole*Store.ts` |

`PROJECT.json` maps every definition to the lines it models.  One convention
runs through all modules: a variable that holds a document has the name of the
collection or of what it stores; a request, pass or cycle in flight is a record
with a `stage`, which names the next command it will send; every `await` on a
command is a step boundary and nothing else is.  Values read earlier and used
later (the pass's clock, the profile hash, the event's status) are fields of
that record, so a stale read is stale in the model too.  Definitions whose
comment begins with "Mutant" are faults planted to show that a property notices
them; no specification uses them.

**SchedulerLock.**  One scheduler on several worker processes.  A cycle computes
its bucket (`BeginCycle`), connects lazily (`Connect`, with the retry backoff),
asks for the key (`SetGranted`, `SetBusy`, `SetThrows`: the answer can be lost
after the server stored the token), works, and releases with a GET and a DEL
(`ReleaseGet`, `ReleaseDel`, `ReleaseThrows`).  `Kill` covers crashes and the
shutdown that does not wait for the cycle.  `Runtimes` enumerates the
environments: production or not, locks configured or not, `worker.ts` (which
refuses an unlocked production) or `server.ts` (which does not).  The process's
local lock map is left out: schedulers ask for a lock in production only, where
the fallback to it is refused.  `ImplementsBucketMutex` is the refinement: the
holders of a key, bucket by bucket, move as `BucketMutex` allows.

**BurnoutAlerts.**  One user.  The planner reads a snapshot (`BeginPass`), the
transit (`PlanUser`), the job of the day (`ReadJob`) and writes it (`WriteJob`);
the dispatcher reads the due jobs (`ReadDue`), a second snapshot
(`TakeSnapshot`) and works on them concurrently (`PushDelivered`, `PushRefused`,
`Record`, `Deactivate`, `WriteFails`).  `SeenRead` and `SeenWrite` are the two
halves of `POST /burnout-seen`.  Days are both the server's (`ServerDay`) and
the user's (`LocalDay`), as in the code, which mixes them.  One worker's passes
follow each other, and the pushes a rejected pool left behind are over before the
next one (an interval is longer than a push); `LockedAlerts` is without that
assumption.  The transit and its
risk are a constant relation `Risky` between profile and server day.  `log`,
`lost` and `hushed` are history: what reached the device, what of it did not
stay on record, and which days were acknowledged with nothing to overtake
the acknowledgement (`Overtakes`).

**Sessions.**  A pair of tokens is the number of its draw.  `held` is what a
client was answered; requests use held pairs only.  Rotation is `RefreshRead`,
`RefreshWrite`, `RefreshTouch`, `Answer`: the write is by `_id` and does not look
at the token again, so overlapping rotations of one pair all succeed, and the
last write wins.  Linking is `LinkCheck` and `LinkWrite` under the unique index
on `appleSub`.

**Billing.**  One user.  What RevenueCat knows is a version; each version has an
event, delivered until a delivery is answered 200.  `Claim` is the insert (or the
update of a failed event), `Fetch` asks for the version of the moment,
`WriteSnapshot` and `WriteTier` are the two documents, `Settle` or
`RecordFailure` the outcome.  `known` is whether a handler found its event
recorded before, hence as failed: two handlers work on one event only when both did
(`OneHandlerPerEvent`).  `alone` is history: whether another sync was under
way since the handler's began.

**JobScans.**  One user, several scans.  `Look` is what a scan makes of the
cached page; an invalidation deletes from three collections in any order;
`ReadNegative`, `CheckLimit`, `Fetch`, `Store`, `ClearNegative` lead to the page,
`ReadProfile`, `ReadAnalysis`, `ResolveDepth`, `Persist`, `Count` to the answer,
`ReadHistory` and `WriteHistory` to its history row.  An import brings the date its
client says, past or future.  Parsed features are a
function of the page and left out.

**BirthProfile** and **InterviewWindow.**  One user, one table `req` of what is
served: client requests and the worker's pass.  `BirthProfile` has the edits:
`ReadExisting` and `Upsert` are the two halves of the PUT, `PostProfile`,
`PostEmpty` and `StoreChart` the POST.  `InterviewWindow` adds what is computed
from the profile.  The pass starts from the settings it read for all users (`BeginPass`) and takes its
day when it comes to this one (`DaysOf`), a GET starts
from its own (`BeginPlan`); `Expire` decides, `ReadSettings` and `Clear` begin a
rebuild, `ReadNatal`, `Transit`, `WriteSlot`, `Polish` and `RecordRange` are the
generation, `Fetch` is the plan, `ReadReset`, `WipeSlots` and `WipeSettings` the
reset after a PUT (two commands sent together).  Selection (`Select`, `Pick`,
`Target`) is the code's, over scores and starts that are constants of profile and
day.  Slots carry the profile they were computed from and the one their
explanation speaks of, which the documents do not: that is the point.  `planned`
and `clean` are history: the days whose generation ended, and whether anything
disturbed the window (an overlap of an edit, a failure in a reset or rebuild, a
POST that changed the profile) since it was last built without company.  Words are
written from the transit of the profile of that moment, which after an edit need
not be the slot's (`Polish`).

**LockedAlerts.**  `SchedulerLock` with the work of a cycle filled in: `Snapshot`,
`ReadJob`, `WriteJob`, `ReadDue`, `PushJob`, `Record` are the commands of one
user's passes, `LockStep` a step of the timer loop and of the lock with what it does to
the passes: `BeginsWork`, `EndsWork` at a command that throws or at the end,
`Dies` anywhere, and `LeavesBehind`.  The last is the rejected pool: when the catch
block of another user's job throws, `Promise.all` (`asyncPool.ts`) rejects, the
cycle ends and the `finally` gives the lock back, while this user's push goes on.
It is then `behind` (`LeftPush`, `LeftRecord`, `LeftRecordFails`: the same
commands), and a cycle of any bucket, the same one included, may run beside it.
The account's documents do not change here, `BurnoutAlerts` has what they do.

Two things thus escape the lock.  Timers have their own phases, so that even a
short cycle begun at a bucket's end runs beside the next bucket's cycle of
another worker; and a push left behind runs beside whoever is granted the lock next.
Either way a device can be pushed twice, and `planned`, `skipped` or `failed` written over
`sent`.  `met` (what a cycle has run beside) and `crossed` (the pushes left behind
that a cycle ran beside) are the history that shows there is no other way
(`OncePushedUnlessBesideAnother`).

**LunarAlerts.**  The dispatch, the acknowledgement and the snapshot are those of
`BurnoutAlerts`, line by line the same code; the planner is not.  The job is found
and written by the day of the transit, which is the server's, while its time is of the
local day of the pass (`ReadLunarJob`, `LunarSchedule`, `WriteLunarJob`), and a user
without premium keeps what is planned (`PlanLunarUser`).  Two consequences that
the model shows and the properties allow: a user ahead of UTC can get two pushes on one
local day, for the jobs of two server days; and an acknowledgement of today's job
does not silence yesterday's that is planned for the same local day.

**Narratives.**  Every request and the midnight run is an actor that goes down the
chain briefing, plan, synergy, transit as far as it must (`FindTransit` to
`PersistBriefing`) and comes back up.  A plan whose request does not wait is
stored as pending, launched (`Launch`) and finished by a task (`Enhance`,
`Finish`, `Catch`).  A plan and a briefing read the profile twice, for their key and for
their transit: `of` says which profile each was built from.  Things a reader of the code may
not expect, all in the model: a failed synergy is served for the rest of the day
and a failed plan until a refresh; `updatedAt` of a plan is the early `now` of its
request, so that a pending plan may be made again while its task runs; a
document that mixes two profiles is served again when the user returns to the first; a
briefing built before the synergy was ready is served all day; a task whose
`catch` fails too ends the process.  The switches of synergy and plan are one
variable `llm`; the free tier's plan, which never waits, is left out.

**FullNatal.**  `Find`, `Check` and `Settle` are the lookup, the in-flight map and the
`finally` that empties it; `Read` is the chart and market data, `Answers`, `Retry`
and `GiveUp` the attempts of the first and the second provider one by one, `Store`
and `Answer` the end.  Each process has its own maps.  Two processes may each make the report (the last
write wins), and so may a request that looked before the report was stored.
After the store a failing command still makes the progress `failed` and the
answer a 502.  Finished records may expire at any time, which the code's TTL only
allows later.

**DiscoverRoles.**  `AwaitSeed`, `UpsertRole`, `RetireRole` and `EndCommand` are the
seeding, role by role within two unordered bulk commands, once per process; a
failed one refuses every request of its process until a restart.  `Load` to
`Keep` is the ten-minute cache of the catalog, `ReadStored` to `Send` the
recommendations and the search, `ReadTitle`, `ReadLegacy`, `Backfill` the current
job with its move from the old collection, `Put`, `Drop`, `Clear` its edits,
`ReadEntry`, `Save`, `RemoveEntry` the shortlist.  `PUT /birth-profile` with
`currentJobTitle: null` (`EditTitle`) is undone by the next GET while the old
document exists, because the backfill does not delete it
(`docs/backend-api-runtime-map.md:49`); `StaysChosen` begins with the first PUT or
DELETE of the job's own routes, which do.  A role's score is a constant; a search is any few roles of the
catalog the process holds.

## 3. Runs

Every run finishes in under five minutes on two workers.  Deadlock is checked in
all of them: clocks stop at `MaxTime`, but a step that changes nothing (a
refused request) or that the environment may always take remains.

| Run | Instance | Result |
|---|---|---|
| `SchedulerLock` | `LockedAlerts` with 2 workers, interval 3, TTL 2, backoff 1, clock to 4, 1 death, cycles fit the TTL, a job due at 2 | 2,234,278 states up to symmetry, all hold |
| `BurnoutAlerts` | days of 3 ticks, local day 1 tick ahead, cooldown 2, clock to 4, 2 profiles, 2 account changes or acknowledgements, 1 fault, under fairness | 623,141 states, all hold |
| `LunarAlerts` | as `BurnoutAlerts`, safety only | 797,518 states, all hold |
| `Sessions` | 4 users, 2 requests at once, 1 Apple identity, access TTL 1, refresh TTL 2, two starts per window of 2, clock to 2, 3 pairs, 1 fault | 1,787,456 states up to symmetry, all hold |
| `Billing` | 2 handlers, 3 versions (active, billing issue in grace, expired), a stranger's event, 1 manual sync, 1 fault, under fairness | 464,722 states, all hold |
| `JobScans` | 2 scans, 1 URL and the screenshots key, 1 posting and the challenge page, 1 profile that may be missing, limits on or off, page TTL 1, clock to 1 | 7,989,547 states up to symmetry, all hold |
| `JobUsage` | 1 scan, 2 URLs, 2 postings, one day | `FullWithinLimit` violated |
| `InterviewWindow` | 1 request beside the worker, 2 profiles, 2 edits of profile or settings, edit locks off, horizon 3, threshold 1, refill 1, 2 slots in 3 days, clock to 1, 1 fault, under fairness | 1,418,316 states, all hold |
| `EditLocks` | the same with edit locks on, no fault | `EditLocksHold` violated |
| `Narratives` | 1 client beside the midnight run, 2 background tasks, 2 profiles, LLM on or off, retry after 1, clock to 1, 3 requests, 2 edits, 1 fault, under fairness | 931,506 states, all hold |
| `FullNatal` | 2 processes, 2 requests, 2 profiles, two providers or none, 1 retry, attempts and market data of 1 tick, records of 3, 1 fault, under fairness | 831,220 states, all hold |
| `DiscoverRoles` | 2 processes, 2 actors, 2 requests, 2 versions with 3 roles between them, cache TTL 1, clock to 1, 1 edit or removal, 1 fault; recommendations, the job's routes and the shortlist followed in turn | 4,042,175 states up to symmetry, all hold |

**Why the bounds are enough.**  The interesting cases are overlaps of two
readers and writers of one document, a fault between two of their commands, and
a boundary of time between them.  Every instance has two actors on each document (a pass
beside an acknowledgement, a client beside the worker), one
fault (a second one adds a second loss of the same kind), and a clock that
crosses each boundary: a TTL and a bucket change during a cycle
(`SchedulerLock`), a day change of both calendars and the cooldown
(`BurnoutAlerts`, `LunarAlerts`), the end of a bucket between two timers
(`SchedulerLock`), the retry of a pending plan (`Narratives`), the record's age
against the stages (`FullNatal`), the catalog's cache (`DiscoverRoles`), both expiries and two limiter windows (`Sessions`), a page's
expiry (`JobScans`), the day on which the window falls to its threshold
(`InterviewWindow`, with edit locks off so that two PUTs fit in one day).  Four users and two starts per
limiter window are the fewest with which twice the maximum of starts could fall into one stretch,
across the end of a window; three pairs give one start and two
overlapping rotations.  Three versions let a slow sync of the first be overtaken
by the third.  Two tasks let the failure of one follow the success of another.
The three parts of `DiscoverRoles` share no document but the catalog, which
the seedings alone write.  Where a theorem exists (section 5) the bound does not matter.

**Symmetry** is used where actors are interchangeable and no property is temporal
beyond a step: workers, users and requests, scans, processes.

## 4. What the runs found

Two statements of the repository are not what the code does; each is a run that
TLC ends with a trace.

- *One Full analysis a day* (`docs/jobs-api-contract.md`, run `JobUsage`).  The
  update that counts a scan names the same paths in `$set` and `$setOnInsert`,
  which MongoDB refuses, so with limits enabled no count is stored and the scan
  ends in a 500 after its analysis was.  The retry is answered from the cache.
- *An edit locks the next edit* (`docs/backend-api-runtime-map.md`, run `EditLocks`).
  Only the PUT looks at the lock.  `POST /natal-chart` with a body stores its
  profile without a policy, sets no lock and does not reset the interview window,
  whose slots stay those of the old profile: hence the proviso `clean` of
  `SlotsFollowProfile`.

Others hold up to a case that the properties name, and the proofs show that the
case is the only one:

- *Release by token* (`docs/redis-cache-and-locks-current-state.md:62`): `releaseLock`
  compares with GET and deletes with a DEL that names no token, so a cycle whose
  TTL ends between the two frees the next owner's key.  The document makes no such
  exception: with `CyclesFitTtl = FALSE` (2 workers, interval 3, TTL 1, clock to 2) TLC
  finds `ReleaseByToken` violated.  As long as no TTL ends there the release is by
  token, however long the cycle itself took (`ReleasesByToken`, section 5).
- *An acknowledged day stays quiet* (`docs/notifications-and-billing-contracts.md:77`,
  `:88`): an acknowledgement between the planner's read and write of the job is
  overwritten by `planned`, and dispatch does not look at `seenAt`.  A push that is under way
  goes out, too, and so may one when the planner is at work for a profile the user has
  just left.  TLC finds a push for each of the three, and nowhere else: the statement holds
  in the middle of a pass as well (`SeenSuppressesUnlessOvertaken`, proved as
  `AcknowledgedIsQuiet`).
- *Duplicates are events already processed* (`routes/billing.test.ts`): an event is
  stored as `ignored` before it is processed, and every stored event that is not
  `failed` is answered 200; RevenueCat stops repeating one whose first handler
  dies or is still at work when its failure is yet to come.  `AckedIsApplied` and `EventsAreApplied` show that this is the only way to
  lose one.
- *The filled range has no gap*: for the configured numbers of days; where threshold
  and refill together are not fewer days than the horizon, a refill beside a rebuild can
  leave one (`FilledWasPlanned`, section 5).
- *Older rows do not overwrite newer ones* (`docs/jobs-api-contract.md`): comparing
  and writing a history row are two commands, as they are for the shortlist.
  `HistoryKeepsNewest` and `ShortlistKeepsNewest` show that an overlap is the only way.

## 5. Proofs

The theorems hold for every value of the constants their modules' ASSUMEs allow.

**The lock** (`WorkerProofs`, the module of what the worker's timers do).  `OneCyclePerBucket` is not inductive: it
says nothing of what is in Redis.  The invariant is `TypeOK` with `HolderOwnsKey`
(a holder's token and expiry are those of the live key), `TokensApart` (no two
processes know one token), `ReleasersHold` and `ProductionHolds`.  Two holders of
one bucket would both own its key, hence know one token.  A key is only replaced
when it has expired, and under `CyclesFitTtl` (the clock does not pass a holder's
expiry) no holder's key has; this assumption is on the load, not in the code.
From the invariant follow
`HolderKeepsKey`, `CyclesExclude`, `ProductionIsLocked` and the
refinement `LockImplementsMutex`; `TypeCorrect` needs no assumption.

`ReleasesByToken` is proved for cycles of any length, from an invariant of its own
(`RInv`): a worker that got its token back from the GET still finds it under the
key at the DEL (`DelOwns`), because a token is drawn once and a key lives until the expiry its
worker was granted (`TokenHasExpiry`).  Its one hypothesis is `DelsInTime`, that no
TTL ends between the GET and the DEL; it cannot be dropped (section 4).

**The alerts under the lock** (`WorkerProofs`).  `AlertsUseTheLock` says that every
behaviour of `LockedAlerts` is one of `SchedulerLock`, so that all of the above holds
of it.  `PushedOnceUnderLock` adds, for any number of workers and buckets, pushes
left behind included: a worker that met nothing is alone, because whoever works
beside it is in `met` (`Meets`) and would have to share its bucket, and a push left
behind that no cycle crossed is alone too (`StraysCross`).  What one that is alone
goes by is still so (`CurrentAlone`): a push about to be sent is of a planned job, and what
is about to be recorded finds no record.

**The alerts** (`AlertsProofs`).  The two schedulers differ in the planning of a
user only.  `SharedStep` is what both do, `Planning` the little the proofs need
of a planning step: it changes a job that was not `sent`, and plans one only if
the pass's snapshot showed no recent push.  `BurnoutStep` and `LunarStep` show
each scheduler to be of that form, everything else is proved once for both.
`PassInv` says what a pass may still rely on from what it read: nothing is in
flight while the planner works (`QuietWhilePlanning`), and the job of a push in
flight is not `sent` (`InFlightUnsent`), since planning and dispatch are one
sequence and only an acknowledgement runs beside it, which `lost` accounts for.
From it follow:

- `PushStaysOnRecord`, and with the equation `PushesAccounted` (the pushes of a
  day are those on record, in flight or lost) `DuplicatesAreLostPushes`, for both
  schedulers;
- `CooldownIsKept`.  `CooldownByPlanning` speaks of the log alone.  `CooldownInv`
  adds the chain from the log to the next push: a push that was not lost is in the
  job's record (`PushRecorded`), a pass whose snapshot showed no recent push knows
  all there are (`RecentKnown`), so what it plans is clear of every earlier push
  (`PlansClear`), and so is what the dispatch carries (`SendsClear`).
  `LunarTwiceAcrossMidnight` follows with `NoRepeat`, that a day whose push is on
  record is not pushed again;
- `LunarJobsAreInRange`, from what the planner carries from the transit to the
  write (`RangeInv`);
- `AcknowledgedIsQuiet`: `HushInv` says that the job of a day in `hushed` stays
  cancelled, seen and of the profile, with no push of it in flight and no planner that
  would rewrite it, until the profile changes.

**Sessions** (`SessionsProofs`).  `KeepsAccess` speaks of clients that were
answered; the invariant `PairKnown` speaks of every stored session: its pair is
held or on its way.  `Unknown` and `Inserting` say that a user without a session
is worked on by the one request that creates it, so the insert overwrites nothing
and revokes nothing.  From these follow `RefreshKeepsAccess` and
`RevocationIsFinal`; `AppleOwnerIsUnique` needs the types alone.
`LimiterBoundsStarts` is about time: the limiter counts within windows of its own,
the property within any.  `LimiterInv` says that what was admitted before the
current window was at least a window's length before its end, and what was admitted
before the previous one two, so that at most two of the limiter's windows reach
into any stretch of one window's length; and the first start of the earlier one,
with which it began, is too early for a stretch that reaches into the next.  Hence fewer than
twice the maximum.

**Billing** (`BillingProofs`).  `Serving` bounds what a handler stores by its
event from below and by RevenueCat's version from above; `Claimed` and
`Inserted` make the unique index meaningful (an event that is worked on is
stored, and one that a handler inserted has not failed since, so that nobody else claims it);
`Ignored` says who still owes an outcome; `Lone` and `LoneIsNewest` say that a sync that met no other has
the store to itself.  All safety properties of the `Billing` run are proved.

**Job scans** (`JobScansProofs`).  `FreshPageSurvives` needs to know that a scan that
still deletes a page looked before the page was stored.  The invariant says, of
each URL, that once a posting was stored it is `touched`: its cache holds no
challenge page any more, and whoever is still to delete there is `late`.  That
holds because only an earlier version stored challenge pages.  `Clean` (no scan
holds one) gives `NoChallengeServed`, `Kept` (what was answered is stored or
spoiled by a late scan) gives `GivenIsReopenable`.

**The interview window** (`WorkerProofs`).  Both properties speak of states at rest; the
invariants say the same of states in which requests are under way.

- A step is first brought to its effect (`EffectOf`: what it does to slots, settings
  and its own request, field by field), by `ServeEffects`, and both invariants are proved
  of the effects.  `LoneIsAlone` ties the history flag `alone` to its meaning: a request
  that still has it meets no other in flight.
- `SlotsFollow`: `Followed` adds to `SlotsFollowProfile` that while the window is
  undisturbed every generation works from the active profile, that a rebuild which
  is alone leaves only slots of its profile, and that a reset which is alone deletes
  every coming one (`Relies`).
- `FilledWasPlanned`: `Filled` counts a day as covered when it was generated or when a
  rebuild under way will generate it (`Soon`), and keeps every day up to the end of the
  settings, and up to the begin of each refill, covered.  A rebuild deletes what was
  generated, so it must make every day up to the end it replaces; that is why no end may
  lie behind a whole window from today, and that needs the hypothesis
  `RefillIsShorter`: threshold and refill together are fewer days than a window
  built anew.  It is not a convenience: TLC finds `FilledIsPlanned` violated with
  horizon 2, threshold 1, refill 2, clock to 2, no edit and no fault (a rebuild works when
  its first day is past, a pass reads the end beyond the rebuild's and refills behind
  it, and a day between is generated by nobody).  The defaults (30, 14, 14:
  `config/env.ts:184`) satisfy it; the limits of the environment (7..90, 1..45,
  1..45) do not ensure it.  The run's values (3, 1, 1) satisfy it.
- That the selection picks days of its range (`SelectIn`) is a fact about a recursive
  function.  It is proved without an induction theorem: of the naturals at which it fails
  there would be a least one (`LeastOf`, from `NatLessThanWellFounded`).
- `WindowTypes` is what these invariants need of the types: what a request carries at each
  stage.  `WindowTypeCorrect` proves `WindowTypeOK` from it.  The length of an edit
  lock is a power of two, and the provers know no powers, so that lengths are
  numbers is its hypothesis (`LockDaysAreNumbers`), which every value of the constants meets.

**Narratives** (`NarrativesProofs`).  `OwnUntilLeft` and `PendingIsServed` become
inductive when every actor's and task's profile is accounted for: a worker names
profiles the user has had, what it carries speaks of the profile it is filed
under unless that was left, and a pending plan has a writer on its way to
`Launch` or a task.  `ReadyIsKept` is an action property from the types and the guards
of `Finish` and `Catch`.

**Full natal** (`FullNatalProofs`).  That a generation is shown for as long as it
lasts is an arithmetic fact: the age of a running record never exceeds what the
stages since its last write have spent, `Spent(k) = (k - 1) * Timeout` before
attempt `k`, and the module's assumption (true of the deployed values: six attempts
of 32 s and five delays of at most 30 s within ten minutes) keeps it below the
TTL.  With it go: who is in a map is live and has a place in it; who has
completed has stored.

**Discover roles** (`DiscoverRolesProofs`).  `CatalogFollowsSeeding` rests on an
invariant per process (`Seeded`): what it upserted is active and what it
retired is not, unless another version wrote since, and roles all versions
know are never retired.  `JobMoved` says what a request that reads the old collection
may still write, which gives `StaysChosen`.  `AnswersStayCurrent` follows the age
of what a process holds (`Aged`, `AgedCaches`): a cached catalog is at most a TTL old,
so a role in it was active then (`LiveSince`), and an answer shows roles of the
catalog its request held.  That an answer is long enough is a fact about the ranking
(`BestCount`): the rank maps the best `k` roles one to one onto the ranks below
`k`, which counts them without an induction over the roles.

**Only model-checked.**  Liveness (`DueJobsResolve`, `EventsAreApplied`,
`HorizonIsKept`, `PendingResolves`, `AnsweredEventually`): fairness and ENABLED are
out of the prover's reach.  So is what the
selection's recursive functions compute, beyond that they pick days of the range.
`OneAppleOwner` of `Sessions` is proved only:
a run would restate the unique index.

## 6. Fairness

`Spec` of `BurnoutAlerts` and `Billing`, `WindowSpec` and `FairSpec` of
`Narratives` and `FullNatal` state it, the other modules claim safety only.

- *Alerts.*  Weak fairness of the pass and of each push, record and
  acknowledgement write: once begun, an `async` function runs when its promise
  settles, and drivers and `fetch` have timeouts.  Weak fairness of `Restart`: the
  platform restarts a worker that exits.  Weak fairness of the clock.  None of
  the user's actions is fair.
- *Billing.*  Weak fairness of each handler's next command.  Strong fairness of
  the delivery of each event: RevenueCat repeats a webhook until it is answered
  200, and between repetitions a handler may be busy, so that the delivery is
  possible again and again but not continuously.  `Change`, `Sync`, faults and
  deaths are not fair.
- *Interview window.*  Weak fairness of the beginning of the worker's pass (a timer
  that is set again after each cycle) and of its next command.  Requests, edits
  and the clock are not fair: a request may stop half way and `HorizonIsKept`
  still holds.
- *Narratives.*  Weak fairness of each background task: its promise settles, as
  providers are asked with timeouts.  Strong fairness of `Launch`, the synchronous step
  after a pending plan is stored: a bound of the model, the pool of tasks, can
  disable it for a while.  Requests are not fair otherwise.
- *Full natal.*  Weak fairness of each request's next step: every command and
  attempt has a timeout.

## 7. What is not modelled, and why

- Within the modelled parts: the burnout event trail (its failures are
  swallowed), the limit of 50 due jobs a pass, risk scores and schedules to the
  minute, the raw HTML and parsed features of postings, market data, the limits of
  premium users, all wording and formatting.
- Users, URLs and days that do not interact are one where one is enough: jobs are
  keyed by user and day, sessions by user, caches by URL and content.
- In `InterviewWindow`: the scores and the timing of slots (constants of profile
  and day), the settings that do not reach generation, the premium check, the
  limit on slots polished per generation (any may be left as they are).
- In `LockedAlerts`: everything of `BurnoutAlerts` that is not about the overlap of
  cycles (edits, acknowledgements, a second day).
- In `Narratives`: the free tier, scores and wording, the history listing's content.
- In `FullNatal`: the stage a record shows, the text of a report, its prompt version.
- In `DiscoverRoles`: how a query ranks roles, market data (it decorates and reorders
  candidates), the texts of a role's detail.
- LLM gateway: its attempts are part of `FullNatal`, their outcome of `Narratives`;
  telemetry and parsing are left out.
- Market data: clients with a cache per occupation, nothing that two actors could
  disagree about.  JSON cache and metrics: one reader and writer.
- Risk scores and the choice of the minute: pure functions of charts, constants here.
- Provider clients (astrology, job boards, O*NET), validation schemas, build files
  and scripts keep no state of their own.

## 8. Plan

What is left, in the order of what a fault there would cost:

1. The actions of `LockedAlerts` shown to be planning and dispatch steps of
   `BurnoutAlerts` for one day, so that one proof serves both.
2. `BirthProfile` with several PUTs at once (a lock never shrinks).
3. The computation of the schedules' minutes as pure operators against a
   reference definition.
4. `LlmGateway` as a module of its own, refined to "an answer or the last error after a
   bounded number of attempts", which `FullNatal` and `Narratives` instantiate.
5. The occupation cache of market data.
