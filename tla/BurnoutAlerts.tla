---------------------------- MODULE BurnoutAlerts ----------------------------
(***************************************************************************)
(* Burnout push alerts: the planning and dispatch passes of                *)
(* services/burnoutAlertScheduler.ts, the job records and the in-app       *)
(* acknowledgement of services/burnoutAlerts.ts, and the routes of         *)
(* routes/notifications.ts that write what the passes read.                *)
(*                                                                         *)
(* One user is followed.  burnout_alert_jobs holds one job per local day   *)
(* and every handler works on it by separate reads and writes: a pass      *)
(* takes a snapshot, plans the user's job of the day, reads the due jobs,  *)
(* takes another snapshot and pushes them concurrently, while POST         *)
(* /burnout-seen reads and overwrites the same job.  Pushes may time out   *)
(* after they were delivered, writes may fail, the worker may die.         *)
(*                                                                         *)
(* One worker process runs the cycles, and the check interval is wider     *)
(* than a push (12 s) and the database calls around it, so that the pushes *)
(* of a pool that rejected are over when the next pass begins.             *)
(* LockedAlerts has the pushes such a pool leaves behind, and the cycles   *)
(* of several workers.  Jobs written before profileHash existed, the event *)
(* trail (its failures are swallowed) and the limit of 50 jobs per pass    *)
(* are left out.                                                           *)
(***************************************************************************)
EXTENDS Integers, Sequences, FiniteSets

CONSTANTS
  Profiles,      \* birth profile hashes the user's profile takes
  NoProfile,
  Risky,         \* <<profile, server day>>: the transits in the alert range
  DayLength,     \* ticks per day
  LocalShift,    \* ticks the user's local day is ahead of the server's
  PushTick,      \* tick of the local day the schedule aims at
  LatestTick,    \* last tick of the local day that keeps the lead to the peak
  Cooldown,      \* BURNOUT_ALERT_COOLDOWN_HOURS
  MaxTime,       \* bound: the clock stops here
  MaxChanges,    \* bound: writes by the user and the store
  MaxFaults      \* bound: timeouts, failed writes and deaths

ASSUME AlertAssumption ==
  /\ NoProfile \notin Profiles
  /\ DayLength \in Nat \ {0}
  /\ LocalShift \in Nat /\ PushTick \in Nat /\ LatestTick \in Nat /\ Cooldown \in Nat
  /\ MaxTime \in Nat /\ MaxChanges \in Nat /\ MaxFaults \in Nat

VARIABLES
  now,       \* the clock
  account,   \* the user's documents the passes read
  jobs,      \* burnout_alert_jobs, one per local day
  cycle,     \* the scheduler cycle of the worker
  send,      \* send[d]: where the dispatch of the job of day d stands
  seen,      \* the POST /burnout-seen in flight
  changes, faults,
  log,       \* history: the pushes delivered to the device
  lost,      \* history: lost[d], delivered pushes of day d not on record
  hushed     \* history: the days acknowledged for the profile with nothing to overtake it

vars == <<now, account, jobs, cycle, send, seen, changes, faults, log, lost, hushed>>
world == <<now, account, changes, faults>>
history == <<log, lost, hushed>>

LocalDay(t) == (t + LocalShift) \div DayLength
ServerDay(t) == t \div DayLength
Days == {LocalDay(t) : t \in 0..MaxTime} \cup {ServerDay(t) : t \in 0..MaxTime}

Never == -1
Statuses == {"none", "planned", "skipped", "cancelled", "failed", "sent"}
Job == [status : Statuses, profile : Profiles \cup {NoProfile}, scheduledAt : Int,
        sentAt : Never..MaxTime, seen : BOOLEAN, updatedAt : Never..MaxTime]
NoJob == [status |-> "none", profile |-> NoProfile, scheduledAt |-> Never,
          sentAt |-> Never, seen |-> FALSE, updatedAt |-> Never]

\* "user": the planner's snapshot is taken; "job": the transit is known;
\* "write": the job was read and is to be rewritten; "due": planning is over;
\* "snapshot": the due jobs are read; "dispatch": their workers run.
CycleStages == {"off", "idle", "user", "job", "write", "due", "snapshot", "dispatch"}
Asleep(stage, wakeAt) ==
  [stage |-> stage, wakeAt |-> wakeAt, at |-> 0, premium |-> FALSE, hasToken |-> FALSE,
   recentlySent |-> FALSE, profile |-> NoProfile]

\* The due job as it was read, what the snapshot decided for it, then what is
\* left to be written.
SendStages == {"none", "due", "cancel", "stale", "tokenless", "push",
               "sent", "failed", "unregistered", "deactivate", "caught"}
NoSend == [stage |-> "none", profile |-> NoProfile, plannedAt |-> Never]
NoSeen == [stage |-> "none", day |-> 0, profile |-> NoProfile, sentAt |-> Never]

Init ==
  /\ now = 0
  /\ \E profile \in Profiles \cup {NoProfile} :
       account = [premium |-> TRUE, enabled |-> TRUE, profile |-> profile, token |-> TRUE]
  /\ jobs = [d \in Days |-> NoJob]
  /\ cycle = Asleep("idle", 0)
  /\ send = [d \in Days |-> NoSend]
  /\ seen = NoSeen
  /\ changes = 0
  /\ faults = 0
  /\ log = <<>>
  /\ lost = [d \in Days |-> 0]
  /\ hushed = {}

-----------------------------------------------------------------------------
(* The planning pass.                                                      *)

\* runPlanningPass: settings, tier, tokens and recent pushes in one snapshot.
\* A user whose alerts are disabled is not planned for.  The interval is wider
\* than what a pool that rejected may have left in flight.
BeginPass ==
  /\ cycle.stage = "idle"
  /\ cycle.wakeAt <= now
  /\ \A d \in Days : send[d] = NoSend
  /\ cycle' = [Asleep(IF account.enabled THEN "user" ELSE "due", 0) EXCEPT
       !.at = now,
       !.premium = account.premium,
       !.hasToken = account.token,
       !.recentlySent = \E d \in Days : jobs[d].status = "sent" /\ jobs[d].sentAt >= now - Cooldown]
  /\ UNCHANGED <<world, jobs, send, seen, history>>

\* markUserPlannedJobCancelled
CancelPlanned(at) ==
  jobs' = [d \in Days |-> IF jobs[d].status = "planned"
                            THEN [jobs[d] EXCEPT !.status = "cancelled", !.updatedAt = at]
                            ELSE jobs[d]]

\* markCurrentDayPlanCancelled
CancelDay(day, at) ==
  jobs' = [d \in Days |-> IF d = day /\ jobs[d].status = "planned"
                            THEN [jobs[d] EXCEPT !.status = "cancelled", !.scheduledAt = Never,
                                                 !.updatedAt = at]
                            ELSE jobs[d]]

\* planBurnoutAlertForUser up to the risk: premium, then the daily transit of
\* the server's day for the profile of that moment, then the threshold.
PlanUser ==
  /\ cycle.stage = "user"
  /\ \/ /\ ~cycle.premium \/ account.profile = NoProfile
        /\ CancelPlanned(cycle.at)
        /\ cycle' = [cycle EXCEPT !.stage = "due"]
     \/ /\ cycle.premium /\ account.profile # NoProfile
        /\ <<account.profile, ServerDay(now)>> \notin Risky
        /\ CancelDay(ServerDay(now), cycle.at)
        /\ cycle' = [cycle EXCEPT !.stage = "due"]
     \/ /\ cycle.premium /\ account.profile # NoProfile
        /\ <<account.profile, ServerDay(now)>> \in Risky
        /\ cycle' = [cycle EXCEPT !.stage = "job", !.profile = account.profile]
        /\ UNCHANGED jobs
  /\ UNCHANGED <<world, send, seen, history>>

\* isBurnoutAlertJobCurrentForTransit
CurrentFor(job, profile) == job.status # "none" /\ job.profile = profile

\* Mutant: a job of another profile hash is ignored even when it was sent.
ReadJobOfProfile ==
  /\ cycle.stage = "job"
  /\ LET latest == jobs[LocalDay(cycle.at)]
         settled == /\ CurrentFor(latest, cycle.profile)
                    /\ latest.seen \/ latest.status \in {"planned", "sent"}
     IN  cycle' = [cycle EXCEPT !.stage = IF settled THEN "due" ELSE "write"]
  /\ UNCHANGED <<world, jobs, send, seen, history>>

\* Mutant: the planner does not look at seenAt.
ReadJobUnseen ==
  /\ cycle.stage = "job"
  /\ LET latest == jobs[LocalDay(cycle.at)]
         settled == \/ latest.status = "sent"
                    \/ CurrentFor(latest, cycle.profile) /\ latest.status = "planned"
     IN  cycle' = [cycle EXCEPT !.stage = IF settled THEN "due" ELSE "write"]
  /\ UNCHANGED <<world, jobs, send, seen, history>>

\* The job of the pass's local day is read; a job that was sent, or that is
\* current and seen or planned, ends the planning of the user.
ReadJob ==
  /\ cycle.stage = "job"
  /\ LET latest == jobs[LocalDay(cycle.at)]
         settled == \/ latest.status = "sent"
                    \/ CurrentFor(latest, cycle.profile) /\ (latest.seen \/ latest.status = "planned")
     IN  cycle' = [cycle EXCEPT !.stage = IF settled THEN "due" ELSE "write"]
  /\ UNCHANGED <<world, jobs, send, seen, history>>

\* computeBurnoutScheduleFromPredictedPeakMinute, reduced to ticks.
PlannedFor(at) ==
  LET aim == LocalDay(at) * DayLength - LocalShift + PushTick
  IN  IF at > aim THEN at ELSE aim
MissesPeak(at) == PlannedFor(at) > LocalDay(at) * DayLength - LocalShift + LatestTick

\* Mutant: the planner forgets the cooldown.
WriteJobAnyway ==
  /\ cycle.stage = "write"
  /\ LET skip == ~cycle.hasToken \/ MissesPeak(cycle.at)
     IN  jobs' = [jobs EXCEPT ![LocalDay(cycle.at)] =
           [@ EXCEPT !.status = IF skip THEN "skipped" ELSE "planned",
                     !.profile = cycle.profile,
                     !.scheduledAt = IF skip THEN Never ELSE PlannedFor(cycle.at),
                     !.updatedAt = cycle.at]]
  /\ cycle' = [cycle EXCEPT !.stage = "due"]
  /\ UNCHANGED <<world, send, seen, history>>

\* The upsert that ends the planning: seenAt is the one field it leaves.
WriteJob ==
  /\ cycle.stage = "write"
  /\ LET skip == cycle.recentlySent \/ ~cycle.hasToken \/ MissesPeak(cycle.at)
     IN  jobs' = [jobs EXCEPT ![LocalDay(cycle.at)] =
           [status |-> IF skip THEN "skipped" ELSE "planned",
            profile |-> cycle.profile,
            scheduledAt |-> IF skip THEN Never ELSE PlannedFor(cycle.at),
            sentAt |-> Never,
            seen |-> @.seen,
            updatedAt |-> cycle.at]]
  /\ cycle' = [cycle EXCEPT !.stage = "due"]
  /\ UNCHANGED <<world, send, seen, history>>

-----------------------------------------------------------------------------
(* The dispatch pass.                                                      *)

\* scheduleNext; the last tick stands for the rest of time.
Rest == Asleep("idle", IF now < MaxTime THEN now + 1 ELSE MaxTime)

\* Mutant: only the jobs of the local day are dispatched.
ReadDueToday ==
  /\ cycle.stage = "due"
  /\ LET due == {d \in {LocalDay(now)} : jobs[d].status = "planned" /\ jobs[d].scheduledAt <= now}
     IN  /\ send' = [d \in Days |-> IF d \in due
                        THEN [stage |-> "due", profile |-> jobs[d].profile,
                              plannedAt |-> jobs[d].updatedAt]
                        ELSE NoSend]
         /\ cycle' = IF due = {} THEN Rest ELSE [cycle EXCEPT !.stage = "snapshot", !.at = now]
  /\ UNCHANGED <<world, jobs, seen, history>>

\* The due jobs are read; without any the cycle is over.
ReadDue ==
  /\ cycle.stage = "due"
  /\ LET due == {d \in Days : jobs[d].status = "planned" /\ jobs[d].scheduledAt <= now}
     IN  /\ send' = [d \in Days |-> IF d \in due
                        THEN [stage |-> "due", profile |-> jobs[d].profile,
                              plannedAt |-> jobs[d].updatedAt]
                        ELSE NoSend]
         /\ cycle' = IF due = {} THEN Rest ELSE [cycle EXCEPT !.stage = "snapshot", !.at = now]
  /\ UNCHANGED <<world, jobs, seen, history>>

\* What becomes of a due job, given the tier, settings, profile and token of the
\* moment.
Verdict(profile) ==
  CASE ~account.premium \/ ~account.enabled -> "cancel"
    [] account.premium /\ account.enabled /\ profile # account.profile -> "stale"
    [] account.premium /\ account.enabled /\ profile = account.profile /\ ~account.token -> "tokenless"
    [] OTHER -> "push"

TakeSnapshot ==
  /\ cycle.stage = "snapshot"
  /\ send' = [d \in Days |-> IF send[d].stage = "due"
                                THEN [send[d] EXCEPT !.stage = Verdict(send[d].profile)]
                                ELSE send[d]]
  /\ cycle' = [cycle EXCEPT !.stage = "dispatch"]
  /\ UNCHANGED <<world, jobs, seen, history>>

\* sendExpoBurnoutPush reaches the device and Expo says so, or the answer is
\* lost to the timeout: fetch throws and the push counts as failed.
PushDelivered(d) ==
  /\ send[d].stage = "push"
  /\ log' = Append(log, [day |-> d, at |-> cycle.at, plannedAt |-> send[d].plannedAt])
  /\ \/ /\ send' = [send EXCEPT ![d].stage = "sent"]
        /\ UNCHANGED <<lost, faults>>
     \/ /\ faults < MaxFaults
        /\ faults' = faults + 1
        /\ send' = [send EXCEPT ![d].stage = "caught"]
        /\ lost' = [lost EXCEPT ![d] = @ + 1]
  /\ UNCHANGED <<now, account, changes, jobs, cycle, seen, hushed>>

\* Expo refuses the push, or the device is gone, or it never got there.
PushRefused(d) ==
  /\ send[d].stage = "push"
  /\ faults < MaxFaults
  /\ faults' = faults + 1
  /\ \E stage \in {"failed", "unregistered", "caught"} :
       send' = [send EXCEPT ![d].stage = stage]
  /\ UNCHANGED <<now, account, changes, jobs, cycle, seen, history>>

\* Mutant: a delivered push gets its sentAt and keeps its status.
OutcomeWithoutStatus(job, stage, at) ==
  CASE stage = "cancel" -> [job EXCEPT !.status = "cancelled", !.updatedAt = at]
    [] stage = "stale" -> [job EXCEPT !.status = "cancelled", !.scheduledAt = Never, !.updatedAt = at]
    [] stage = "sent" -> [job EXCEPT !.sentAt = at, !.updatedAt = at]
    [] OTHER -> [job EXCEPT !.status = "failed", !.updatedAt = at]

\* The status a stage leaves, with the fields each of the updates sets.
Outcome(job, stage, at) ==
  CASE stage = "cancel" -> [job EXCEPT !.status = "cancelled", !.updatedAt = at]
    [] stage = "stale" -> [job EXCEPT !.status = "cancelled", !.scheduledAt = Never, !.updatedAt = at]
    [] stage = "sent" -> [job EXCEPT !.status = "sent", !.sentAt = at, !.updatedAt = at]
    [] OTHER -> [job EXCEPT !.status = "failed", !.updatedAt = at]

\* The update by _id: it overwrites whatever the job has become meanwhile.
Record(d) ==
  /\ send[d].stage \in {"cancel", "stale", "tokenless", "sent", "failed", "unregistered", "caught"}
  /\ jobs' = [jobs EXCEPT ![d] = Outcome(@, send[d].stage, cycle.at)]
  /\ send' = [send EXCEPT ![d] = IF @.stage = "unregistered" THEN [@ EXCEPT !.stage = "deactivate"]
                                                             ELSE NoSend]
  /\ UNCHANGED <<world, cycle, seen, history>>

\* The token Expo does not know any more is deactivated, by its _id.
Deactivate(d) ==
  /\ send[d].stage = "deactivate"
  /\ account' = [account EXCEPT !.token = FALSE]
  /\ send' = [send EXCEPT ![d] = NoSend]
  /\ UNCHANGED <<now, changes, faults, jobs, cycle, seen, history>>

\* A write throws.  The catch block writes once more; when that throws too, the
\* pool rejects, and the cycle is over while its other workers still run.
WriteFails(d) ==
  /\ send[d].stage \notin {"none", "due", "push"}
  /\ faults < MaxFaults
  /\ faults' = faults + 1
  /\ IF send[d].stage = "caught"
       THEN /\ send' = [send EXCEPT ![d] = NoSend]
            /\ cycle' = IF cycle.stage = "dispatch" THEN [Rest EXCEPT !.at = cycle.at] ELSE cycle
            /\ UNCHANGED lost
       ELSE /\ send' = [send EXCEPT ![d].stage = "caught"]
            /\ lost' = [lost EXCEPT ![d] = IF send[d].stage = "sent" THEN @ + 1 ELSE @]
            /\ UNCHANGED cycle
  /\ UNCHANGED <<now, account, changes, jobs, seen, log, hushed>>

EndDispatch ==
  /\ cycle.stage = "dispatch"
  /\ \A d \in Days : send[d] = NoSend
  /\ cycle' = Rest
  /\ UNCHANGED <<world, jobs, send, seen, history>>

-----------------------------------------------------------------------------
(* Failures of the pass and of the process.                                *)

\* A read of the pass throws: a user is given up, or the cycle.
PassFails ==
  /\ cycle.stage \in {"user", "job", "write", "due", "snapshot"}
  /\ faults < MaxFaults
  /\ faults' = faults + 1
  /\ cycle' = IF cycle.stage \in {"due", "snapshot"} THEN Rest ELSE [cycle EXCEPT !.stage = "due"]
  /\ send' = [d \in Days |-> NoSend]
  /\ UNCHANGED <<now, account, changes, jobs, seen, history>>

\* The worker dies; what was in flight is not on record.
Crash ==
  /\ cycle.stage # "off"
  /\ faults < MaxFaults
  /\ faults' = faults + 1
  /\ cycle' = Asleep("off", 0)
  /\ send' = [d \in Days |-> NoSend]
  /\ lost' = [d \in Days |-> IF send[d].stage = "sent" THEN lost[d] + 1 ELSE lost[d]]
  /\ UNCHANGED <<now, account, changes, jobs, seen, log, hushed>>

Restart ==
  /\ cycle.stage = "off"
  /\ cycle' = Asleep("idle", now)
  /\ UNCHANGED <<world, jobs, send, seen, history>>

-----------------------------------------------------------------------------
(* The user, the store and the clock.                                      *)

\* PUT /burnout-settings (premium only), PUT /push-token, a subscription that
\* starts or ends, and an edit of the birth profile.
ChangeAccount ==
  /\ changes < MaxChanges
  /\ changes' = changes + 1
  /\ \/ /\ account.premium
        /\ account' = [account EXCEPT !.enabled = ~@]
        /\ UNCHANGED hushed
     \/ /\ account' = [account EXCEPT !.token = TRUE]
        /\ UNCHANGED hushed
     \/ /\ account' = [account EXCEPT !.premium = ~@]
        /\ UNCHANGED hushed
     \/ \E profile \in Profiles :
          /\ profile # account.profile
          /\ account' = [account EXCEPT !.profile = profile]
          /\ hushed' = {}
  /\ UNCHANGED <<now, faults, jobs, cycle, send, seen, log, lost>>

\* POST /burnout-seen up to markBurnoutAlertJobSeenForUser's read: the transit
\* is the server day's, a sent job is only answered.
SeenRead ==
  /\ seen.stage = "none"
  /\ changes < MaxChanges
  /\ changes' = changes + 1
  /\ account.premium
  /\ <<account.profile, ServerDay(now)>> \in Risky
  /\ LET day == ServerDay(now)
     IN  seen' = IF jobs[day].status = "sent" THEN NoSeen
                 ELSE [stage |-> "write", day |-> day, profile |-> account.profile,
                       sentAt |-> IF CurrentFor(jobs[day], account.profile)
                                    THEN jobs[day].sentAt ELSE Never]
  /\ UNCHANGED <<now, account, faults, jobs, cycle, send, history>>

\* What is still to come for a day and has looked at its job, or will look at it for a
\* profile the user has left, before it is acknowledged: a push or its record, and the
\* planner's write.
Overtakes(day) ==
  \/ send[day] # NoSend
  \/ /\ LocalDay(cycle.at) = day
     /\ cycle.stage = "write" \/ (cycle.stage = "job" /\ cycle.profile # account.profile)

\* Its upsert, whatever the job has become since.  History: a push that was on
\* record no longer is; the day is acknowledged for the profile.
SeenWrite ==
  /\ seen.stage = "write"
  /\ jobs' = [jobs EXCEPT ![seen.day] =
       [status |-> "cancelled", profile |-> seen.profile, scheduledAt |-> Never,
        sentAt |-> seen.sentAt, seen |-> TRUE, updatedAt |-> now]]
  /\ seen' = NoSeen
  /\ lost' = [lost EXCEPT ![seen.day] = IF jobs[seen.day].status = "sent" THEN @ + 1 ELSE @]
  /\ hushed' = IF seen.profile # account.profile THEN hushed
               ELSE IF Overtakes(seen.day) THEN hushed \ {seen.day} ELSE hushed \cup {seen.day}
  /\ UNCHANGED <<world, cycle, send, log>>

Tick ==
  /\ now < MaxTime
  /\ now' = now + 1
  /\ UNCHANGED <<account, changes, faults, jobs, cycle, send, seen, history>>

PassStep == BeginPass \/ PlanUser \/ ReadJob \/ WriteJob \/ ReadDue \/ TakeSnapshot \/ EndDispatch
SendStep(d) == PushDelivered(d) \/ PushRefused(d) \/ Record(d) \/ Deactivate(d) \/ WriteFails(d)

Next ==
  \/ PassStep \/ PassFails \/ Crash \/ Restart
  \/ \E d \in Days : SendStep(d)
  \/ ChangeAccount \/ SeenRead \/ SeenWrite \/ Tick

\* The timer fires and promises settle: a pass does not stop half way, a worker
\* that died is started again, and time goes on.
Fairness ==
  /\ WF_vars(PassStep)
  /\ WF_vars(Restart)
  /\ \A d \in Days : WF_vars(PushDelivered(d)) /\ WF_vars(Record(d)) /\ WF_vars(Deactivate(d))
  /\ WF_vars(SeenWrite)
  /\ WF_vars(Tick)

Spec == Init /\ [][Next]_vars /\ Fairness

-----------------------------------------------------------------------------
(* Properties.                                                             *)

Pushes(d) == Cardinality({i \in DOMAIN log : log[i].day = d})

Hash == Profiles \cup {NoProfile}
Account == [premium : BOOLEAN, enabled : BOOLEAN, profile : Hash, token : BOOLEAN]
Cycle == [stage : CycleStages, wakeAt : 0..MaxTime, at : 0..MaxTime, premium : BOOLEAN,
          hasToken : BOOLEAN, recentlySent : BOOLEAN, profile : Hash]
Send == [stage : SendStages, profile : Hash, plannedAt : Never..MaxTime]
Seen == [stage : {"none", "write"}, day : Days, profile : Hash, sentAt : Never..MaxTime]
Push == [day : Days, at : 0..MaxTime, plannedAt : Never..MaxTime]

StateTypes ==
  /\ now \in 0..MaxTime
  /\ account \in Account
  /\ jobs \in [Days -> Job]
  /\ cycle \in Cycle
  /\ send \in [Days -> Send]
  /\ seen \in Seen
  /\ changes \in 0..MaxChanges
  /\ faults \in 0..MaxFaults
  /\ lost \in [Days -> Nat]
  /\ hushed \subseteq Days

\* Every variable stays in its set.
TypeOK == StateTypes /\ log \in Seq(Push)

\* A day is pushed once, and once more for every push whose outcome did not stay
\* on record: no interleaving of a pass with itself or with the user repeats one.
DuplicatesAreLost == \A d \in Days : Pushes(d) <= 1 + lost[d]

\* A push stays on record: no plan, cancellation or failure overwrites it; the
\* one write that does is an acknowledgement that read the job before the push.
SentStaysOnRecord ==
  [][\A d \in Days : jobs[d].status = "sent" /\ jobs'[d].status # "sent" => lost'[d] > lost[d]]_vars

\* The cooldown is kept by planning: of two pushes that follow closer than it,
\* the later one was planned before the earlier was sent, or the record of the
\* earlier was lost.
CooldownByPlanning ==
  \A i, j \in DOMAIN log :
    i < j /\ lost[log[i].day] = 0 =>
      log[j].plannedAt <= log[i].at \/ log[j].plannedAt > log[i].at + Cooldown

\* POST /burnout-seen shall "suppress any same-day unsent burnout push"
\* (docs/notifications-and-billing-contracts.md:77): nothing is pushed for a day that was
\* acknowledged until the profile changes, whatever passes, edits and faults follow or
\* were under way.  The exceptions are all there are: a push of the day under way, and a
\* planner that has read the job of the day and is to rewrite it, or was for a profile
\* the user has left.
SeenSuppressesUnlessOvertaken ==
  [][\A d \in hushed : Pushes(d)' = Pushes(d)]_vars

\* A due job does not stay planned: it is sent, failed, cancelled or replaced.
DueJobsResolve ==
  \A d \in Days :
    jobs[d].status = "planned" /\ jobs[d].scheduledAt <= MaxTime ~> jobs[d].status # "planned"
=============================================================================
