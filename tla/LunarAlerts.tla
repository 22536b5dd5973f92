----------------------------- MODULE LunarAlerts -----------------------------
(***************************************************************************)
(* Lunar productivity alerts: services/lunarProductivityScheduler.ts,      *)
(* services/lunarProductivity.ts and their routes.                         *)
(*                                                                         *)
(* The scheduler is the sibling of the burnout one: the same snapshot, the *)
(* same dispatch, the same acknowledgement.  Those steps are taken over    *)
(* from BurnoutAlerts, jobs being lunar_productivity_jobs.  The planning   *)
(* of a user differs: the job is the one of the transit's day, which is    *)
(* the server's, while its time is computed for the local day of the pass; *)
(* a user without premium or profile keeps the jobs that are planned; the  *)
(* range of the score is looked at after the job was read.                 *)
(***************************************************************************)
EXTENDS BurnoutAlerts

VARIABLE transitDay   \* dateKey of the transit the planner works with

lunarVars == <<vars, transitDay>>

LunarInit == Init /\ transitDay = 0

\* runPlanningPass: settings, tiers, tokens and recent pushes in one snapshot.
BeginLunarPass == BeginPass /\ UNCHANGED transitDay

\* planLunarProductivityAlertForUser up to the transit: a user who is not
\* premium, or has no profile, is left as he is.
PlanLunarUser ==
  /\ cycle.stage = "user"
  /\ \/ /\ ~cycle.premium \/ account.profile = NoProfile
        /\ cycle' = [cycle EXCEPT !.stage = "due"]
        /\ UNCHANGED transitDay
     \/ /\ cycle.premium /\ account.profile # NoProfile
        /\ cycle' = [cycle EXCEPT !.stage = "job", !.profile = account.profile]
        /\ transitDay' = ServerDay(now)
  /\ UNCHANGED <<world, jobs, send, seen, history>>

\* resolveLunarProductivityImpactDirection and ...PushSeverity of the transit
InRange(profile, day) == <<profile, day>> \in Risky

\* The job of the transit's day is read.  Outside the range its plan is
\* cancelled; a job that was sent, or that is current and seen or planned, ends
\* the planning of the user.
ReadLunarJob ==
  /\ cycle.stage = "job"
  /\ LET latest == jobs[transitDay]
         settled == \/ latest.status = "sent"
                    \/ CurrentFor(latest, cycle.profile) /\ (latest.seen \/ latest.status = "planned")
     IN  IF InRange(cycle.profile, transitDay)
           THEN /\ cycle' = [cycle EXCEPT !.stage = IF settled THEN "due" ELSE "write"]
                /\ UNCHANGED jobs
           ELSE CancelDay(transitDay, cycle.at) /\ cycle' = [cycle EXCEPT !.stage = "due"]
  /\ UNCHANGED <<world, send, seen, history, transitDay>>

\* computeLunarScheduleFromPredictedEventMinute, reduced to ticks: the time of
\* the local day the pass runs in, or none.
LunarSchedule(at) == IF MissesPeak(at) THEN Never ELSE PlannedFor(at)

\* upsertSkippedJob and the last upsert: seenAt is the one field they leave.
LunarUpsert(day, status, scheduledAt) ==
  jobs' = [jobs EXCEPT ![day] =
    [status |-> status, profile |-> cycle.profile, scheduledAt |-> scheduledAt,
     sentAt |-> Never, seen |-> @.seen, updatedAt |-> cycle.at]]

\* Mutant: the job of the local day is written, as the burnout planner does.
WriteLunarJobLocally ==
  /\ cycle.stage = "write"
  /\ LET at == LunarSchedule(cycle.at)
     IN  IF cycle.recentlySent \/ ~cycle.hasToken \/ at = Never
           THEN LunarUpsert(LocalDay(cycle.at), "skipped", Never)
           ELSE LunarUpsert(LocalDay(cycle.at), "planned", at)
  /\ cycle' = [cycle EXCEPT !.stage = "due"]
  /\ UNCHANGED <<world, send, seen, history, transitDay>>

\* Mutant: the cooldown is not looked at.
WriteLunarJobAnyway ==
  /\ cycle.stage = "write"
  /\ LET at == LunarSchedule(cycle.at)
     IN  IF ~cycle.hasToken \/ at = Never
           THEN LunarUpsert(transitDay, "skipped", Never)
           ELSE LunarUpsert(transitDay, "planned", at)
  /\ cycle' = [cycle EXCEPT !.stage = "due"]
  /\ UNCHANGED <<world, send, seen, history, transitDay>>

\* The end of the planning: cooldown, token and schedule, then the upsert.
WriteLunarJob ==
  /\ cycle.stage = "write"
  /\ LET at == LunarSchedule(cycle.at)
     IN  IF cycle.recentlySent \/ ~cycle.hasToken \/ at = Never
           THEN LunarUpsert(transitDay, "skipped", Never)
           ELSE LunarUpsert(transitDay, "planned", at)
  /\ cycle' = [cycle EXCEPT !.stage = "due"]
  /\ UNCHANGED <<world, send, seen, history, transitDay>>

\* runDispatchPass: the due jobs, then the snapshot they are judged by.
ReadLunarDue == ReadDue /\ UNCHANGED transitDay
LunarSnapshot == TakeSnapshot /\ UNCHANGED transitDay
EndLunarDispatch == EndDispatch /\ UNCHANGED transitDay

\* sendExpoLunarProductivityPush
LunarPush(d) == (PushDelivered(d) \/ PushRefused(d)) /\ UNCHANGED transitDay

\* The updates of a job in dispatch, its catch block and the token's.
LunarRecord(d) == (Record(d) \/ Deactivate(d) \/ WriteFails(d)) /\ UNCHANGED transitDay

\* A read that throws; the process, as for the burnout scheduler.
LunarFails == (PassFails \/ Crash \/ Restart) /\ UNCHANGED transitDay

\* PUT /lunar-productivity-settings and what else changes the account.
ChangeLunarAccount == ChangeAccount /\ UNCHANGED transitDay

\* POST /lunar-productivity-seen: its read, then its write.
LunarSeenRead == SeenRead /\ UNCHANGED transitDay
LunarSeenWrite == SeenWrite /\ UNCHANGED transitDay

LunarTick == Tick /\ UNCHANGED transitDay

LunarPass ==
  BeginLunarPass \/ PlanLunarUser \/ ReadLunarJob \/ WriteLunarJob
    \/ ReadLunarDue \/ LunarSnapshot \/ EndLunarDispatch

LunarNext ==
  \/ LunarPass \/ LunarFails
  \/ \E d \in Days : LunarPush(d) \/ LunarRecord(d)
  \/ ChangeLunarAccount \/ LunarSeenRead \/ LunarSeenWrite \/ LunarTick

LunarSpec == LunarInit /\ [][LunarNext]_lunarVars

-----------------------------------------------------------------------------
(* Properties; what AlertsProofs proves of both kinds of alerts comes on top. *)

LunarTypeOK == TypeOK /\ transitDay \in Days

\* A job speaks of the day it is stored under: whatever edits, acknowledgements
\* and midnights overlapped, its profile was in range on that very day.
JobsAreInRange ==
  \A d \in Days : jobs[d].status # "none" => InRange(jobs[d].profile, d)

\* Two pushes that follow closer than the cooldown are of two server days, and
\* the later one was planned before the earlier was on record: apart from lost
\* records there is no other way to disturb a user twice.  (A cooldown as long
\* as a day would say this of two pushes on one local day; the code's is 20 h.)
TwiceOnlyAcrossMidnight ==
  \A i, j \in DOMAIN log :
    /\ i < j
    /\ log[j].at <= log[i].at + Cooldown
    /\ lost[log[i].day] = 0
    => log[i].day # log[j].day /\ log[j].plannedAt <= log[i].at
=============================================================================
