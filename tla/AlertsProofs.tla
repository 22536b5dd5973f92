----------------------------- MODULE AlertsProofs -----------------------------
(***************************************************************************)
(* Proofs about BurnoutAlerts and LunarAlerts for any number of days,      *)
(* profiles, changes and faults: a push stays on record, a day is pushed   *)
(* again only when a push of it went off the record, the cooldown is kept  *)
(* by planning, and an acknowledged day stays quiet.                       *)
(*                                                                         *)
(* The two schedulers differ in the planning of a user only.  What the     *)
(* proofs need of a planning step is stated once (Planning); everything    *)
(* that follows is proved of the steps both share (SharedStep) and of      *)
(* Planning, and each scheduler's planning is shown to be of that form.    *)
(*                                                                         *)
(* The invariants say what a pass may still rely on from what it read: no  *)
(* push is in flight while the planner works (QuietWhilePlanning), the job *)
(* of a push in flight is not yet on record as sent (InFlightUnsent), the  *)
(* recent pushes of the snapshot are still all there are (RecentKnown).    *)
(***************************************************************************)
EXTENDS LunarAlerts, FiniteSetTheorems, TLAPS

\* What both schedulers do: the snapshots, the dispatch, the acknowledgement,
\* the failures and the clock.
SharedStep ==
  \/ BeginPass \/ ReadDue \/ TakeSnapshot \/ EndDispatch
  \/ PassFails \/ Crash \/ Restart
  \/ \E d \in Days : SendStep(d)
  \/ ChangeAccount \/ SeenRead \/ SeenWrite \/ Tick
  \/ UNCHANGED vars

\* A job that was not sent is cancelled, skipped or planned; it is planned by a
\* pass whose snapshot shows no recent push only.
Replanned(d) ==
  /\ jobs[d].status # "sent"
  /\ jobs'[d].status \notin {"none", "sent"}
  /\ jobs'[d].status = "planned" => ~cycle.recentlySent /\ jobs'[d].updatedAt = cycle.at

\* What the planning of a user does, for all that the proofs need to know.
Planning ==
  /\ cycle.stage \in {"user", "job", "write"}
  /\ cycle' \in Cycle
  /\ cycle'.stage \in {"job", "write", "due"}
  /\ cycle'.at = cycle.at
  /\ cycle'.recentlySent = cycle.recentlySent
  /\ jobs' \in [Days -> Job]
  /\ \A d \in Days : jobs'[d] = jobs[d] \/ Replanned(d)
  /\ UNCHANGED <<world, send, seen, history>>

AlertStep == SharedStep \/ Planning

\* Days the clock can show are days of the model.
LEMMA DayTypes ==
  ASSUME NEW t \in 0..MaxTime
  PROVE  LocalDay(t) \in Days /\ ServerDay(t) \in Days
BY DEF Days

\* The schedule is an integer.
LEMMA ScheduleType ==
  ASSUME NEW t \in 0..MaxTime
  PROVE  PlannedFor(t) \in Int
<1>1. LocalDay(t) \in Int
  BY AlertAssumption DEF LocalDay
<1> QED BY <1>1, AlertAssumption DEF PlannedFor

\* The states the program starts in are well typed.
LEMMA TypeInit == Init => TypeOK
<1> SUFFICES ASSUME Init PROVE TypeOK
  OBVIOUS
<1>1. now \in 0..MaxTime /\ ServerDay(now) = 0
  <2>1. now = 0 /\ 0 \div DayLength = 0
    BY AlertAssumption DEF Init
  <2> QED BY <2>1, AlertAssumption DEF ServerDay
<1>2. 0 \in Days
  BY <1>1, DayTypes
<1>3. 0 \in 0..MaxTime /\ Never \in Never..MaxTime
  BY AlertAssumption DEF Never
<1>4. jobs \in [Days -> Job]
  BY <1>3, AlertAssumption DEF Init, NoJob, Job, Statuses, Never
<1>5. send \in [Days -> Send]
  BY <1>3 DEF Init, NoSend, Send, SendStages, Hash
<1>6. cycle \in Cycle
  BY <1>3 DEF Init, Asleep, Cycle, CycleStages, Hash
<1>7. seen \in Seen
  BY <1>2, <1>3 DEF Init, NoSeen, Seen, Hash
<1>8. account \in Account
  BY DEF Init, Account, Hash
<1>9. log \in Seq(Push)
  BY DEF Init
<1>10. StateTypes
  BY <1>1, <1>4, <1>5, <1>6, <1>7, <1>8, AlertAssumption DEF Init, StateTypes
<1> QED BY <1>9, <1>10 DEF TypeOK

\* A cycle that rests or is off is well typed.
LEMMA AsleepType ==
  ASSUME NEW stage \in CycleStages, NEW t \in 0..MaxTime
  PROVE  Asleep(stage, t) \in Cycle
BY AlertAssumption DEF Asleep, Cycle, Hash

LEMMA RestType ==
  ASSUME StateTypes
  PROVE  Rest \in Cycle /\ Rest.stage = "idle"
<1>1. now \in 0..MaxTime
  BY DEF StateTypes
<1>2. (IF now < MaxTime THEN now + 1 ELSE MaxTime) \in 0..MaxTime
  BY <1>1, AlertAssumption
<1>3. Rest \in Cycle
  BY <1>2, AsleepType DEF Rest, CycleStages
<1> QED BY <1>3 DEF Rest, Asleep

LEMMA NoSendType == NoSend \in Send /\ NoSend.stage = "none"
BY AlertAssumption DEF NoSend, Send, SendStages, Hash, Never

\* The updates a dispatch makes keep a job a job.
LEMMA OutcomeType ==
  ASSUME NEW job \in Job, NEW stage, NEW at \in 0..MaxTime
  PROVE  Outcome(job, stage, at) \in Job
<1>1. at \in Never..MaxTime /\ Never \in Int
  BY AlertAssumption DEF Never
<1>2. {"cancelled", "sent", "failed"} \subseteq Statuses
  BY DEF Statuses
<1>3. [job EXCEPT !.status = "cancelled", !.updatedAt = at] \in Job
  BY <1>1, <1>2 DEF Job
<1>4. [job EXCEPT !.status = "cancelled", !.scheduledAt = Never, !.updatedAt = at] \in Job
  BY <1>1, <1>2 DEF Job
<1>5. [job EXCEPT !.status = "sent", !.sentAt = at, !.updatedAt = at] \in Job
  BY <1>1, <1>2 DEF Job
<1>6. [job EXCEPT !.status = "failed", !.updatedAt = at] \in Job
  BY <1>1, <1>2 DEF Job
<1> QED BY <1>3, <1>4, <1>5, <1>6 DEF Outcome

\* The clock and the counters of the bounds stay in theirs.
LEMMA CountStep ==
  ASSUME StateTypes, AlertStep
  PROVE  now' \in 0..MaxTime /\ changes' \in 0..MaxChanges /\ faults' \in 0..MaxFaults
<1>1. now \in 0..MaxTime /\ changes \in 0..MaxChanges /\ faults \in 0..MaxFaults
  BY DEF StateTypes
<1>2. /\ now' = now \/ (now < MaxTime /\ now' = now + 1)
      /\ changes' = changes \/ (changes < MaxChanges /\ changes' = changes + 1)
      /\ faults' = faults \/ (faults < MaxFaults /\ faults' = faults + 1)
  BY DEF AlertStep, SharedStep, Planning, SendStep, vars, world, BeginPass, ReadDue,
         TakeSnapshot, EndDispatch, PushDelivered, PushRefused, Record, Deactivate, WriteFails,
         PassFails, Crash, Restart, ChangeAccount, SeenRead, SeenWrite, Tick
<1> QED BY <1>1, <1>2, AlertAssumption

\* Every step keeps the types.
LEMMA StateTypeStep == StateTypes /\ AlertStep => StateTypes'
<1> SUFFICES ASSUME StateTypes, AlertStep PROVE StateTypes'
  OBVIOUS
<1> DEFINE Data == /\ account \in Account /\ jobs \in [Days -> Job] /\ cycle \in Cycle
                   /\ send \in [Days -> Send] /\ seen \in Seen
                   /\ lost \in [Days -> Nat]
                   /\ hushed \subseteq Days
<1>a. Data /\ now \in 0..MaxTime
  BY DEF StateTypes
<1>b. SUFFICES Data'
  BY CountStep DEF StateTypes
<1>c. /\ 0..MaxTime \subseteq Never..MaxTime /\ Never \in Never..MaxTime /\ Never \in Int
      /\ 0 \in 0..MaxTime
  BY AlertAssumption DEF Never
<1>d. Statuses = {"none", "planned", "skipped", "cancelled", "failed", "sent"}
  BY DEF Statuses
<1>e. \A d \in Days : lost[d] \in Nat /\ lost[d] + 1 \in Nat
  <2>1. lost \in [Days -> Nat]
    BY <1>a
  <2> HIDE DEF Data
  <2> QED BY <2>1
<1>f. ASSUME NEW d \in Days, NEW stage \in SendStages
      PROVE  [send EXCEPT ![d].stage = stage] \in [Days -> Send]
  <2>1. send \in [Days -> Send]
    BY <1>a
  <2> HIDE DEF Data
  <2> QED BY <2>1 DEF Send
<1>1. CASE BeginPass
  <2> DEFINE c == Asleep(IF account.enabled THEN "user" ELSE "due", 0)
             sent == \E d \in Days : jobs[d].status = "sent" /\ jobs[d].sentAt >= now - Cooldown
  <2>1. c \in Cycle
    BY <1>c, AsleepType DEF CycleStages
  <2>2. cycle' = [c EXCEPT !.at = now, !.premium = account.premium,
                           !.hasToken = account.token, !.recentlySent = sent]
    BY <1>1 DEF BeginPass
  <2>3. sent \in BOOLEAN /\ account.premium \in BOOLEAN /\ account.token \in BOOLEAN
    BY <1>a DEF Account
  <2> HIDE DEF c, sent
  <2>4. cycle' \in Cycle
    BY <1>a, <2>1, <2>2, <2>3 DEF Cycle
  <2> QED BY <1>1, <1>a, <2>4 DEF BeginPass, world, history
<1>2. CASE Planning
  BY <1>2, <1>a DEF Planning, world, history
<1>5. CASE ReadDue
  <2>1. \A d \in Days :
          [stage |-> "due", profile |-> jobs[d].profile, plannedAt |-> jobs[d].updatedAt] \in Send
    BY <1>a DEF Send, SendStages, Job, Hash
  <2>2. send' \in [Days -> Send]
    BY <1>5, <2>1, NoSendType DEF ReadDue
  <2>3. [cycle EXCEPT !.stage = "snapshot", !.at = now] \in Cycle
    BY <1>a DEF Cycle, CycleStages
  <2>4. cycle' \in Cycle
    BY <1>5, <2>3, RestType DEF ReadDue
  <2> QED BY <1>5, <1>a, <2>2, <2>4 DEF ReadDue, world, history
<1>6. CASE TakeSnapshot
  <2>1. \A profile \in Hash : Verdict(profile) \in SendStages
    BY DEF Verdict, SendStages
  <2>2. send' \in [Days -> Send]
    BY <1>6, <1>a, <2>1 DEF TakeSnapshot, Send
  <2>3. cycle' \in Cycle
    BY <1>6, <1>a DEF TakeSnapshot, Cycle, CycleStages
  <2> QED BY <1>6, <1>a, <2>2, <2>3 DEF TakeSnapshot, world, history
<1>7. ASSUME NEW d \in Days, PushDelivered(d) PROVE Data'
  <2>1. send' \in [Days -> Send]
    <3>1. send' = [send EXCEPT ![d].stage = "sent"] \/ send' = [send EXCEPT ![d].stage = "caught"]
      BY <1>7 DEF PushDelivered
    <3>2. "sent" \in SendStages /\ "caught" \in SendStages
      BY DEF SendStages
    <3>3. /\ [send EXCEPT ![d].stage = "sent"] \in [Days -> Send]
          /\ [send EXCEPT ![d].stage = "caught"] \in [Days -> Send]
      BY <1>f, <3>2
    <3> HIDE DEF Data
    <3> QED BY <3>1, <3>3
  <2>2. lost' \in [Days -> Nat]
    <3>1. lost' = lost \/ lost' = [lost EXCEPT ![d] = lost[d] + 1]
      BY <1>7 DEF PushDelivered
    <3> QED BY <1>a, <1>e, <3>1
  <2> QED BY <1>7, <1>a, <2>1, <2>2 DEF PushDelivered
<1>8. ASSUME NEW d \in Days, PushRefused(d) PROVE Data'
  <2>1. send' \in [Days -> Send]
    BY <1>8, <1>a DEF PushRefused, Send, SendStages
  <2> QED BY <1>8, <1>a, <2>1 DEF PushRefused, history
<1>9. ASSUME NEW d \in Days, Record(d) PROVE Data'
  <2>1. Outcome(jobs[d], send[d].stage, cycle.at) \in Job
    BY <1>a, OutcomeType DEF Cycle
  <2>2. jobs' \in [Days -> Job]
    BY <1>9, <1>a, <2>1 DEF Record
  <2>3. send' \in [Days -> Send]
    BY <1>9, <1>a, NoSendType DEF Record, Send, SendStages
  <2> QED BY <1>9, <1>a, <2>2, <2>3 DEF Record, world, history
<1>10. ASSUME NEW d \in Days, Deactivate(d) PROVE Data'
  <2>1. account' \in Account
    BY <1>10, <1>a DEF Deactivate, Account
  <2> QED BY <1>10, <1>a, <2>1, NoSendType DEF Deactivate, history
<1>11. ASSUME NEW d \in Days, WriteFails(d) PROVE Data'
  <2>1. [Rest EXCEPT !.at = cycle.at] \in Cycle
    BY <1>a, RestType DEF Cycle
  <2>2. send' \in [Days -> Send]
    <3>1. [send[d] EXCEPT !.stage = "caught"] \in Send
      BY <1>11, <1>a DEF Send, SendStages
    <3>2. send' = [send EXCEPT ![d] = NoSend] \/ send' = [send EXCEPT ![d] = [send[d] EXCEPT !.stage = "caught"]]
      BY <1>11 DEF WriteFails
    <3> QED BY <1>a, <3>1, <3>2, NoSendType
  <2>3. lost' \in [Days -> Nat]
    <3>1. \/ lost' = lost \/ lost' = [lost EXCEPT ![d] = lost[d] + 1]
          \/ lost' = [lost EXCEPT ![d] = lost[d]]
      BY <1>11 DEF WriteFails
    <3> QED BY <1>a, <1>e, <3>1
  <2>4. cycle' \in Cycle
    BY <1>11, <1>a, <2>1 DEF WriteFails
  <2> QED BY <1>11, <1>a, <2>2, <2>3, <2>4 DEF WriteFails
<1>12. CASE EndDispatch
  BY <1>12, <1>a, RestType DEF EndDispatch, world, history
<1>13. CASE PassFails
  <2>1. [cycle EXCEPT !.stage = "due"] \in Cycle
    BY <1>a DEF Cycle, CycleStages
  <2> QED BY <1>13, <1>a, <2>1, RestType, NoSendType DEF PassFails, history
<1>14. CASE Crash
  <2>1. Asleep("off", 0) \in Cycle
    BY <1>c, AsleepType DEF CycleStages
  <2>2. lost' \in [Days -> Nat]
    BY <1>14, <1>e DEF Crash
  <2> QED BY <1>14, <1>a, <2>1, <2>2, NoSendType DEF Crash
<1>15. CASE Restart
  <2>1. Asleep("idle", now) \in Cycle
    BY <1>a, AsleepType DEF CycleStages
  <2> QED BY <1>15, <1>a, <2>1 DEF Restart, world, history
<1>16. CASE ChangeAccount
  <2>1. account' \in Account
    BY <1>16, <1>a DEF ChangeAccount, Account, Hash
  <2>2. hushed' \subseteq Days
    BY <1>16, <1>a DEF ChangeAccount
  <2> QED BY <1>16, <1>a, <2>1, <2>2 DEF ChangeAccount
<1>g. 0 \in Days /\ NoSeen \in Seen
  <2>1. ServerDay(0) = 0
    BY AlertAssumption DEF ServerDay
  <2>2. 0 \in Days
    BY <1>c, <2>1, DayTypes
  <2> QED BY <1>c, <2>2 DEF NoSeen, Seen, Hash
<1>17. CASE SeenRead
  <2>1. ServerDay(now) \in Days
    BY <1>a, DayTypes
  <2>2. account.profile \in Hash /\ jobs[ServerDay(now)].sentAt \in Never..MaxTime
    BY <1>a, <2>1 DEF Account, Job
  <2>3. \A t \in Never..MaxTime : [stage |-> "write", day |-> ServerDay(now),
                                   profile |-> account.profile, sentAt |-> t] \in Seen
    BY <2>1, <2>2 DEF Seen
  <2>4. seen' \in Seen
    BY <1>17, <1>c, <1>g, <2>2, <2>3 DEF SeenRead
  <2> QED BY <1>17, <1>a, <2>4 DEF SeenRead, history
<1>18. CASE SeenWrite
  <2>2. seen.day \in Days /\ seen.profile \in Hash /\ seen.sentAt \in Never..MaxTime
    BY <1>a DEF Seen
  <2>3. [status |-> "cancelled", profile |-> seen.profile, scheduledAt |-> Never,
         sentAt |-> seen.sentAt, seen |-> TRUE, updatedAt |-> now] \in Job
    BY <1>a, <1>c, <1>d, <2>2 DEF Job, Hash
  <2>4. jobs' \in [Days -> Job]
    BY <1>18, <1>a, <2>2, <2>3 DEF SeenWrite
  <2>5. lost' \in [Days -> Nat]
    <3>1. lost' = [lost EXCEPT ![seen.day] = lost[seen.day] + 1]
          \/ lost' = [lost EXCEPT ![seen.day] = lost[seen.day]]
      BY <1>18 DEF SeenWrite
    <3> QED BY <1>a, <1>e, <2>2, <3>1
  <2>6. hushed' \subseteq Days
    BY <1>18, <1>a, <2>2 DEF SeenWrite
  <2> QED BY <1>18, <1>a, <1>g, <2>4, <2>5, <2>6 DEF SeenWrite, world
<1>19. CASE Tick
  BY <1>19, <1>a DEF Tick, history
<1>20. CASE UNCHANGED vars
  BY <1>20, <1>a DEF vars
<1> QED
  BY <1>1, <1>2, <1>5, <1>6, <1>7, <1>8, <1>9, <1>10, <1>11, <1>12, <1>13, <1>14, <1>15, <1>16,
     <1>17, <1>18, <1>19, <1>20 DEF AlertStep, SharedStep, SendStep

\* Only a delivered push is appended to the log.
LEMMA LogStep ==
  ASSUME StateTypes, AlertStep
  PROVE  \/ log' = log
         \/ \E d \in Days, e \in Push : PushDelivered(d) /\ e.day = d /\ log' = Append(log, e)
<1>1. ASSUME NEW d \in Days, PushDelivered(d)
      PROVE  \E e \in Push : e.day = d /\ log' = Append(log, e)
  <2> DEFINE e == [day |-> d, at |-> cycle.at, plannedAt |-> send[d].plannedAt]
  <2>1. e \in Push
    BY DEF StateTypes, Push, Cycle, Send
  <2>2. log' = Append(log, e)
    BY <1>1 DEF PushDelivered
  <2> QED BY <2>1, <2>2
<1>2. \/ \E d \in Days : PushDelivered(d)
      \/ log' = log
  BY DEF AlertStep, SharedStep, Planning, SendStep, vars, history, BeginPass, ReadDue, TakeSnapshot,
         EndDispatch, PushRefused, Record, Deactivate, WriteFails, PassFails, Crash, Restart,
         ChangeAccount, SeenRead, SeenWrite, Tick
<1> QED BY <1>1, <1>2

LEMMA TypeStep == TypeOK /\ AlertStep => TypeOK'
<1> SUFFICES ASSUME StateTypes, log \in Seq(Push), AlertStep PROVE StateTypes' /\ log' \in Seq(Push)
  BY DEF TypeOK
<1>1. StateTypes'
  BY StateTypeStep
<1>2. log' \in Seq(Push)
  BY LogStep
<1> QED BY <1>1, <1>2

-----------------------------------------------------------------------------
(* What a pass may rely on from what it read.                              *)

\* No dispatch is in flight from the start of a pass until its due jobs are read.
QuietWhilePlanning ==
  cycle.stage \in {"off", "user", "job", "write", "due"} => \A d \in Days : send[d] = NoSend

\* Nothing is decided about the due jobs before the snapshot.
SnapshotIsDue ==
  cycle.stage = "snapshot" => \A d \in Days : send[d].stage \in {"none", "due"}

\* A job whose dispatch is in flight is not yet on record as sent.
InFlightUnsent ==
  \A d \in Days : send[d].stage # "none" => jobs[d].status # "sent"

Stages == QuietWhilePlanning /\ SnapshotIsDue

LEMMA StagesInit == Init => Stages
BY NoSendType DEF Init, Stages, QuietWhilePlanning, SnapshotIsDue, Asleep

\* Every step keeps the order of the stages.
LEMMA StagesStep == StateTypes /\ Stages /\ AlertStep => Stages'
<1> SUFFICES ASSUME StateTypes, Stages, AlertStep PROVE Stages'
  OBVIOUS
<1> USE DEF Stages, QuietWhilePlanning, SnapshotIsDue
<1>a. cycle \in Cycle /\ send \in [Days -> Send] /\ NoSend.stage = "none"
  BY NoSendType DEF StateTypes
<1>b. Rest.stage = "idle" /\ \A stage, t : Asleep(stage, t).stage = stage
  BY RestType DEF Asleep
<1>1. CASE BeginPass
  BY <1>1, <1>a, <1>b DEF BeginPass
<1>2. CASE Planning
  BY <1>2 DEF Planning
<1>3. CASE ReadDue
  BY <1>3, <1>a, <1>b DEF ReadDue, Cycle
<1>4. CASE TakeSnapshot
  BY <1>4, <1>a DEF TakeSnapshot, Cycle
<1>5. CASE EndDispatch \/ PassFails \/ Crash \/ Restart
  BY <1>5, <1>a, <1>b DEF EndDispatch, PassFails, Crash, Restart, Cycle
<1>6. ASSUME NEW d \in Days, PushDelivered(d) \/ PushRefused(d) \/ Record(d) \/ Deactivate(d)
      PROVE  Stages'
  <2>1. send[d].stage \notin {"none", "due"} /\ UNCHANGED cycle
    BY <1>6 DEF PushDelivered, PushRefused, Record, Deactivate
  <2> QED BY <1>a, <2>1
<1>7. ASSUME NEW d \in Days, WriteFails(d) PROVE Stages'
  <2>1. send[d].stage \notin {"none", "due"}
    BY <1>7 DEF WriteFails
  <2>2. cycle.stage \notin {"off", "user", "job", "write", "due", "snapshot"}
    BY <1>a, <2>1
  <2>3. cycle' = cycle \/ cycle' = [Rest EXCEPT !.at = cycle.at]
    BY <1>7 DEF WriteFails
  <2>4. cycle'.stage = cycle.stage \/ cycle'.stage = "idle"
    BY <2>3, RestType DEF Cycle
  <2> QED BY <2>2, <2>4
<1>8. CASE ChangeAccount \/ SeenRead \/ SeenWrite \/ Tick \/ UNCHANGED vars
  BY <1>8 DEF ChangeAccount, SeenRead, SeenWrite, Tick, history, world, vars
<1> QED BY <1>1, <1>2, <1>3, <1>4, <1>5, <1>6, <1>7, <1>8 DEF AlertStep, SharedStep, SendStep

LEMMA InFlightInit == Init => InFlightUnsent
BY NoSendType DEF Init, InFlightUnsent

\* Every step keeps the jobs in flight off the record.
LEMMA InFlightStep == StateTypes /\ Stages /\ InFlightUnsent /\ AlertStep => InFlightUnsent'
<1> SUFFICES ASSUME StateTypes, Stages, InFlightUnsent, AlertStep PROVE InFlightUnsent'
  OBVIOUS
<1> USE DEF InFlightUnsent
<1>a. /\ cycle \in Cycle /\ send \in [Days -> Send] /\ jobs \in [Days -> Job]
      /\ NoSend.stage = "none"
  BY NoSendType DEF StateTypes
<1>b. Rest.stage = "idle" /\ \A stage, t : Asleep(stage, t).stage = stage
  BY RestType DEF Asleep
<1>1. CASE BeginPass
  BY <1>1, <1>a DEF BeginPass
<1>2. CASE Planning
  <2>1. \A d \in Days : jobs'[d].status = "sent" => jobs[d].status = "sent"
    BY <1>2 DEF Planning, Replanned
  <2> QED BY <1>2, <2>1 DEF Planning
<1>5. CASE ReadDue
  BY <1>5, <1>a, <1>b DEF ReadDue, Cycle
<1>6. CASE TakeSnapshot
  BY <1>6, <1>a DEF TakeSnapshot, Cycle, Send
<1>7. CASE EndDispatch \/ PassFails \/ Crash \/ Restart
  BY <1>7, <1>a, <1>b DEF EndDispatch, PassFails, Crash, Restart, Cycle, world, history
<1>8. ASSUME NEW d \in Days, PushDelivered(d) \/ PushRefused(d) \/ Deactivate(d)
      PROVE  InFlightUnsent'
  <2>1. /\ UNCHANGED <<cycle, jobs>>
        /\ \A c \in Days : c # d => send'[c] = send[c]
        /\ send[d].stage # "none"
    BY <1>8, <1>a DEF PushDelivered, PushRefused, Deactivate, history, Send
  <2> QED BY <1>a, <2>1
<1>9. ASSUME NEW d \in Days, Record(d) PROVE InFlightUnsent'
  <2>1. /\ UNCHANGED cycle
        /\ send'[d].stage # "none" =>
             send[d].stage = "unregistered" /\ jobs'[d] = Outcome(jobs[d], "unregistered", cycle.at)
        /\ \A c \in Days : c # d => send'[c] = send[c] /\ jobs'[c] = jobs[c]
    BY <1>9, <1>a DEF Record, Send
  <2>2. Outcome(jobs[d], "unregistered", cycle.at).status = "failed"
    BY <1>a DEF Outcome, Job
  <2> QED BY <2>1, <2>2
<1>10. ASSUME NEW d \in Days, WriteFails(d) PROVE InFlightUnsent'
  <2>1. send[d].stage # "none" /\ UNCHANGED jobs
    BY <1>10 DEF WriteFails
  <2>2. \A c \in Days : c # d => send'[c] = send[c]
    BY <1>10, <1>a DEF WriteFails
  <2> QED BY <2>1, <2>2
<1>11. CASE SeenWrite
  <2>1. \A d \in Days : jobs'[d].status = "sent" => jobs[d].status = "sent"
    BY <1>11, <1>a DEF SeenWrite, Job
  <2>2. UNCHANGED <<cycle, send>>
    BY <1>11 DEF SeenWrite
  <2> QED BY <2>1, <2>2
<1>12. CASE ChangeAccount \/ SeenRead \/ Tick \/ UNCHANGED vars
  BY <1>12 DEF ChangeAccount, SeenRead, Tick, history, vars
<1> QED
  BY <1>1, <1>2, <1>5, <1>6, <1>7, <1>8, <1>9, <1>10, <1>11, <1>12 DEF AlertStep, SharedStep, SendStep

\* The invariant of the passes, as far as both schedulers share it.
PassInv == TypeOK /\ Stages /\ InFlightUnsent

LEMMA PassInit == Init => PassInv
BY TypeInit, StagesInit, InFlightInit DEF PassInv

LEMMA PassInvStep == PassInv /\ AlertStep => PassInv'
BY TypeStep, StagesStep, InFlightStep DEF PassInv, TypeOK

-----------------------------------------------------------------------------
(* A push stays on record.                                                 *)

\* Only an acknowledgement changes a job that was sent, and it is counted.
LEMMA SentStep ==
  ASSUME PassInv, AlertStep, NEW d \in Days, jobs[d].status = "sent", jobs'[d] # jobs[d]
  PROVE  lost'[d] > lost[d]
<1>a. /\ cycle \in Cycle /\ send \in [Days -> Send] /\ jobs \in [Days -> Job]
      /\ seen \in Seen /\ NoSend.stage = "none"
  BY NoSendType DEF PassInv, TypeOK, StateTypes
<1>b. lost \in [Days -> Nat]
  BY DEF PassInv, TypeOK, StateTypes
<1>c. send[d].stage = "none"
  BY DEF PassInv, InFlightUnsent
<1>1. CASE Planning
  BY <1>1 DEF Planning, Replanned
<1>3. ASSUME NEW c \in Days, Record(c) PROVE FALSE
  <2>1. c # d
    BY <1>3, <1>c DEF Record
  <2> QED BY <1>3, <1>a, <2>1 DEF Record
<1>4. CASE SeenWrite
  <2>1. d = seen.day /\ seen.day \in Days
    BY <1>4, <1>a DEF SeenWrite, Seen
  <2>2. lost'[d] = lost[d] + 1 /\ lost[d] \in Nat
    BY <1>4, <1>b, <2>1 DEF SeenWrite
  <2> QED BY <2>2
<1>5. CASE UNCHANGED jobs
  BY <1>5
<1> QED
  BY <1>1, <1>3, <1>4, <1>5
     DEF AlertStep, SharedStep, SendStep, vars, BeginPass, ReadDue, TakeSnapshot, EndDispatch,
         PushDelivered, PushRefused, Deactivate, WriteFails, PassFails, Crash, Restart,
         ChangeAccount, SeenRead, Tick

-----------------------------------------------------------------------------
(* A day is pushed again only when a push of it went off the record.       *)

\* The push that is accounted for: on record, or about to be.
OnRecord(d) == jobs[d].status = "sent" \/ send[d].stage = "sent"

\* Every push of a day is on record, about to be, or lost.
PushesAccounted == \A d \in Days : Pushes(d) <= lost[d] + (IF OnRecord(d) THEN 1 ELSE 0)

LEMMA PushesNat ==
  ASSUME log \in Seq(Push), NEW d
  PROVE  Pushes(d) \in Nat /\ IsFiniteSet({i \in DOMAIN log : log[i].day = d})
<1> DEFINE S == {i \in DOMAIN log : log[i].day = d}
<1>1. Len(log) \in Nat /\ S \subseteq 1..Len(log)
  OBVIOUS
<1>2. IsFiniteSet(S)
  BY <1>1, FS_Interval, FS_Subset
<1> QED BY <1>2, FS_CardinalityType DEF Pushes

\* A delivered push counts for its day and for no other.
LEMMA PushesAppend ==
  ASSUME log \in Seq(Push), NEW e \in Push, log' = Append(log, e), NEW d
  PROVE  Pushes(d)' = Pushes(d) + (IF e.day = d THEN 1 ELSE 0)
<1> DEFINE S == {i \in DOMAIN log : log[i].day = d}
           T == {i \in DOMAIN log' : log'[i].day = d}
           n == Len(log) + 1
<1>1. /\ Len(log) \in Nat /\ DOMAIN log = 1..Len(log) /\ DOMAIN log' = 1..n
      /\ log'[n] = e /\ \A i \in DOMAIN log : log'[i] = log[i]
  OBVIOUS
<1>2. IsFiniteSet(S) /\ n \notin S
  <2>1. n \notin 1..Len(log) /\ S \subseteq 1..Len(log)
    BY <1>1
  <2> QED BY <2>1, PushesNat
<1>3. T = IF e.day = d THEN S \cup {n} ELSE S
  BY <1>1
<1>4. Cardinality(S \cup {n}) = Cardinality(S) + 1
  BY <1>2, FS_AddElement
<1>5. Pushes(d) = Cardinality(S) /\ Pushes(d)' = Cardinality(T)
  BY DEF Pushes
<1>6. Cardinality(S) \in Nat
  BY <1>2, FS_CardinalityType
<1> HIDE DEF S, T, n
<1> QED BY <1>3, <1>4, <1>5, <1>6

LEMMA AccountedInit == Init => PushesAccounted
<1> SUFFICES ASSUME Init, NEW d \in Days PROVE Pushes(d) <= lost[d]
  <2>1. ASSUME Init PROVE \A d \in Days : lost[d] = 0 /\ ~OnRecord(d)
    BY <2>1 DEF Init, OnRecord, NoJob, NoSend
  <2> QED BY <2>1 DEF PushesAccounted
<1>1. {i \in DOMAIN log : log[i].day = d} = {} /\ lost[d] = 0
  BY DEF Init
<1> QED BY <1>1, FS_EmptySet DEF Pushes

\* A step that delivers nothing keeps the account: what leaves the record is lost.
LEMMA RecordStep ==
  ASSUME PassInv, AlertStep, NEW d \in Days, ~PushDelivered(d)
  PROVE  \/ lost'[d] = lost[d] /\ (OnRecord(d) => OnRecord(d)')
         \/ lost'[d] = lost[d] + 1
<1>a. /\ cycle \in Cycle /\ send \in [Days -> Send] /\ jobs \in [Days -> Job]
      /\ seen \in Seen /\ NoSend.stage = "none"
  BY NoSendType DEF PassInv, TypeOK, StateTypes
<1>b. lost \in [Days -> Nat]
  BY DEF PassInv, TypeOK, StateTypes
<1>1. CASE Planning
  BY <1>1 DEF Planning, Replanned, OnRecord, history
<1>3. CASE ReadDue
  <2>1. send[d] = NoSend
    BY <1>3 DEF ReadDue, PassInv, Stages, QuietWhilePlanning
  <2> QED BY <1>3, <1>a, <2>1 DEF ReadDue, OnRecord, world, history
<1>4. CASE TakeSnapshot
  <2>1. send[d].stage # "sent"
    BY <1>4 DEF TakeSnapshot, PassInv, Stages, SnapshotIsDue
  <2> QED BY <1>4, <2>1 DEF TakeSnapshot, OnRecord, history
<1>5. CASE PassFails
  <2>1. send[d].stage # "sent"
    BY <1>5, <1>a DEF PassFails, PassInv, Stages, QuietWhilePlanning, SnapshotIsDue
  <2> QED BY <1>5, <2>1 DEF PassFails, OnRecord, history
<1>6. CASE Crash
  BY <1>6 DEF Crash, OnRecord
<1>7. ASSUME NEW c \in Days, PushDelivered(c)
      PROVE  lost'[d] = lost[d] /\ (OnRecord(d) => OnRecord(d)')
  <2>1. c # d
    BY <1>7
  <2>2. send'[d] = send[d] /\ lost'[d] = lost[d] /\ jobs' = jobs
    BY <1>7, <1>a, <1>b, <2>1 DEF PushDelivered
  <2> QED BY <2>2 DEF OnRecord
<1>8. ASSUME NEW c \in Days, PushRefused(c) \/ Deactivate(c)
      PROVE  lost'[d] = lost[d] /\ (OnRecord(d) => OnRecord(d)')
  <2>1. send[c].stage # "sent" /\ UNCHANGED <<jobs, lost>>
    BY <1>8 DEF PushRefused, Deactivate, history
  <2>2. c # d => send'[d] = send[d]
    BY <1>8, <1>a DEF PushRefused, Deactivate
  <2> QED BY <2>1, <2>2 DEF OnRecord
<1>9. ASSUME NEW c \in Days, Record(c)
      PROVE  lost'[d] = lost[d] /\ (OnRecord(d) => OnRecord(d)')
  <2>1. CASE c # d
    BY <1>9, <1>a, <2>1 DEF Record, OnRecord, history
  <2>2. CASE c = d
    <3>1. OnRecord(d) => send[d].stage = "sent"
      BY <1>9, <2>2 DEF Record, OnRecord, PassInv, InFlightUnsent
    <3>2. Outcome(jobs[d], "sent", cycle.at).status = "sent"
      BY <1>a DEF Outcome, Job
    <3>3. jobs'[d] = Outcome(jobs[d], send[d].stage, cycle.at)
      BY <1>9, <1>a, <2>2 DEF Record
    <3> QED BY <1>9, <3>1, <3>2, <3>3 DEF Record, OnRecord, history
  <2> QED BY <2>1, <2>2
<1>10. ASSUME NEW c \in Days, WriteFails(c)
       PROVE  \/ lost'[d] = lost[d] /\ (OnRecord(d) => OnRecord(d)')
              \/ lost'[d] = lost[d] + 1
  <2>1. CASE c # d
    BY <1>10, <1>a, <1>b, <2>1 DEF WriteFails, OnRecord
  <2>2. CASE c = d /\ send[d].stage = "sent"
    BY <1>10, <1>b, <2>2 DEF WriteFails
  <2>3. CASE c = d /\ send[d].stage # "sent"
    BY <1>10, <1>a, <1>b, <2>3 DEF WriteFails, OnRecord
  <2> QED BY <2>1, <2>2, <2>3
<1>11. CASE SeenWrite
  <2>1. CASE d = seen.day /\ jobs[d].status = "sent"
    BY <1>11, <1>b, <2>1 DEF SeenWrite
  <2>2. CASE d = seen.day /\ jobs[d].status # "sent"
    BY <1>11, <1>a, <1>b, <2>2 DEF SeenWrite, OnRecord
  <2>3. CASE d # seen.day
    BY <1>11, <1>a, <1>b, <2>3 DEF SeenWrite, OnRecord
  <2> QED BY <2>1, <2>2, <2>3
<1>12. CASE UNCHANGED <<jobs, send, lost>>
  BY <1>12 DEF OnRecord
<1> QED
  BY <1>1, <1>3, <1>4, <1>5, <1>6, <1>7, <1>8, <1>9, <1>10, <1>11, <1>12
     DEF AlertStep, SharedStep, SendStep, vars, history, BeginPass, EndDispatch, Restart,
         ChangeAccount, SeenRead, Tick

LEMMA AccountedStep == PassInv /\ PushesAccounted /\ AlertStep => PushesAccounted'
<1> SUFFICES ASSUME PassInv, PushesAccounted, AlertStep, NEW d \in Days
             PROVE  Pushes(d)' <= lost'[d] + (IF OnRecord(d)' THEN 1 ELSE 0)
  BY DEF PushesAccounted
<1>a. log \in Seq(Push) /\ lost[d] \in Nat /\ lost'[d] \in Nat /\ Pushes(d) \in Nat
  BY TypeStep, PushesNat DEF PassInv, TypeOK, StateTypes
<1>b. Pushes(d) <= lost[d] + (IF OnRecord(d) THEN 1 ELSE 0)
  BY DEF PushesAccounted
<1>1. CASE PushDelivered(d)
  <2>1. Pushes(d)' = Pushes(d) + 1
    <3> DEFINE e == [day |-> d, at |-> cycle.at, plannedAt |-> send[d].plannedAt]
    <3>1. e \in Push /\ log' = Append(log, e)
      BY <1>1 DEF PushDelivered, PassInv, TypeOK, StateTypes, Push, Cycle, Send
    <3> QED BY <1>a, <3>1, PushesAppend
  <2>2. ~OnRecord(d)
    BY <1>1 DEF PushDelivered, OnRecord, PassInv, InFlightUnsent
  <2>3. (lost'[d] = lost[d] /\ OnRecord(d)') \/ lost'[d] = lost[d] + 1
    <3>1. lost \in [Days -> Nat] /\ send \in [Days -> Send]
      BY DEF PassInv, TypeOK, StateTypes
    <3>2. \/ send' = [send EXCEPT ![d].stage = "sent"] /\ lost' = lost
          \/ lost' = [lost EXCEPT ![d] = lost[d] + 1]
      BY <1>1 DEF PushDelivered
    <3>3. CASE send' = [send EXCEPT ![d].stage = "sent"] /\ lost' = lost
      <4>1. send'[d].stage = "sent"
        BY <3>1, <3>3 DEF Send
      <4> QED BY <3>3, <4>1 DEF OnRecord
    <3>4. CASE lost' = [lost EXCEPT ![d] = lost[d] + 1]
      BY <3>1, <3>4
    <3> QED BY <3>2, <3>3, <3>4
  <2> QED BY <1>a, <1>b, <2>1, <2>2, <2>3
<1>2. CASE ~PushDelivered(d)
  <2>1. Pushes(d)' = Pushes(d)
    <3>1. CASE log' = log
      BY <3>1 DEF Pushes
    <3>2. ASSUME NEW c \in Days, NEW e \in Push, PushDelivered(c), e.day = c, log' = Append(log, e)
          PROVE  Pushes(d)' = Pushes(d)
      BY <1>2, <1>a, <3>2, PushesAppend
    <3> QED BY <3>1, <3>2, LogStep DEF PassInv, TypeOK
  <2>2. \/ lost'[d] = lost[d] /\ (OnRecord(d) => OnRecord(d)')
        \/ lost'[d] = lost[d] + 1
    BY <1>2, RecordStep
  <2> QED BY <1>a, <1>b, <2>1, <2>2
<1> QED BY <1>1, <1>2

LEMMA AccountedBound == PassInv /\ PushesAccounted => DuplicatesAreLost
<1> SUFFICES ASSUME PassInv, PushesAccounted, NEW d \in Days PROVE Pushes(d) <= 1 + lost[d]
  BY DEF DuplicatesAreLost
<1>1. Pushes(d) \in Nat /\ lost[d] \in Nat
  BY PushesNat DEF PassInv, TypeOK, StateTypes
<1> QED BY <1>1 DEF PushesAccounted

-----------------------------------------------------------------------------
(* The planning of each scheduler is of the form Planning.                 *)

\* The job the burnout planner is about to rewrite was not sent.
WriteUnsent == cycle.stage = "write" => jobs[LocalDay(cycle.at)].status # "sent"

\* The job the lunar planner is about to rewrite was not sent.
TransitUnsent == cycle.stage = "write" => jobs[transitDay].status # "sent"

\* Whatever else happens while the planner is between two of its commands
\* changes nothing it knows, and sends nothing.
LEMMA PlannerStays ==
  ASSUME StateTypes, Stages, SharedStep, ~BeginPass, cycle'.stage \in {"user", "job", "write"}
  PROVE  /\ UNCHANGED <<cycle, log>>
         /\ \A d \in Days : jobs'[d].status = "sent" => jobs[d].status = "sent"
<1> USE DEF Stages, QuietWhilePlanning
<1>a. /\ cycle \in Cycle /\ send \in [Days -> Send] /\ jobs \in [Days -> Job]
      /\ NoSend.stage = "none"
  BY NoSendType DEF StateTypes
<1>b. Rest.stage = "idle" /\ \A stage, t : Asleep(stage, t).stage = stage
  BY RestType DEF Asleep
<1>2. ~(ReadDue \/ TakeSnapshot)
  BY <1>a, <1>b DEF ReadDue, TakeSnapshot, Cycle
<1>7. ~(EndDispatch \/ PassFails \/ Crash \/ Restart)
  BY <1>a, <1>b DEF EndDispatch, PassFails, Crash, Restart, Cycle
<1>3. ASSUME NEW d \in Days, PushDelivered(d) \/ PushRefused(d) \/ Record(d) \/ Deactivate(d)
      PROVE  FALSE
  <2>1. send[d].stage \notin {"none", "due"} /\ UNCHANGED cycle
    BY <1>3 DEF PushDelivered, PushRefused, Record, Deactivate
  <2> QED BY <1>a, <2>1
<1>4. ASSUME NEW d \in Days, WriteFails(d) PROVE FALSE
  <2>1. send[d].stage \notin {"none", "due"}
    BY <1>4 DEF WriteFails
  <2>2. cycle' = cycle \/ cycle' = [Rest EXCEPT !.at = cycle.at]
    BY <1>4 DEF WriteFails
  <2>3. cycle'.stage = cycle.stage \/ cycle'.stage = "idle"
    BY <2>2, RestType DEF Cycle
  <2> QED BY <1>a, <2>1, <2>3
<1>5. CASE SeenWrite
  BY <1>5, <1>a DEF SeenWrite, Job
<1>6. CASE ChangeAccount \/ SeenRead \/ Tick \/ UNCHANGED vars
  BY <1>6 DEF ChangeAccount, SeenRead, Tick, history, vars
<1> QED BY <1>2, <1>3, <1>4, <1>5, <1>6, <1>7 DEF SharedStep, SendStep

LEMMA BeginStage == BeginPass => cycle'.stage \in {"user", "due"} /\ cycle'.at = now
BY DEF BeginPass, Asleep

\* Cancelling what is planned touches no job that was sent.
LEMMA CancelForm ==
  ASSUME StateTypes, NEW at \in 0..MaxTime, NEW day,
         CancelPlanned(at) \/ CancelDay(day, at) \/ UNCHANGED jobs
  PROVE  /\ jobs' \in [Days -> Job]
         /\ \A d \in Days : jobs'[d] = jobs[d] \/ Replanned(d)
<1>1. jobs \in [Days -> Job] /\ at \in Never..MaxTime /\ Never \in Int /\ "cancelled" \in Statuses
  <2>1. jobs \in [Days -> Job]
    BY DEF StateTypes
  <2>2. at \in Never..MaxTime /\ Never \in Int
    BY AlertAssumption DEF Never
  <2> QED BY <2>1, <2>2 DEF Statuses
<1>2. \A d \in Days :
        /\ [jobs[d] EXCEPT !.status = "cancelled", !.updatedAt = at] \in Job
        /\ [jobs[d] EXCEPT !.status = "cancelled", !.scheduledAt = Never, !.updatedAt = at] \in Job
  BY <1>1 DEF Job
<1>3. jobs' \in [Days -> Job]
  BY <1>1, <1>2 DEF CancelPlanned, CancelDay
<1>4. \A d \in Days : jobs'[d] = jobs[d] \/ (jobs[d].status = "planned" /\ jobs'[d].status = "cancelled")
  <2>1. CASE CancelPlanned(at)
    BY <1>1, <2>1 DEF CancelPlanned, Job
  <2>2. CASE CancelDay(day, at)
    BY <1>1, <2>2 DEF CancelDay, Job
  <2> QED BY <2>1, <2>2
<1> QED BY <1>3, <1>4 DEF Replanned

\* The upsert that ends a planning is of the form, for the day it writes.
LEMMA UpsertForm ==
  ASSUME StateTypes, NEW day \in Days, jobs[day].status # "sent",
         NEW status \in {"skipped", "planned"}, NEW scheduledAt \in Int,
         status = "planned" => ~cycle.recentlySent,
         jobs' = [jobs EXCEPT ![day] =
           [status |-> status, profile |-> cycle.profile, scheduledAt |-> scheduledAt,
            sentAt |-> Never, seen |-> @.seen, updatedAt |-> cycle.at]]
  PROVE  /\ jobs' \in [Days -> Job]
         /\ \A d \in Days : jobs'[d] = jobs[d] \/ Replanned(d)
<1> DEFINE job == [status |-> status, profile |-> cycle.profile, scheduledAt |-> scheduledAt,
                   sentAt |-> Never, seen |-> jobs[day].seen, updatedAt |-> cycle.at]
<1>1. jobs \in [Days -> Job] /\ cycle \in Cycle
  BY DEF StateTypes
<1>2. Never \in Never..MaxTime /\ 0..MaxTime \subseteq Never..MaxTime
  BY AlertAssumption DEF Never
<1>3. job \in Job
  BY <1>1, <1>2 DEF Job, Cycle, Hash, Statuses
<1>4. jobs' = [jobs EXCEPT ![day] = job]
  OBVIOUS
<1>5. job.status = status /\ job.updatedAt = cycle.at
  OBVIOUS
<1> HIDE DEF job
<1> QED BY <1>1, <1>3, <1>4, <1>5 DEF Replanned

LEMMA BurnoutPlanning ==
  ASSUME StateTypes, WriteUnsent, PlanUser \/ ReadJob \/ WriteJob
  PROVE  Planning
<1>a. /\ cycle \in Cycle /\ cycle.at \in 0..MaxTime /\ account.profile \in Hash
      /\ jobs \in [Days -> Job]
  BY DEF StateTypes, Cycle, Account
<1>b. \A stage \in CycleStages : /\ [cycle EXCEPT !.stage = stage] \in Cycle
                                 /\ [cycle EXCEPT !.stage = stage, !.profile = account.profile] \in Cycle
  BY <1>a DEF Cycle
<1>c. {"job", "write", "due"} \subseteq CycleStages
  BY DEF CycleStages
<1>1. CASE PlanUser
  <2>1. CancelPlanned(cycle.at) \/ CancelDay(ServerDay(now), cycle.at) \/ UNCHANGED jobs
    BY <1>1 DEF PlanUser
  <2>2. /\ jobs' \in [Days -> Job]
        /\ \A d \in Days : jobs'[d] = jobs[d] \/ Replanned(d)
    BY <1>a, <2>1, CancelForm
  <2>3. \/ cycle' = [cycle EXCEPT !.stage = "due"]
        \/ cycle' = [cycle EXCEPT !.stage = "job", !.profile = account.profile]
    BY <1>1 DEF PlanUser
  <2>4. cycle' \in Cycle /\ cycle'.stage \in {"job", "due"} /\ cycle'.at = cycle.at
        /\ cycle'.recentlySent = cycle.recentlySent
    BY <1>a, <1>b, <1>c, <2>3 DEF Cycle
  <2> QED BY <1>1, <2>2, <2>4 DEF PlanUser, Planning
<1>2. CASE ReadJob
  <2>1. cycle' = [cycle EXCEPT !.stage = "due"] \/ cycle' = [cycle EXCEPT !.stage = "write"]
    BY <1>2 DEF ReadJob
  <2>2. cycle' \in Cycle /\ cycle'.stage \in {"write", "due"} /\ cycle'.at = cycle.at
        /\ cycle'.recentlySent = cycle.recentlySent
    BY <1>a, <1>b, <1>c, <2>1 DEF Cycle
  <2> QED BY <1>2, <1>a, <2>2 DEF ReadJob, Planning
<1>3. CASE WriteJob
  <2>1. LocalDay(cycle.at) \in Days /\ PlannedFor(cycle.at) \in Int /\ Never \in Int
    BY <1>a, DayTypes, ScheduleType DEF Never
  <2>2. PICK status \in {"skipped", "planned"}, scheduledAt \in Int :
          /\ status = "planned" => ~cycle.recentlySent
          /\ jobs' = [jobs EXCEPT ![LocalDay(cycle.at)] =
               [status |-> status, profile |-> cycle.profile, scheduledAt |-> scheduledAt,
                sentAt |-> Never, seen |-> @.seen, updatedAt |-> cycle.at]]
    <3> DEFINE skip == cycle.recentlySent \/ ~cycle.hasToken \/ MissesPeak(cycle.at)
    <3>1. CASE skip
      BY <1>3, <2>1, <3>1 DEF WriteJob
    <3>2. CASE ~skip
      BY <1>3, <2>1, <3>2 DEF WriteJob
    <3> QED BY <3>1, <3>2
  <2>3. /\ jobs' \in [Days -> Job]
        /\ \A d \in Days : jobs'[d] = jobs[d] \/ Replanned(d)
    BY <1>3, <2>1, <2>2, UpsertForm DEF WriteJob, WriteUnsent
  <2>4. cycle' \in Cycle /\ cycle'.stage = "due" /\ cycle'.at = cycle.at
        /\ cycle'.recentlySent = cycle.recentlySent
    BY <1>3, <1>a, <1>b, <1>c DEF WriteJob, Cycle
  <2> QED BY <1>3, <2>3, <2>4 DEF WriteJob, Planning
<1> QED BY <1>1, <1>2, <1>3

LEMMA LunarPlanning ==
  ASSUME StateTypes, transitDay \in Days, TransitUnsent,
         PlanLunarUser \/ ReadLunarJob \/ WriteLunarJob
  PROVE  Planning
<1>a. /\ cycle \in Cycle /\ cycle.at \in 0..MaxTime /\ account.profile \in Hash
      /\ jobs \in [Days -> Job]
  BY DEF StateTypes, Cycle, Account
<1>b. \A stage \in CycleStages : /\ [cycle EXCEPT !.stage = stage] \in Cycle
                                 /\ [cycle EXCEPT !.stage = stage, !.profile = account.profile] \in Cycle
  BY <1>a DEF Cycle
<1>c. {"job", "write", "due"} \subseteq CycleStages
  BY DEF CycleStages
<1>1. CASE PlanLunarUser
  <2>1. \/ cycle' = [cycle EXCEPT !.stage = "due"]
        \/ cycle' = [cycle EXCEPT !.stage = "job", !.profile = account.profile]
    BY <1>1 DEF PlanLunarUser
  <2>2. cycle' \in Cycle /\ cycle'.stage \in {"job", "due"} /\ cycle'.at = cycle.at
        /\ cycle'.recentlySent = cycle.recentlySent
    BY <1>a, <1>b, <1>c, <2>1 DEF Cycle
  <2> QED BY <1>1, <1>a, <2>2 DEF PlanLunarUser, Planning
<1>2. CASE ReadLunarJob
  <2>1. CancelDay(transitDay, cycle.at) \/ UNCHANGED jobs
    BY <1>2 DEF ReadLunarJob
  <2>2. /\ jobs' \in [Days -> Job]
        /\ \A d \in Days : jobs'[d] = jobs[d] \/ Replanned(d)
    BY <1>a, <2>1, CancelForm
  <2>3. cycle' = [cycle EXCEPT !.stage = "due"] \/ cycle' = [cycle EXCEPT !.stage = "write"]
    BY <1>2 DEF ReadLunarJob
  <2>4. cycle' \in Cycle /\ cycle'.stage \in {"write", "due"} /\ cycle'.at = cycle.at
        /\ cycle'.recentlySent = cycle.recentlySent
    BY <1>a, <1>b, <1>c, <2>3 DEF Cycle
  <2> QED BY <1>2, <2>2, <2>4 DEF ReadLunarJob, Planning
<1>3. CASE WriteLunarJob
  <2>1. LunarSchedule(cycle.at) \in Int /\ Never \in Int
    BY <1>a, ScheduleType DEF LunarSchedule, Never
  <2>2. PICK status \in {"skipped", "planned"}, scheduledAt \in Int :
          /\ status = "planned" => ~cycle.recentlySent
          /\ LunarUpsert(transitDay, status, scheduledAt)
    <3> DEFINE skip == cycle.recentlySent \/ ~cycle.hasToken \/ LunarSchedule(cycle.at) = Never
    <3>1. CASE skip
      BY <1>3, <2>1, <3>1 DEF WriteLunarJob
    <3>2. CASE ~skip
      BY <1>3, <2>1, <3>2 DEF WriteLunarJob
    <3> QED BY <3>1, <3>2
  <2>3. /\ jobs' \in [Days -> Job]
        /\ \A d \in Days : jobs'[d] = jobs[d] \/ Replanned(d)
    BY <1>3, <2>2, UpsertForm DEF WriteLunarJob, LunarUpsert, TransitUnsent
  <2>4. cycle' \in Cycle /\ cycle'.stage = "due" /\ cycle'.at = cycle.at
        /\ cycle'.recentlySent = cycle.recentlySent
    BY <1>3, <1>a, <1>b, <1>c DEF WriteLunarJob, Cycle
  <2> QED BY <1>3, <2>3, <2>4 DEF WriteLunarJob, Planning
<1> QED BY <1>1, <1>2, <1>3

\* A step of the burnout alerts is shared or of the form Planning.
LEMMA BurnoutStep == PassInv /\ WriteUnsent /\ [Next]_vars => AlertStep /\ WriteUnsent'
<1> SUFFICES ASSUME PassInv, WriteUnsent, [Next]_vars PROVE AlertStep /\ WriteUnsent'
  OBVIOUS
<1>a. StateTypes /\ Stages
  BY DEF PassInv, TypeOK
<1>b. cycle \in Cycle
  BY <1>a DEF StateTypes
<1>1. CASE SharedStep
  <2>1. cycle'.stage = "write" =>
          cycle' = cycle /\ \A d \in Days : jobs'[d].status = "sent" => jobs[d].status = "sent"
    BY <1>1, <1>a, PlannerStays, BeginStage
  <2>2. LocalDay(cycle.at) \in Days
    BY <1>b, DayTypes DEF Cycle
  <2>3. WriteUnsent'
    BY <2>1, <2>2 DEF WriteUnsent
  <2> QED BY <1>1, <2>3 DEF AlertStep
<1>2. CASE PlanUser \/ ReadJob \/ WriteJob
  <2>1. WriteUnsent'
    BY <1>2, <1>b DEF PlanUser, ReadJob, WriteJob, WriteUnsent, Cycle
  <2> QED BY <1>2, <1>a, <2>1, BurnoutPlanning DEF AlertStep
<1> QED BY <1>1, <1>2 DEF Next, PassStep, SharedStep

\* So is a step of the lunar alerts; the transit's day is set by the planner.
LunarRead == transitDay \in Days /\ TransitUnsent

LEMMA LunarStepForm ==
  [LunarNext]_lunarVars =>
    \/ SharedStep /\ UNCHANGED transitDay
    \/ PlanLunarUser \/ ReadLunarJob \/ WriteLunarJob
BY DEF LunarNext, LunarPass, LunarFails, LunarPush, LunarRecord, ChangeLunarAccount, LunarSeenRead,
       LunarSeenWrite, LunarTick, BeginLunarPass, ReadLunarDue, LunarSnapshot, EndLunarDispatch,
       lunarVars, SharedStep, SendStep

LEMMA LunarStep == PassInv /\ LunarRead /\ [LunarNext]_lunarVars => AlertStep /\ LunarRead'
<1> SUFFICES ASSUME PassInv, LunarRead, [LunarNext]_lunarVars PROVE AlertStep /\ LunarRead'
  OBVIOUS
<1>a. StateTypes /\ Stages
  BY DEF PassInv, TypeOK
<1>b. cycle \in Cycle /\ now \in 0..MaxTime
  BY <1>a DEF StateTypes
<1>1. CASE SharedStep /\ UNCHANGED transitDay
  <2>1. cycle'.stage = "write" =>
          cycle' = cycle /\ \A d \in Days : jobs'[d].status = "sent" => jobs[d].status = "sent"
    BY <1>1, <1>a, PlannerStays, BeginStage
  <2>2. LunarRead'
    BY <1>1, <2>1 DEF LunarRead, TransitUnsent
  <2> QED BY <1>1, <2>2 DEF AlertStep
<1>2. CASE PlanLunarUser
  <2>1. ServerDay(now) \in Days
    BY <1>b, DayTypes
  <2>2. LunarRead'
    BY <1>2, <1>b, <2>1 DEF PlanLunarUser, LunarRead, TransitUnsent, Cycle
  <2> QED BY <1>2, <1>a, <2>2, LunarPlanning DEF AlertStep, LunarRead
<1>3. CASE ReadLunarJob \/ WriteLunarJob
  <2>1. LunarRead'
    BY <1>3, <1>b DEF ReadLunarJob, WriteLunarJob, LunarRead, TransitUnsent, Cycle
  <2> QED BY <1>3, <1>a, <2>1, LunarPlanning DEF AlertStep, LunarRead
<1> QED BY <1>1, <1>2, <1>3, LunarStepForm

-----------------------------------------------------------------------------
(* The passes of each scheduler.                                           *)

LEMMA BurnoutPasses == Spec => [](PassInv /\ WriteUnsent /\ PushesAccounted)
<1>1. Init => PassInv /\ WriteUnsent /\ PushesAccounted
  <2>1. Init => WriteUnsent
    BY DEF Init, WriteUnsent, Asleep
  <2> QED BY <2>1, PassInit, AccountedInit
<1>2. PassInv /\ WriteUnsent /\ PushesAccounted /\ [Next]_vars
        => (PassInv /\ WriteUnsent /\ PushesAccounted)'
  BY BurnoutStep, PassInvStep, AccountedStep
<1> QED BY <1>1, <1>2, PTL DEF Spec

LEMMA LunarPasses == LunarSpec => [](PassInv /\ LunarRead /\ PushesAccounted)
<1>1. LunarInit => PassInv /\ LunarRead /\ PushesAccounted
  <2> SUFFICES ASSUME LunarInit PROVE LunarRead /\ Init
    BY PassInit, AccountedInit
  <2>1. ServerDay(0) = 0 /\ 0 \in 0..MaxTime
    BY AlertAssumption DEF ServerDay
  <2>2. 0 \in Days
    BY <2>1, DayTypes
  <2> QED BY <2>2 DEF LunarInit, LunarRead, TransitUnsent, Init, Asleep
<1>2. PassInv /\ LunarRead /\ PushesAccounted /\ [LunarNext]_lunarVars
        => (PassInv /\ LunarRead /\ PushesAccounted)'
  BY LunarStep, PassInvStep, AccountedStep
<1> QED BY <1>1, <1>2, PTL DEF LunarSpec

\* Types hold in every reachable state, of burnout jobs and of lunar jobs.
THEOREM TypeCorrect == Spec => []TypeOK
<1>1. PassInv => TypeOK
  BY DEF PassInv
<1> QED BY <1>1, BurnoutPasses, PTL

THEOREM LunarTypeCorrect == LunarSpec => []LunarTypeOK
<1>1. PassInv /\ LunarRead => LunarTypeOK
  BY DEF PassInv, LunarRead, LunarTypeOK
<1> QED BY <1>1, LunarPasses, PTL

\* No plan, cancellation or failure overwrites a push on record.
THEOREM PushStaysOnRecord == Spec => SentStaysOnRecord
<1>1. PassInv /\ WriteUnsent /\ [Next]_vars =>
        [\A d \in Days : jobs[d].status = "sent" /\ jobs'[d].status # "sent"
                         => lost'[d] > lost[d]]_vars
  BY BurnoutStep, SentStep
<1> QED BY <1>1, BurnoutPasses, PTL DEF Spec, SentStaysOnRecord

\* Nor does any step of the lunar alerts.
THEOREM LunarPushStaysOnRecord == LunarSpec => SentStaysOnRecord
<1>1. PassInv /\ LunarRead /\ [LunarNext]_lunarVars =>
        [\A d \in Days : jobs[d].status = "sent" /\ jobs'[d].status # "sent"
                         => lost'[d] > lost[d]]_vars
  BY LunarStep, SentStep
<1> QED BY <1>1, LunarPasses, PTL DEF LunarSpec, SentStaysOnRecord

\* A day is pushed once, and once more for every push that is not on record.
THEOREM DuplicatesAreLostPushes == Spec => []DuplicatesAreLost
BY AccountedBound, BurnoutPasses, PTL

\* The same of the days of the transits.
THEOREM LunarDuplicatesAreLost == LunarSpec => []DuplicatesAreLost
BY AccountedBound, LunarPasses, PTL

-----------------------------------------------------------------------------
(* The cooldown is kept by planning.                                       *)

\* The push is on record, or about to be.
Known(i) == lost[log[i].day] = 0

\* A job planned at t was planned before each push on record, or out of its
\* cooldown.
Clear(t) == \A i \in DOMAIN log : Known(i) => t <= log[i].at \/ t > log[i].at + Cooldown

\* What is on record of a push is its time.
PushRecorded ==
  \A i \in DOMAIN log : Known(i) =>
    \/ jobs[log[i].day].status = "sent" /\ jobs[log[i].day].sentAt = log[i].at
    \/ send[log[i].day].stage = "sent" /\ cycle.at = log[i].at

\* The snapshot of a pass that plans shows every push of the cooldown.
RecentKnown ==
  cycle.stage \in {"user", "job", "write"} /\ ~cycle.recentlySent =>
    \A i \in DOMAIN log : Known(i) => log[i].at + Cooldown < cycle.at

InFlight == \E d \in Days : send[d].stage # "none"

\* A planned job is clear of the pushes so far; none is planned beside a dispatch.
PlansClear ==
  \A d \in Days : jobs[d].status = "planned" =>
    /\ Clear(jobs[d].updatedAt)
    /\ jobs[d].updatedAt <= now
    /\ InFlight => jobs[d].updatedAt <= cycle.at

\* So is a job whose dispatch is in flight.
SendsClear ==
  \A d \in Days : send[d].stage # "none" =>
    Clear(send[d].plannedAt) /\ send[d].plannedAt <= cycle.at

ClockAhead == cycle.at <= now

\* A day is pushed twice only after a push of it was lost.
NoRepeat == \A i, j \in DOMAIN log : i # j /\ log[i].day = log[j].day => ~Known(i)

PlannedBefore == \A i \in DOMAIN log : log[i].plannedAt <= log[i].at

CooldownInv ==
  /\ PushRecorded /\ RecentKnown /\ PlansClear /\ SendsClear /\ ClockAhead
  /\ NoRepeat /\ PlannedBefore /\ CooldownByPlanning

\* What the log holds is typed, and its times are comparable.
LEMMA LogTypes ==
  ASSUME PassInv
  PROVE  /\ Cooldown \in Nat /\ now \in Int /\ cycle.at \in Int
         /\ \A i \in DOMAIN log :
              i \in Int /\ log[i].day \in Days /\ log[i].at \in Int /\ log[i].plannedAt \in Int
         /\ \A d \in Days :
              jobs[d].updatedAt \in Int /\ send[d].plannedAt \in Int /\ lost[d] \in Nat
<1>1. /\ log \in Seq(Push) /\ jobs \in [Days -> Job] /\ send \in [Days -> Send]
      /\ cycle \in Cycle /\ now \in 0..MaxTime /\ lost \in [Days -> Nat]
  BY DEF PassInv, TypeOK, StateTypes
<1>2. Never \in Int /\ MaxTime \in Int /\ Cooldown \in Nat
  BY AlertAssumption DEF Never
<1>3. \A i \in DOMAIN log : i \in Int /\ log[i] \in Push
  BY <1>1
<1>4. 0..MaxTime \subseteq Int /\ Never..MaxTime \subseteq Int
  BY <1>2
<1>5. \A i \in DOMAIN log : log[i].day \in Days /\ log[i].at \in Int /\ log[i].plannedAt \in Int
  BY <1>3, <1>4 DEF Push
<1>6. \A d \in Days : jobs[d].updatedAt \in Int /\ send[d].plannedAt \in Int /\ lost[d] \in Nat
  BY <1>1, <1>4 DEF Job, Send
<1>7. now \in Int /\ cycle.at \in Int
  BY <1>1, <1>4 DEF Cycle
<1> QED BY <1>2, <1>3, <1>5, <1>6, <1>7

\* What a delivered push changes.
LEMMA PushForm ==
  ASSUME PassInv, NEW d \in Days, PushDelivered(d)
  PROVE  /\ DOMAIN log' = DOMAIN log \cup {Len(log) + 1}
         /\ \A i \in DOMAIN log : log'[i] = log[i] /\ i < Len(log) + 1
         /\ log'[Len(log) + 1] = [day |-> d, at |-> cycle.at, plannedAt |-> send[d].plannedAt]
         /\ UNCHANGED <<now, jobs, cycle>>
         /\ send[d].stage = "push" /\ send'[d].plannedAt = send[d].plannedAt
         /\ \A c \in Days : c # d => send'[c] = send[c] /\ lost'[c] = lost[c]
         /\ \/ send'[d].stage = "sent" /\ lost'[d] = lost[d]
            \/ send'[d].stage = "caught" /\ lost'[d] = lost[d] + 1
<1>1. log \in Seq(Push) /\ send \in [Days -> Send] /\ lost \in [Days -> Nat]
  BY DEF PassInv, TypeOK, StateTypes
<1>2. [day |-> d, at |-> cycle.at, plannedAt |-> send[d].plannedAt] \in Push
  BY DEF PassInv, TypeOK, StateTypes, Push, Cycle, Send
<1>3. log' = Append(log, [day |-> d, at |-> cycle.at, plannedAt |-> send[d].plannedAt])
  BY DEF PushDelivered
<1>4. /\ DOMAIN log' = DOMAIN log \cup {Len(log) + 1}
      /\ \A i \in DOMAIN log : log'[i] = log[i] /\ i < Len(log) + 1
      /\ log'[Len(log) + 1] = [day |-> d, at |-> cycle.at, plannedAt |-> send[d].plannedAt]
  BY <1>1, <1>2, <1>3
<1>5. \/ send' = [send EXCEPT ![d].stage = "sent"] /\ lost' = lost
      \/ send' = [send EXCEPT ![d].stage = "caught"] /\ lost' = [lost EXCEPT ![d] = lost[d] + 1]
  BY DEF PushDelivered
<1>6. /\ send'[d].plannedAt = send[d].plannedAt
      /\ \A c \in Days : c # d => send'[c] = send[c] /\ lost'[c] = lost[c]
      /\ \/ send'[d].stage = "sent" /\ lost'[d] = lost[d]
         \/ send'[d].stage = "caught" /\ lost'[d] = lost[d] + 1
  BY <1>1, <1>5 DEF Send
<1> QED BY <1>4, <1>6 DEF PushDelivered

\* What was lost stays lost.
LEMMA LostGrows ==
  ASSUME PassInv, AlertStep, NEW d \in Days, lost'[d] = 0
  PROVE  lost[d] = 0
<1>a. lost[d] \in Nat
  BY LogTypes
<1>1. CASE PushDelivered(d)
  <2>1. lost'[d] = lost[d] \/ lost'[d] = lost[d] + 1
    BY <1>1, PushForm
  <2> QED BY <1>a, <2>1
<1>2. CASE ~PushDelivered(d)
  <2>1. lost'[d] = lost[d] \/ lost'[d] = lost[d] + 1
    BY <1>2, RecordStep
  <2> QED BY <1>a, <2>1
<1> QED BY <1>1, <1>2

\* A push that is about to be recorded stays so, is recorded, or is lost.
LEMMA SendKept ==
  ASSUME PassInv, AlertStep, NEW d \in Days, send[d].stage = "sent"
  PROVE  \/ lost'[d] = lost[d] + 1
         \/ send'[d] = send[d] /\ cycle'.at = cycle.at
         \/ jobs'[d].status = "sent" /\ jobs'[d].sentAt = cycle.at
<1>a. /\ cycle \in Cycle /\ send \in [Days -> Send] /\ jobs \in [Days -> Job]
      /\ NoSend.stage = "none" /\ send[d] # NoSend
  BY NoSendType DEF PassInv, TypeOK, StateTypes
<1>b. cycle.stage \notin {"off", "user", "job", "write", "due", "snapshot"}
  BY <1>a DEF PassInv, Stages, QuietWhilePlanning, SnapshotIsDue
<1>1. ~Planning /\ ~ReadDue /\ ~TakeSnapshot /\ ~PassFails /\ ~Restart
  BY <1>b DEF Planning, ReadDue, TakeSnapshot, PassFails, Restart
<1>2. ~BeginPass /\ ~EndDispatch
  BY <1>a DEF BeginPass, EndDispatch
<1>3. CASE Crash
  BY <1>3 DEF Crash
<1>4. ASSUME NEW c \in Days, PushDelivered(c) \/ PushRefused(c) \/ Deactivate(c)
      PROVE  send'[d] = send[d] /\ cycle'.at = cycle.at
  BY <1>4, <1>a DEF PushDelivered, PushRefused, Deactivate
<1>5. ASSUME NEW c \in Days, Record(c)
      PROVE  \/ send'[d] = send[d] /\ cycle'.at = cycle.at
             \/ jobs'[d].status = "sent" /\ jobs'[d].sentAt = cycle.at
  <2>1. CASE c # d
    BY <1>5, <1>a, <2>1 DEF Record
  <2>2. CASE c = d
    <3>1. jobs'[d] = Outcome(jobs[d], "sent", cycle.at)
      BY <1>5, <1>a, <2>2 DEF Record
    <3>2. Outcome(jobs[d], "sent", cycle.at) = [jobs[d] EXCEPT !.status = "sent", !.sentAt = cycle.at,
                                                               !.updatedAt = cycle.at]
      BY DEF Outcome
    <3> QED BY <1>a, <3>1, <3>2 DEF Job
  <2> QED BY <2>1, <2>2
<1>6. ASSUME NEW c \in Days, WriteFails(c)
      PROVE  \/ lost'[d] = lost[d] + 1
             \/ send'[d] = send[d] /\ cycle'.at = cycle.at
  <2>1. CASE c = d
    <3>1. lost \in [Days -> Nat]
      BY DEF PassInv, TypeOK, StateTypes
    <3> QED BY <1>6, <2>1, <3>1 DEF WriteFails
  <2>2. CASE c # d
    <3>1. send'[d] = send[d]
      BY <1>6, <1>a, <2>2 DEF WriteFails
    <3>2. cycle' = cycle \/ cycle' = [Rest EXCEPT !.at = cycle.at]
      BY <1>6 DEF WriteFails
    <3>3. cycle'.at = cycle.at
      BY <3>2 DEF Rest, Asleep
    <3> QED BY <3>1, <3>3
  <2> QED BY <2>1, <2>2
<1>7. CASE ChangeAccount \/ SeenRead \/ SeenWrite \/ Tick \/ UNCHANGED vars
  BY <1>7 DEF ChangeAccount, SeenRead, SeenWrite, Tick, vars
<1> QED BY <1>1, <1>2, <1>3, <1>4, <1>5, <1>6, <1>7 DEF AlertStep, SharedStep, SendStep

\* A job is planned by the planner only, when its snapshot shows no recent push.
LEMMA PlannedStep ==
  ASSUME PassInv, AlertStep, NEW d \in Days, jobs'[d].status = "planned"
  PROVE  \/ jobs'[d] = jobs[d]
         \/ Planning /\ ~cycle.recentlySent /\ jobs'[d].updatedAt = cycle.at
<1>a. /\ cycle \in Cycle /\ jobs \in [Days -> Job] /\ seen \in Seen
  BY DEF PassInv, TypeOK, StateTypes
<1>1. CASE Planning
  BY <1>1 DEF Planning, Replanned
<1>2. ASSUME NEW c \in Days, Record(c) PROVE jobs'[d] = jobs[d]
  <2>1. jobs' = [jobs EXCEPT ![c] = Outcome(jobs[c], send[c].stage, cycle.at)]
    BY <1>2 DEF Record
  <2>2. Outcome(jobs[c], send[c].stage, cycle.at).status # "planned"
    BY <1>a DEF Outcome, Job
  <2> QED BY <1>a, <2>1, <2>2
<1>3. CASE SeenWrite
  BY <1>3, <1>a DEF SeenWrite, Seen
<1>4. CASE UNCHANGED jobs
  BY <1>4
<1> QED
  BY <1>1, <1>2, <1>3, <1>4
     DEF AlertStep, SharedStep, SendStep, vars, BeginPass, ReadDue, TakeSnapshot, EndDispatch,
         PushDelivered, PushRefused, Deactivate, WriteFails, PassFails, Crash, Restart,
         ChangeAccount, SeenRead, Tick

\* A dispatch goes on at the time of its cycle, or begins with a planned job.
LEMMA InFlightForm ==
  ASSUME PassInv, AlertStep, NEW d \in Days, send'[d].stage # "none"
  PROVE  \/ /\ send[d].stage # "none"
            /\ send'[d].plannedAt = send[d].plannedAt
            /\ cycle'.at = cycle.at
         \/ /\ ReadDue
            /\ jobs[d].status = "planned"
            /\ send'[d].plannedAt = jobs[d].updatedAt
            /\ cycle'.at = now
<1>a. /\ cycle \in Cycle /\ send \in [Days -> Send] /\ jobs \in [Days -> Job]
      /\ NoSend.stage = "none"
  BY NoSendType DEF PassInv, TypeOK, StateTypes
<1>1. CASE Planning
  <2>1. send'[d] = send[d] /\ cycle'.at = cycle.at
    BY <1>1 DEF Planning
  <2> QED BY <2>1
<1>2. ~(BeginPass \/ EndDispatch \/ PassFails \/ Crash)
  BY <1>a DEF BeginPass, EndDispatch, PassFails, Crash
<1>3. ~Restart
  BY <1>a DEF Restart, PassInv, Stages, QuietWhilePlanning
<1>4. CASE ReadDue
  <2> DEFINE due == {c \in Days : jobs[c].status = "planned" /\ jobs[c].scheduledAt <= now}
  <2>1. send'[d] = IF d \in due THEN [stage |-> "due", profile |-> jobs[d].profile,
                                      plannedAt |-> jobs[d].updatedAt] ELSE NoSend
    BY <1>4 DEF ReadDue
  <2>2. d \in due
    BY <1>a, <2>1
  <2>3. cycle' = [cycle EXCEPT !.stage = "snapshot", !.at = now]
    BY <1>4, <2>2 DEF ReadDue
  <2> QED BY <1>4, <1>a, <2>1, <2>2, <2>3 DEF Cycle
<1>5. CASE TakeSnapshot
  BY <1>5, <1>a DEF TakeSnapshot, Send, Cycle
<1>6. ASSUME NEW c \in Days, PushDelivered(c) \/ PushRefused(c) \/ Record(c) \/ Deactivate(c)
      PROVE  /\ send[d].stage # "none"
             /\ send'[d].plannedAt = send[d].plannedAt
             /\ cycle'.at = cycle.at
  <2>1. UNCHANGED cycle /\ send[c].stage # "none"
    BY <1>6 DEF PushDelivered, PushRefused, Record, Deactivate
  <2>2. c # d => send'[d] = send[d]
    BY <1>6, <1>a DEF PushDelivered, PushRefused, Record, Deactivate
  <2>3. CASE c = d
    BY <1>6, <1>a, <2>1, <2>3 DEF PushDelivered, PushRefused, Record, Deactivate, Send
  <2> QED BY <2>1, <2>2, <2>3
<1>7. ASSUME NEW c \in Days, WriteFails(c)
      PROVE  /\ send[d].stage # "none"
             /\ send'[d].plannedAt = send[d].plannedAt
             /\ cycle'.at = cycle.at
  <2>1. send[c].stage # "none"
    BY <1>7 DEF WriteFails
  <2>2. c # d => send'[d] = send[d]
    BY <1>7, <1>a DEF WriteFails
  <2>3. c = d => send'[d].plannedAt = send[d].plannedAt
    BY <1>7, <1>a DEF WriteFails, Send
  <2>4. cycle' = cycle \/ cycle' = [Rest EXCEPT !.at = cycle.at]
    BY <1>7 DEF WriteFails
  <2>5. cycle'.at = cycle.at
    BY <2>4 DEF Rest, Asleep
  <2> QED BY <2>1, <2>2, <2>3, <2>5
<1>8. CASE ChangeAccount \/ SeenRead \/ SeenWrite \/ Tick \/ UNCHANGED vars
  BY <1>8 DEF ChangeAccount, SeenRead, SeenWrite, Tick, history, vars
<1> QED BY <1>1, <1>2, <1>3, <1>4, <1>5, <1>6, <1>7, <1>8 DEF AlertStep, SharedStep, SendStep

LEMMA CooldownInit == Init => CooldownInv
<1> SUFFICES ASSUME Init PROVE CooldownInv
  OBVIOUS
<1>1. DOMAIN log = {} /\ cycle.at = 0 /\ now = 0 /\ cycle.stage = "idle"
  BY DEF Init, Asleep
<1>2. \A d \in Days : jobs[d].status = "none" /\ send[d].stage = "none"
  BY DEF Init, NoJob, NoSend
<1> QED
  BY <1>1, <1>2 DEF CooldownInv, PushRecorded, RecentKnown, PlansClear, SendsClear, ClockAhead,
                    NoRepeat, PlannedBefore, CooldownByPlanning

\* A delivered push was planned clear of the others, and is after every plan.
LEMMA CooldownPush ==
  ASSUME PassInv, AlertStep, CooldownInv, NEW d \in Days, PushDelivered(d)
  PROVE  CooldownInv'
<1>0. Len(log) + 1 \in Nat
  BY DEF PassInv, TypeOK
<1>a. PICK n \in Nat :
      /\ DOMAIN log' = DOMAIN log \cup {n}
      /\ \A i \in DOMAIN log : log'[i] = log[i] /\ i < n
      /\ log'[n].day = d /\ log'[n].at = cycle.at /\ log'[n].plannedAt = send[d].plannedAt
      /\ UNCHANGED <<now, jobs, cycle>>
      /\ send[d].stage = "push" /\ send'[d].plannedAt = send[d].plannedAt
      /\ \A c \in Days : c # d => send'[c] = send[c] /\ lost'[c] = lost[c]
      /\ \/ send'[d].stage = "sent" /\ lost'[d] = lost[d]
         \/ send'[d].stage = "caught" /\ lost'[d] = lost[d] + 1
  <2> DEFINE e == [day |-> d, at |-> cycle.at, plannedAt |-> send[d].plannedAt]
  <2>1. e.day = d /\ e.at = cycle.at /\ e.plannedAt = send[d].plannedAt
    OBVIOUS
  <2>2. /\ DOMAIN log' = DOMAIN log \cup {Len(log) + 1}
        /\ \A i \in DOMAIN log : log'[i] = log[i] /\ i < Len(log) + 1
        /\ log'[Len(log) + 1] = e
        /\ UNCHANGED <<now, jobs, cycle>>
        /\ send[d].stage = "push" /\ send'[d].plannedAt = send[d].plannedAt
        /\ \A c \in Days : c # d => send'[c] = send[c] /\ lost'[c] = lost[c]
        /\ \/ send'[d].stage = "sent" /\ lost'[d] = lost[d]
           \/ send'[d].stage = "caught" /\ lost'[d] = lost[d] + 1
    BY PushForm
  <2> HIDE DEF e
  <2> QED BY <1>0, <2>1, <2>2
<1>b. /\ Cooldown \in Nat /\ now \in Int /\ cycle.at \in Int
      /\ \A i \in DOMAIN log : log[i].day \in Days /\ log[i].at \in Int /\ log[i].plannedAt \in Int
      /\ \A c \in Days : jobs[c].updatedAt \in Int /\ send[c].plannedAt \in Int /\ lost[c] \in Nat
      /\ \A i \in DOMAIN log : i \in Int
  BY LogTypes
<1>c. \A c \in Days : lost'[c] = 0 => lost[c] = 0
  BY LostGrows
<1>d. jobs[d].status # "sent"
  BY <1>a DEF PassInv, InFlightUnsent
<1>e. \A i \in DOMAIN log : log[i].day = d => ~Known(i)
  BY <1>a, <1>d DEF CooldownInv, PushRecorded
<1>f. \A i \in DOMAIN log : Known(i)' => Known(i)
  BY <1>a, <1>b, <1>c DEF Known
<1>g. Known(n)' <=> lost'[d] = 0
  BY <1>a DEF Known
<1>h. InFlight /\ send[d].stage # "none"
  BY <1>a DEF InFlight
<1>1. PushRecorded'
  <2> SUFFICES ASSUME NEW i \in DOMAIN log', Known(i)'
               PROVE  \/ jobs'[log'[i].day].status = "sent" /\ jobs'[log'[i].day].sentAt = log'[i].at
                      \/ send'[log'[i].day].stage = "sent" /\ cycle'.at = log'[i].at
    BY DEF PushRecorded
  <2>1. CASE i = n
    <3>1. lost'[d] = 0
      BY <1>a, <2>1 DEF Known
    <3>2. send'[d].stage = "sent"
      BY <1>a, <1>b, <3>1
    <3> QED BY <1>a, <2>1, <3>2
  <2>2. CASE i \in DOMAIN log
    <3>1. Known(i) /\ log[i].day \in Days /\ log[i].day # d
      BY <1>b, <1>e, <1>f, <2>2
    <3>2. send'[log[i].day] = send[log[i].day]
      BY <1>a, <3>1
    <3> QED BY <1>a, <2>2, <3>1, <3>2 DEF CooldownInv, PushRecorded
  <2> QED BY <1>a, <2>1, <2>2
<1>2. RecentKnown'
  <2>1. cycle.stage \notin {"user", "job", "write"}
    BY <1>h, NoSendType DEF PassInv, Stages, QuietWhilePlanning
  <2> QED BY <1>a, <2>1 DEF RecentKnown
<1>3. \A c \in Days : jobs[c].status = "planned" => Clear(jobs[c].updatedAt)'
  <2> SUFFICES ASSUME NEW c \in Days, jobs[c].status = "planned", NEW i \in DOMAIN log', Known(i)'
               PROVE  \/ jobs'[c].updatedAt <= log'[i].at
                      \/ jobs'[c].updatedAt > log'[i].at + Cooldown
    BY <1>a DEF Clear
  <2>1. CASE i = n
    <3>1. jobs[c].updatedAt <= cycle.at
      BY <1>h DEF CooldownInv, PlansClear
    <3> QED BY <1>a, <2>1, <3>1
  <2>2. CASE i \in DOMAIN log
    BY <1>a, <1>f, <2>2 DEF CooldownInv, PlansClear, Clear
  <2> QED BY <1>a, <2>1, <2>2
<1>4. PlansClear'
  <2>1. \A c \in Days : jobs[c].status = "planned" =>
          jobs[c].updatedAt <= now /\ jobs[c].updatedAt <= cycle.at
    BY <1>h DEF CooldownInv, PlansClear
  <2> QED BY <1>a, <1>3, <2>1 DEF PlansClear
<1>5. SendsClear'
  <2> SUFFICES ASSUME NEW c \in Days, send'[c].stage # "none"
               PROVE  Clear(send[c].plannedAt)' /\ send'[c].plannedAt <= cycle'.at
    BY DEF SendsClear
  <2>1. send[c].stage # "none" /\ send'[c].plannedAt = send[c].plannedAt
    BY <1>a
  <2>2. Clear(send[c].plannedAt) /\ send[c].plannedAt <= cycle.at
    BY <2>1 DEF CooldownInv, SendsClear
  <2>3. ASSUME NEW i \in DOMAIN log', Known(i)'
        PROVE  send'[c].plannedAt <= log'[i].at \/ send'[c].plannedAt > log'[i].at + Cooldown
    <3>1. CASE i = n
      BY <1>a, <2>1, <2>2, <3>1
    <3>2. CASE i \in DOMAIN log
      <4>1. Known(i) /\ log'[i] = log[i]
        BY <1>a, <1>f, <2>3, <3>2
      <4>2. send[c].plannedAt <= log[i].at \/ send[c].plannedAt > log[i].at + Cooldown
        BY <2>2, <3>2, <4>1 DEF Clear
      <4> QED BY <2>1, <4>1, <4>2
    <3> QED BY <1>a, <3>1, <3>2
  <2> QED BY <1>a, <2>1, <2>2, <2>3 DEF Clear
<1>6. ClockAhead'
  BY <1>a DEF CooldownInv, ClockAhead
<1>7. NoRepeat'
  <2> SUFFICES ASSUME NEW i \in DOMAIN log', NEW j \in DOMAIN log', i # j,
                      log'[i].day = log'[j].day, Known(i)'
               PROVE  FALSE
    BY DEF NoRepeat
  <2>1. CASE i \in DOMAIN log /\ j \in DOMAIN log
    BY <1>a, <1>f, <2>1 DEF CooldownInv, NoRepeat
  <2>2. CASE i \in DOMAIN log /\ j = n
    BY <1>a, <1>e, <1>f, <2>2
  <2>3. CASE i = n /\ j \in DOMAIN log
    <3>1. lost[d] = 0 /\ log[j].day = d
      BY <1>a, <1>c, <1>g, <2>3
    <3>2. Known(j)
      BY <3>1 DEF Known
    <3> QED BY <1>e, <2>3, <3>1, <3>2
  <2> QED BY <1>a, <2>1, <2>2, <2>3
<1>8. PlannedBefore'
  <2>1. send[d].plannedAt <= cycle.at
    BY <1>h DEF CooldownInv, SendsClear
  <2> QED BY <1>a, <2>1 DEF CooldownInv, PlannedBefore
<1>9. CooldownByPlanning'
  <2> SUFFICES ASSUME NEW i \in DOMAIN log', NEW j \in DOMAIN log', i < j, Known(i)'
               PROVE  \/ log'[j].plannedAt <= log'[i].at
                      \/ log'[j].plannedAt > log'[i].at + Cooldown
    BY DEF CooldownByPlanning, Known
  <2>1. i \in DOMAIN log
    BY <1>a, <1>b, <1>g
  <2>2. Known(i)
    BY <1>f, <2>1
  <2>3. CASE j = n
    <3>1. Clear(send[d].plannedAt)
      BY <1>h DEF CooldownInv, SendsClear
    <3> QED BY <1>a, <2>1, <2>2, <2>3, <3>1 DEF Clear
  <2>4. CASE j \in DOMAIN log
    BY <1>a, <2>1, <2>2, <2>4 DEF CooldownInv, CooldownByPlanning, Known
  <2> QED BY <1>a, <2>3, <2>4
<1> QED BY <1>1, <1>2, <1>4, <1>5, <1>6, <1>7, <1>8, <1>9 DEF CooldownInv

\* A step that delivers nothing leaves the times of the pushes, and their record
\* while it is not lost.
LEMMA CooldownQuiet ==
  ASSUME PassInv, AlertStep, CooldownInv, log' = log
  PROVE  CooldownInv'
<1>b. /\ Cooldown \in Nat /\ now \in Int /\ cycle.at \in Int
      /\ \A i \in DOMAIN log : log[i].day \in Days /\ log[i].at \in Int /\ log[i].plannedAt \in Int
      /\ \A c \in Days : jobs[c].updatedAt \in Int /\ send[c].plannedAt \in Int /\ lost[c] \in Nat
  BY LogTypes
<1>c. \A i \in DOMAIN log : Known(i)' => Known(i)
  BY <1>b, LostGrows DEF Known
<1>d. now' \in Int /\ now <= now' /\ now \in 0..MaxTime
  <2>1. now' = now \/ now' = now + 1
    BY DEF AlertStep, SharedStep, Planning, SendStep, vars, world, BeginPass, ReadDue,
         TakeSnapshot, EndDispatch, PushDelivered, PushRefused, Record, Deactivate, WriteFails,
         PassFails, Crash, Restart, ChangeAccount, SeenRead, SeenWrite, Tick
  <2>2. now \in 0..MaxTime
    BY DEF PassInv, TypeOK, StateTypes
  <2>3. now' \in Int /\ now <= now'
    BY <1>b, <2>1
  <2> QED BY <2>2, <2>3
<1>e. Planning => cycle.at <= now /\ cycle'.at = cycle.at /\ now' = now
  BY DEF Planning, world, CooldownInv, ClockAhead
<1>1. PushRecorded'
  <2> SUFFICES ASSUME NEW i \in DOMAIN log, Known(i)'
               PROVE  \/ jobs'[log[i].day].status = "sent" /\ jobs'[log[i].day].sentAt = log[i].at
                      \/ send'[log[i].day].stage = "sent" /\ cycle'.at = log[i].at
    BY DEF PushRecorded
  <2>1. Known(i) /\ log[i].day \in Days /\ lost[log[i].day] = 0 /\ lost'[log[i].day] = 0
    BY <1>b, <1>c DEF Known
  <2>2. CASE jobs[log[i].day].status = "sent" /\ jobs[log[i].day].sentAt = log[i].at
    <3>1. jobs'[log[i].day] = jobs[log[i].day]
      BY <2>1, <2>2, SentStep
    <3> QED BY <2>2, <3>1
  <2>3. CASE send[log[i].day].stage = "sent" /\ cycle.at = log[i].at
    <3>1. \/ send'[log[i].day] = send[log[i].day] /\ cycle'.at = cycle.at
          \/ jobs'[log[i].day].status = "sent" /\ jobs'[log[i].day].sentAt = cycle.at
      BY <2>1, <2>3, SendKept
    <3> QED BY <2>3, <3>1
  <2> QED BY <2>1, <2>2, <2>3 DEF CooldownInv, PushRecorded
<1>2. RecentKnown'
  <2> SUFFICES ASSUME cycle'.stage \in {"user", "job", "write"}, ~cycle'.recentlySent,
                      NEW i \in DOMAIN log, Known(i)'
               PROVE  log[i].at + Cooldown < cycle'.at
    BY DEF RecentKnown
  <2>1. Known(i)
    BY <1>c
  <2>2. CASE BeginPass
    <3>1. cycle'.at = now
      BY <2>2, BeginStage
    <3>2. cycle'.recentlySent =
            (\E d \in Days : jobs[d].status = "sent" /\ jobs[d].sentAt >= now - Cooldown)
      BY <2>2 DEF BeginPass, Asleep
    <3>3. send[log[i].day].stage = "none"
      BY <1>b, <2>2, NoSendType DEF BeginPass
    <3>4. jobs[log[i].day].status = "sent" /\ jobs[log[i].day].sentAt = log[i].at
      BY <2>1, <3>3 DEF CooldownInv, PushRecorded
    <3>5. ~(log[i].at >= now - Cooldown)
      BY <1>b, <3>2, <3>4
    <3> QED BY <1>b, <3>1, <3>5
  <2>3. CASE Planning
    <3>1. /\ cycle.stage \in {"user", "job", "write"}
          /\ ~cycle.recentlySent
          /\ cycle'.at = cycle.at
      BY <2>3 DEF Planning
    <3> QED BY <2>1, <3>1 DEF CooldownInv, RecentKnown
  <2>4. CASE SharedStep /\ ~BeginPass
    <3>1. cycle' = cycle
      BY <2>4, PlannerStays DEF PassInv, TypeOK
    <3> QED BY <2>1, <3>1 DEF CooldownInv, RecentKnown
  <2> QED BY <2>2, <2>3, <2>4 DEF AlertStep
<1>3. ASSUME NEW c \in Days, send'[c].stage # "none"
      PROVE  \/ send[c].stage # "none" /\ send'[c].plannedAt = send[c].plannedAt /\ cycle'.at = cycle.at
             \/ jobs[c].status = "planned" /\ send'[c].plannedAt = jobs[c].updatedAt /\ cycle'.at = now
  BY <1>3, InFlightForm
<1>4. PlansClear'
  <2> SUFFICES ASSUME NEW d \in Days, jobs'[d].status = "planned"
               PROVE  /\ Clear(jobs[d].updatedAt)'
                      /\ jobs'[d].updatedAt <= now'
                      /\ InFlight' => jobs'[d].updatedAt <= cycle'.at
    BY DEF PlansClear
  <2>1. CASE jobs'[d] = jobs[d]
    <3>1. /\ Clear(jobs[d].updatedAt) /\ jobs[d].updatedAt <= now
          /\ InFlight => jobs[d].updatedAt <= cycle.at
      BY <2>1 DEF CooldownInv, PlansClear
    <3>2. Clear(jobs[d].updatedAt)'
      BY <1>c, <2>1, <3>1 DEF Clear
    <3>3. jobs'[d].updatedAt <= now'
      BY <1>b, <1>d, <2>1, <3>1
    <3>4. InFlight' => jobs'[d].updatedAt <= cycle'.at
      BY <1>3, <2>1, <3>1 DEF InFlight
    <3> QED BY <3>2, <3>3, <3>4
  <2>2. CASE Planning /\ ~cycle.recentlySent /\ jobs'[d].updatedAt = cycle.at
    <3>1. \A i \in DOMAIN log : Known(i) => log[i].at + Cooldown < cycle.at
      BY <2>2 DEF Planning, CooldownInv, RecentKnown
    <3>2. Clear(jobs[d].updatedAt)'
      BY <1>b, <1>c, <2>2, <3>1 DEF Clear
    <3>3. jobs'[d].updatedAt <= now' /\ jobs'[d].updatedAt <= cycle'.at
      BY <1>b, <1>e, <2>2
    <3> QED BY <3>2, <3>3
  <2> QED BY <2>1, <2>2, PlannedStep
<1>5. SendsClear'
  <2> SUFFICES ASSUME NEW c \in Days, send'[c].stage # "none"
               PROVE  Clear(send[c].plannedAt)' /\ send'[c].plannedAt <= cycle'.at
    BY DEF SendsClear
  <2>1. CASE send[c].stage # "none" /\ send'[c].plannedAt = send[c].plannedAt /\ cycle'.at = cycle.at
    <3>1. Clear(send[c].plannedAt) /\ send[c].plannedAt <= cycle.at
      BY <2>1 DEF CooldownInv, SendsClear
    <3>2. Clear(send[c].plannedAt)'
      BY <1>c, <2>1, <3>1 DEF Clear
    <3> QED BY <2>1, <3>1, <3>2
  <2>2. CASE jobs[c].status = "planned" /\ send'[c].plannedAt = jobs[c].updatedAt /\ cycle'.at = now
    <3>1. Clear(jobs[c].updatedAt) /\ jobs[c].updatedAt <= now
      BY <2>2 DEF CooldownInv, PlansClear
    <3>2. Clear(send[c].plannedAt)'
      BY <1>c, <2>2, <3>1 DEF Clear
    <3> QED BY <2>2, <3>1, <3>2
  <2> QED BY <1>3, <2>1, <2>2
<1>6. ClockAhead'
  <2>1. cycle'.at = cycle.at \/ cycle'.at = now \/ cycle'.at = 0
    <3>1. CASE Planning
      BY <3>1 DEF Planning
    <3>2. CASE SharedStep
      <4>1. CASE BeginPass \/ ReadDue \/ TakeSnapshot \/ EndDispatch \/ PassFails \/ Crash \/ Restart
        <5>1. cycle \in Cycle
          BY DEF PassInv, TypeOK, StateTypes
        <5>2. Rest.at = 0 /\ \A stage, t : Asleep(stage, t).at = 0
          BY DEF Rest, Asleep
        <5>3. BeginPass => cycle'.at = now
          BY BeginStage
        <5>4. ReadDue => cycle'.at = 0 \/ cycle'.at = now
          BY <5>1, <5>2 DEF ReadDue, Cycle
        <5>5. TakeSnapshot \/ EndDispatch => cycle'.at = cycle.at \/ cycle'.at = 0
          BY <5>1, <5>2 DEF TakeSnapshot, EndDispatch, Cycle
        <5>6. PassFails \/ Crash \/ Restart => cycle'.at = cycle.at \/ cycle'.at = 0
          BY <5>1, <5>2 DEF PassFails, Crash, Restart, Cycle
        <5> QED BY <4>1, <5>3, <5>4, <5>5, <5>6
      <4>2. ASSUME NEW d \in Days, SendStep(d) PROVE cycle'.at = cycle.at
        <5>1. cycle' = cycle \/ cycle' = [Rest EXCEPT !.at = cycle.at]
          BY <4>2 DEF SendStep, PushDelivered, PushRefused, Record, Deactivate, WriteFails
        <5> QED BY <5>1 DEF Rest, Asleep
      <4>3. CASE ChangeAccount \/ SeenRead \/ SeenWrite \/ Tick \/ UNCHANGED vars
        BY <4>3 DEF ChangeAccount, SeenRead, SeenWrite, Tick, vars
      <4> QED BY <3>2, <4>1, <4>2, <4>3 DEF SharedStep
    <3> QED BY <3>1, <3>2 DEF AlertStep
  <2>2. cycle.at <= now /\ 0 <= now
    BY <1>d DEF CooldownInv, ClockAhead
  <2> QED BY <1>b, <1>d, <2>1, <2>2 DEF ClockAhead
<1>7. NoRepeat'
  BY <1>c DEF CooldownInv, NoRepeat
<1>8. PlannedBefore'
  BY DEF CooldownInv, PlannedBefore
<1>9. CooldownByPlanning'
  BY <1>c DEF CooldownInv, CooldownByPlanning, Known
<1> QED BY <1>1, <1>2, <1>4, <1>5, <1>6, <1>7, <1>8, <1>9 DEF CooldownInv

LEMMA CooldownStep == PassInv /\ CooldownInv /\ AlertStep => CooldownInv'
<1> SUFFICES ASSUME PassInv, CooldownInv, AlertStep PROVE CooldownInv'
  OBVIOUS
<1>1. CASE log' = log
  BY <1>1, CooldownQuiet
<1>2. ASSUME NEW d \in Days, PushDelivered(d) PROVE CooldownInv'
  BY <1>2, CooldownPush
<1> QED BY <1>1, <1>2, LogStep DEF PassInv, TypeOK

\* Of two pushes closer than the cooldown the later was planned before the
\* earlier was sent, or the record of the earlier was lost.
THEOREM CooldownIsKept == Spec => []CooldownByPlanning
<1>1. PassInv /\ WriteUnsent /\ CooldownInv /\ [Next]_vars => CooldownInv'
  BY BurnoutStep, CooldownStep
<1>2. CooldownInv => CooldownByPlanning
  BY DEF CooldownInv
<1> QED BY <1>1, <1>2, CooldownInit, BurnoutPasses, PTL DEF Spec

\* Two lunar pushes closer than the cooldown are of two server days, and the
\* later was planned before the earlier was sent.
THEOREM LunarTwiceAcrossMidnight == LunarSpec => []TwiceOnlyAcrossMidnight
<1>1. PassInv /\ LunarRead /\ CooldownInv /\ [LunarNext]_lunarVars => CooldownInv'
  BY LunarStep, CooldownStep
<1>2. PassInv /\ CooldownInv => TwiceOnlyAcrossMidnight
  <2> SUFFICES ASSUME PassInv, CooldownInv, NEW i \in DOMAIN log, NEW j \in DOMAIN log,
                      i < j, log[j].at <= log[i].at + Cooldown, lost[log[i].day] = 0
               PROVE  log[i].day # log[j].day /\ log[j].plannedAt <= log[i].at
    BY DEF TwiceOnlyAcrossMidnight
  <2>1. /\ Cooldown \in Nat /\ i \in Int /\ j \in Int /\ log[i].at \in Int /\ log[j].at \in Int
        /\ log[j].plannedAt \in Int
    BY LogTypes
  <2>2. log[i].day # log[j].day
    BY <2>1 DEF CooldownInv, NoRepeat, Known
  <2>3. log[j].plannedAt <= log[j].at
    BY DEF CooldownInv, PlannedBefore
  <2>4. log[j].plannedAt <= log[i].at \/ log[j].plannedAt > log[i].at + Cooldown
    BY DEF CooldownInv, CooldownByPlanning
  <2> QED BY <2>1, <2>2, <2>3, <2>4
<1>3. LunarInit => CooldownInv
  BY CooldownInit DEF LunarInit
<1> QED BY <1>1, <1>2, <1>3, LunarPasses, PTL DEF LunarSpec

-----------------------------------------------------------------------------
(* A lunar job speaks of the day it is stored under.                       *)

\* What the planner and the acknowledgement carry is in range on the day they
\* will write, and what is dispatched exists.
RangeInv ==
  /\ JobsAreInRange
  /\ cycle.stage = "write" => InRange(cycle.profile, transitDay)
  /\ seen.stage = "write" => InRange(seen.profile, seen.day)
  /\ \A d \in Days : send[d].stage # "none" => jobs[d].status # "none"

\* Apart from planning, a job is changed by its dispatch, which keeps its
\* profile, and by the acknowledgement of its day.
LEMMA JobForm ==
  ASSUME StateTypes, SharedStep, NEW d \in Days
  PROVE  \/ jobs'[d] = jobs[d]
         \/ /\ send[d].stage # "none"
            /\ jobs'[d].profile = jobs[d].profile /\ jobs'[d].status # "none"
         \/ /\ seen.stage = "write" /\ d = seen.day
            /\ jobs'[d].profile = seen.profile /\ jobs'[d].status # "none"
<1>a. jobs \in [Days -> Job] /\ seen \in Seen
  BY DEF StateTypes
<1>1. ASSUME NEW c \in Days, Record(c)
      PROVE  \/ jobs'[d] = jobs[d]
             \/ /\ send[d].stage # "none"
                /\ jobs'[d].profile = jobs[d].profile /\ jobs'[d].status # "none"
  <2>1. jobs' = [jobs EXCEPT ![c] = Outcome(jobs[c], send[c].stage, cycle.at)] /\ send[c].stage # "none"
    BY <1>1 DEF Record
  <2>2. /\ Outcome(jobs[c], send[c].stage, cycle.at).status # "none"
        /\ Outcome(jobs[c], send[c].stage, cycle.at).profile = jobs[c].profile
    BY <1>a DEF Outcome, Job
  <2> QED BY <1>a, <2>1, <2>2
<1>2. CASE SeenWrite
  BY <1>2, <1>a DEF SeenWrite, Seen
<1>3. CASE UNCHANGED jobs
  BY <1>3
<1> QED
  BY <1>1, <1>2, <1>3
     DEF SharedStep, SendStep, vars, BeginPass, ReadDue, TakeSnapshot, EndDispatch, PushDelivered,
         PushRefused, Deactivate, WriteFails, PassFails, Crash, Restart, ChangeAccount, SeenRead, Tick

\* An acknowledgement is of the profile and the day its transit was in range for.
LEMMA SeenForm ==
  ASSUME StateTypes, SharedStep, seen'.stage = "write"
  PROVE  seen' = seen \/ InRange(seen'.profile, seen'.day)
<1>1. CASE SeenRead
  BY <1>1 DEF SeenRead, NoSeen, InRange
<1>2. CASE SeenWrite
  BY <1>2 DEF SeenWrite, NoSeen
<1>3. CASE UNCHANGED seen
  BY <1>3
<1> QED
  BY <1>1, <1>2, <1>3
     DEF SharedStep, SendStep, vars, BeginPass, ReadDue, TakeSnapshot, EndDispatch, PushDelivered,
         PushRefused, Record, Deactivate, WriteFails, PassFails, Crash, Restart, ChangeAccount, Tick

LEMMA RangeStep == PassInv /\ LunarRead /\ RangeInv /\ [LunarNext]_lunarVars => RangeInv'
<1> SUFFICES ASSUME PassInv, LunarRead, RangeInv, [LunarNext]_lunarVars PROVE RangeInv'
  OBVIOUS
<1>a. /\ cycle \in Cycle /\ jobs \in [Days -> Job] /\ send \in [Days -> Send]
      /\ NoSend.stage = "none" /\ transitDay \in Days /\ StateTypes /\ Stages
  BY NoSendType DEF PassInv, TypeOK, StateTypes, LunarRead
<1>b. AlertStep
  BY LunarStep
<1>1. CASE SharedStep /\ UNCHANGED transitDay
  <2>1. ASSUME NEW d \in Days, jobs'[d].status # "none" PROVE InRange(jobs'[d].profile, d)
    BY <1>1, <1>a, <2>1, JobForm DEF RangeInv, JobsAreInRange, InRange
  <2>2. cycle'.stage = "write" => cycle' = cycle
    BY <1>1, <1>a, PlannerStays, BeginStage
  <2>3. seen'.stage = "write" => InRange(seen'.profile, seen'.day)
    BY <1>1, <1>a, SeenForm DEF RangeInv
  <2>4. ASSUME NEW d \in Days, send'[d].stage # "none" PROVE jobs'[d].status # "none"
    <3>1. jobs[d].status # "none"
      BY <1>b, <2>4, InFlightForm DEF RangeInv
    <3>2. jobs'[d] = jobs[d] \/ jobs'[d].status # "none"
      BY <1>1, <1>a, JobForm
    <3> QED BY <3>1, <3>2
  <2> QED BY <1>1, <2>1, <2>2, <2>3, <2>4 DEF RangeInv, JobsAreInRange, InRange
<1>2. CASE PlanLunarUser
  <2>1. /\ UNCHANGED <<jobs, send, seen>>
        /\ cycle'.stage # "write"
    BY <1>2, <1>a DEF PlanLunarUser, Cycle
  <2> QED BY <2>1 DEF RangeInv, JobsAreInRange, InRange
<1>3. CASE ReadLunarJob
  <2>1. \A d \in Days : \/ jobs'[d] = jobs[d]
                        \/ jobs[d].status # "none" /\ jobs'[d].profile = jobs[d].profile
                           /\ jobs'[d].status = "cancelled"
    <3>1. UNCHANGED jobs \/ CancelDay(transitDay, cycle.at)
      BY <1>3 DEF ReadLunarJob
    <3> QED BY <1>a, <3>1 DEF CancelDay, Job
  <2>2. cycle'.stage = "write" => InRange(cycle'.profile, transitDay)
    BY <1>3, <1>a DEF ReadLunarJob, Cycle
  <2>3. UNCHANGED <<send, seen, transitDay>>
    BY <1>3 DEF ReadLunarJob
  <2> QED BY <2>1, <2>2, <2>3 DEF RangeInv, JobsAreInRange, InRange
<1>4. CASE WriteLunarJob
  <2>1. PICK status \in {"skipped", "planned"} : \E at : LunarUpsert(transitDay, status, at)
    BY <1>4 DEF WriteLunarJob
  <2>2. \A d \in Days : \/ jobs'[d] = jobs[d]
                        \/ d = transitDay /\ jobs'[d].profile = cycle.profile /\ jobs'[d].status # "none"
    BY <1>a, <2>1 DEF LunarUpsert
  <2>3. InRange(cycle.profile, transitDay)
    BY <1>4 DEF WriteLunarJob, RangeInv
  <2>4. cycle'.stage = "due" /\ UNCHANGED <<send, seen, transitDay>>
    BY <1>4, <1>a DEF WriteLunarJob, Cycle
  <2> QED BY <2>2, <2>3, <2>4 DEF RangeInv, JobsAreInRange, InRange
<1> QED BY <1>1, <1>2, <1>3, <1>4, LunarStepForm

\* Whatever overlapped, a job is of a profile that was in range on its day.
THEOREM LunarJobsAreInRange == LunarSpec => []JobsAreInRange
<1>1. LunarInit => RangeInv
  BY DEF LunarInit, Init, RangeInv, JobsAreInRange, NoJob, NoSend, NoSeen, Asleep
<1>2. PassInv /\ LunarRead /\ RangeInv /\ [LunarNext]_lunarVars => RangeInv'
  BY RangeStep
<1>3. RangeInv => JobsAreInRange
  BY DEF RangeInv
<1> QED BY <1>1, <1>2, <1>3, LunarPasses, PTL DEF LunarSpec

-----------------------------------------------------------------------------
(* An acknowledgement that nothing overtakes suppresses the day.           *)

\* The job of an acknowledged day is cancelled, seen and of the profile; nothing
\* of it is in flight, and the planner will find it current.
Hushed(d) ==
  /\ jobs[d].status = "cancelled" /\ jobs[d].seen /\ jobs[d].profile = account.profile
  /\ send[d] = NoSend
  /\ LocalDay(cycle.at) = d =>
       cycle.stage # "write" /\ (cycle.stage = "job" => cycle.profile = account.profile)
  /\ seen.stage = "write" => seen.profile = account.profile

HushInv == \A d \in Days : d \in hushed => Hushed(d)

LEMMA HushStep == PassInv /\ HushInv /\ [Next]_vars => HushInv'
<1> SUFFICES ASSUME PassInv, HushInv, [Next]_vars, NEW d \in Days, d \in hushed'
             PROVE  Hushed(d)'
  BY DEF HushInv
<1>a. /\ cycle \in Cycle /\ send \in [Days -> Send] /\ jobs \in [Days -> Job]
      /\ seen \in Seen /\ account \in Account /\ NoSend.stage = "none"
      /\ hushed \subseteq Days
  BY NoSendType DEF PassInv, TypeOK, StateTypes
<1>b. d \in hushed => Hushed(d)
  BY DEF HushInv
<1>c. Rest.stage = "idle" /\ \A stage, t : Asleep(stage, t).stage = stage
  BY DEF Rest, Asleep
<1>1. CASE BeginPass
  <2>1. Hushed(d)
    BY <1>1, <1>b DEF BeginPass, history
  <2> QED BY <1>1, <2>1, BeginStage DEF BeginPass, Hushed, world
<1>2. CASE PlanUser
  <2>1. Hushed(d)
    BY <1>2, <1>b DEF PlanUser, history
  <2>2. jobs'[d] = jobs[d]
    <3>1. UNCHANGED jobs \/ CancelPlanned(cycle.at) \/ CancelDay(ServerDay(now), cycle.at)
      BY <1>2 DEF PlanUser
    <3> QED BY <1>a, <2>1, <3>1 DEF CancelPlanned, CancelDay, Hushed
  <2>3. cycle'.stage # "write" /\ (cycle'.stage = "job" => cycle'.profile = account.profile)
    BY <1>2, <1>a DEF PlanUser, Cycle
  <2> QED BY <1>2, <2>1, <2>2, <2>3 DEF PlanUser, Hushed, world
<1>3. CASE ReadJob
  <2>1. Hushed(d)
    BY <1>3, <1>b DEF ReadJob, history
  <2>2. cycle'.stage # "job" /\ cycle'.at = cycle.at
    BY <1>3, <1>a DEF ReadJob, Cycle
  <2>3. cycle'.stage = "write" => LocalDay(cycle.at) # d
    BY <1>3, <1>a, <2>1 DEF ReadJob, Cycle, CurrentFor, Hushed
  <2> QED BY <1>3, <2>1, <2>2, <2>3 DEF ReadJob, Hushed, world, LocalDay
<1>4. CASE WriteJob
  <2>1. Hushed(d)
    BY <1>4, <1>b DEF WriteJob, history
  <2>2. jobs'[d] = jobs[d]
    BY <1>4, <1>a, <2>1 DEF WriteJob, Hushed
  <2>3. cycle'.stage = "due"
    BY <1>4, <1>a DEF WriteJob, Cycle
  <2> QED BY <1>4, <2>1, <2>2, <2>3 DEF WriteJob, Hushed, world
<1>5. CASE ReadDue
  <2>1. Hushed(d)
    BY <1>5, <1>b DEF ReadDue, history
  <2>2. send'[d] = NoSend
    BY <1>5, <2>1 DEF ReadDue, Hushed
  <2>3. cycle'.stage \in {"idle", "snapshot"}
    BY <1>5, <1>a, <1>c DEF ReadDue, Cycle
  <2> QED BY <1>5, <2>1, <2>2, <2>3 DEF ReadDue, Hushed, world
<1>6. CASE TakeSnapshot
  <2>1. Hushed(d)
    BY <1>6, <1>b DEF TakeSnapshot, history
  <2>2. send'[d] = NoSend /\ cycle'.stage = "dispatch"
    BY <1>6, <1>a, <2>1 DEF TakeSnapshot, Hushed, Cycle
  <2> QED BY <1>6, <2>1, <2>2 DEF TakeSnapshot, Hushed, world
<1>7. ASSUME NEW c \in Days, SendStep(c) PROVE Hushed(d)'
  <2>1. Hushed(d)
    BY <1>7, <1>b DEF SendStep, PushDelivered, PushRefused, Record, Deactivate, WriteFails, history
  <2>2. send[c].stage # "none"
    BY <1>7 DEF SendStep, PushDelivered, PushRefused, Record, Deactivate, WriteFails
  <2>3. c # d
    BY <1>a, <2>1, <2>2 DEF Hushed
  <2>4. send'[d] = send[d] /\ jobs'[d] = jobs[d] /\ account'.profile = account.profile /\ seen' = seen
    BY <1>7, <1>a, <2>3
       DEF SendStep, PushDelivered, PushRefused, Record, Deactivate, WriteFails, Account, world
  <2>5. cycle' = cycle \/ cycle'.stage = "idle"
    <3>1. cycle' = cycle \/ cycle' = Rest \/ cycle' = [Rest EXCEPT !.at = cycle.at]
      BY <1>7 DEF SendStep, PushDelivered, PushRefused, Record, Deactivate, WriteFails
    <3>2. Rest.stage = "idle" /\ [Rest EXCEPT !.at = cycle.at].stage = "idle"
      BY DEF Rest, Asleep
    <3> QED BY <3>1, <3>2
  <2> QED BY <2>1, <2>4, <2>5 DEF Hushed, LocalDay
<1>8. CASE EndDispatch \/ PassFails \/ Crash \/ Restart
  <2>1. Hushed(d)
    BY <1>8, <1>b DEF EndDispatch, PassFails, Crash, Restart, history
  <2>2. send'[d] = NoSend /\ jobs' = jobs /\ account' = account /\ seen' = seen
    BY <1>8, <2>1 DEF EndDispatch, PassFails, Crash, Restart, Hushed, world
  <2>3. cycle'.stage \in {"idle", "due", "off"}
    <3>1. EndDispatch \/ PassFails => cycle' = Rest \/ cycle' = [cycle EXCEPT !.stage = "due"]
      BY DEF EndDispatch, PassFails
    <3>2. \A stage, t : Asleep(stage, t).stage = stage
      BY DEF Asleep
    <3>4. Crash => cycle' = Asleep("off", 0)
      BY DEF Crash
    <3>5. Restart => cycle' = Asleep("idle", now)
      BY DEF Restart
    <3>3. [cycle EXCEPT !.stage = "due"].stage = "due"
      BY <1>a DEF Cycle
    <3>6. CASE EndDispatch \/ PassFails
      BY <1>c, <3>1, <3>3, <3>6
    <3>7. CASE Crash \/ Restart
      BY <3>2, <3>4, <3>5, <3>7
    <3> QED BY <1>8, <3>6, <3>7
  <2> QED BY <2>1, <2>2, <2>3 DEF Hushed
<1>9. CASE ChangeAccount
  <2>1. hushed' = hushed /\ account'.profile = account.profile
    BY <1>9, <1>a DEF ChangeAccount, Account
  <2> QED BY <1>9, <1>b, <2>1 DEF ChangeAccount, Hushed, LocalDay
<1>10. CASE SeenRead
  <2>1. Hushed(d)
    BY <1>10, <1>b DEF SeenRead, history
  <2>2. seen'.stage = "write" => seen'.profile = account.profile
    BY <1>10 DEF SeenRead, NoSeen
  <2> QED BY <1>10, <2>1, <2>2 DEF SeenRead, Hushed, LocalDay
<1>11. CASE SeenWrite
  <2>1. /\ seen' = NoSeen /\ NoSeen.stage = "none"
        /\ UNCHANGED <<account, cycle, send>>
    BY <1>11 DEF SeenWrite, NoSeen, world
  <2>2. CASE d # seen.day
    <3>1. d \in hushed /\ jobs'[d] = jobs[d]
      BY <1>11, <1>a, <2>2 DEF SeenWrite
    <3> QED BY <1>b, <2>1, <3>1 DEF Hushed, LocalDay
  <2>3. CASE d = seen.day
    <3>2. seen.profile = account.profile
      BY <1>11, <1>b DEF SeenWrite, Hushed
    <3>4. ~Overtakes(d)
      BY <1>11, <2>3, <3>2 DEF SeenWrite
    <3>5. jobs'[d].status = "cancelled" /\ jobs'[d].seen /\ jobs'[d].profile = seen.profile
      BY <1>11, <1>a, <2>3 DEF SeenWrite
    <3> QED BY <2>1, <3>2, <3>4, <3>5 DEF Hushed, Overtakes, LocalDay
  <2> QED BY <2>2, <2>3
<1>12. CASE Tick \/ UNCHANGED vars
  BY <1>12, <1>b DEF Tick, vars, history, Hushed, LocalDay
<1> QED
  BY <1>1, <1>2, <1>3, <1>4, <1>5, <1>6, <1>7, <1>8, <1>9, <1>10, <1>11, <1>12 DEF Next, PassStep

\* A step pushes nothing for such a day.
LEMMA QuietStep ==
  ASSUME PassInv, HushInv, AlertStep, NEW d \in Days, d \in hushed
  PROVE  Pushes(d)' = Pushes(d)
<1>a. log \in Seq(Push) /\ Pushes(d) \in Nat
  BY PushesNat DEF PassInv, TypeOK
<1>1. CASE log' = log
  BY <1>1 DEF Pushes
<1>2. ASSUME NEW c \in Days, NEW e \in Push, PushDelivered(c), e.day = c, log' = Append(log, e)
      PROVE  Pushes(d)' = Pushes(d)
  <2>1. e.day # d
    BY <1>2, NoSendType DEF HushInv, Hushed, PushDelivered
  <2> QED BY <1>a, <1>2, <2>1, PushesAppend
<1> QED BY <1>1, <1>2, LogStep DEF PassInv, TypeOK

\* Nothing is pushed for an acknowledged day until the profile changes, unless a push of
\* it was under way, or a planner that had looked at its job, when it was acknowledged.
THEOREM AcknowledgedIsQuiet == Spec => SeenSuppressesUnlessOvertaken
<1>1. PassInv /\ HushInv /\ AlertStep =>
        \A d \in hushed : Pushes(d)' = Pushes(d)
  BY QuietStep DEF PassInv, TypeOK, StateTypes
<1>2. PassInv /\ WriteUnsent /\ HushInv /\ [Next]_vars =>
        [\A d \in hushed : Pushes(d)' = Pushes(d)]_vars
  BY <1>1, BurnoutStep
<1>3. Init => HushInv
  BY DEF Init, HushInv
<1>4. PassInv /\ HushInv /\ [Next]_vars => HushInv'
  BY HushStep
<1> QED BY <1>2, <1>3, <1>4, BurnoutPasses, PTL DEF Spec, SeenSuppressesUnlessOvertaken
=============================================================================
