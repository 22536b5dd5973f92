----------------------------- MODULE LockedAlerts -----------------------------
(***************************************************************************)
(* The cycles of the burnout alert scheduler on several workers, each      *)
(* under the lock of its bucket: runCycle of startBurnoutAlertScheduler    *)
(* with its planning and dispatch passes, composed with SchedulerLock.     *)
(*                                                                         *)
(* The lock excludes cycles of one bucket.  Workers keep time by their own *)
(* timers, so that a cycle that began at the end of a bucket runs beside   *)
(* another worker's of the next one.  A dispatch pool that rejects ends    *)
(* the cycle and gives its lock back while pushes of the pool go on: they  *)
(* are left behind.  One user and the job of one day are followed; the     *)
(* user's documents do not change (BurnoutAlerts has what they do to one   *)
(* worker's passes), and the other users show in what ends a pool only.    *)
(***************************************************************************)
EXTENDS SchedulerLock

CONSTANT DueAt   \* scheduledAt of the job

ASSUME AlertsAssumption == DueAt \in Nat

VARIABLES
  job,      \* burnout_alert_jobs: the status of the job of the day
  pass,     \* pass[w]: the next command of the passes of worker w
  behind,     \* behind[w]: the next command of the push a pool of w has left behind
  pushes,   \* history: pushes delivered to the device
  met,      \* history: met[w], what ran beside the cycle of w: the buckets of other
            \* cycles, Stray for a push left behind
  crossed   \* history: the workers whose push left behind had a cycle beside it

alerts == <<job, pass, behind, pushes, met, crossed>>
allVars == <<vars, alerts>>

\* "recent" and "skip": the snapshot of the planner shows a recent push.  "sent" and
\* "failed": what is to be recorded.
PassStages == {"off", "snapshot", "read", "recent", "write", "skip", "due", "push", "sent", "failed", "done"}
Planning == {"read", "recent", "write", "skip"}
LeftStages == {"off", "push", "sent", "failed"}

Stray == -1   \* no bucket

AlertsInit ==
  /\ Init
  /\ job = "none"
  /\ pass = [w \in Workers |-> "off"]
  /\ behind = [w \in Workers |-> "off"]
  /\ pushes = 0
  /\ met = [w \in Workers |-> {}]
  /\ crossed = {}

Working(w) == cycle[w].stage = "work"
Strays == {w \in Workers : behind[w] # "off"}
Goes(w, stage) == pass' = [pass EXCEPT ![w] = stage]
LeftGoes(w, stage) == behind' = [behind EXCEPT ![w] = stage]

-----------------------------------------------------------------------------
(* The planning pass.                                                      *)

\* runPlanningPass: the pushes within the cooldown are part of the snapshot.
Snapshot(w) ==
  /\ pass[w] = "snapshot"
  /\ Goes(w, IF job = "sent" THEN "recent" ELSE "read")
  /\ UNCHANGED <<vars, job, behind, pushes, met, crossed>>

\* Mutant: a job that was sent is planned like any other.
ReadJobPlannedOnly(w) ==
  /\ pass[w] \in {"read", "recent"}
  /\ Goes(w, CASE job = "planned" -> "due"
               [] job # "planned" /\ pass[w] = "read" -> "write"
               [] OTHER -> "skip")
  /\ UNCHANGED <<vars, job, behind, pushes, met, crossed>>

\* planBurnoutAlertForUser: a job that was sent or is planned stays.
ReadJob(w) ==
  /\ pass[w] \in {"read", "recent"}
  /\ Goes(w, CASE job \in {"sent", "planned"} -> "due"
               [] job \notin {"sent", "planned"} /\ pass[w] = "read" -> "write"
               [] OTHER -> "skip")
  /\ UNCHANGED <<vars, job, behind, pushes, met, crossed>>

\* The status is written by key, whatever the job has become since it was read.
WriteJob(w) ==
  /\ pass[w] \in {"write", "skip"}
  /\ job' = IF pass[w] = "write" THEN "planned" ELSE "skipped"
  /\ Goes(w, "due")
  /\ UNCHANGED <<vars, behind, pushes, met, crossed>>

\* A user whose planning throws is left out, and the pass goes on.
PlanFails(w) ==
  /\ pass[w] \in Planning
  /\ Goes(w, "due")
  /\ UNCHANGED <<vars, job, behind, pushes, met, crossed>>

-----------------------------------------------------------------------------
(* The dispatch pass.                                                      *)

ReadDue(w) ==
  /\ pass[w] = "due"
  /\ Goes(w, IF job = "planned" /\ DueAt <= now THEN "push" ELSE "done")
  /\ UNCHANGED <<vars, job, behind, pushes, met, crossed>>

\* sendExpoBurnoutPush: delivered, delivered without an answer, or refused.
Delivers(outcome) ==
  \/ pushes' = pushes + 1
  \/ outcome = "failed" /\ UNCHANGED pushes

PushJob(w) ==
  /\ pass[w] = "push"
  /\ \E outcome \in {"sent", "failed"} : Delivers(outcome) /\ Goes(w, outcome)
  /\ UNCHANGED <<vars, job, behind, met, crossed>>

\* The status of the job is written by _id; when a write throws, by the catch block.
Record(w) ==
  /\ pass[w] \in {"sent", "failed"}
  /\ job' = pass[w]
  /\ Goes(w, "done")
  /\ UNCHANGED <<vars, behind, pushes, met, crossed>>

RecordFails(w) ==
  /\ pass[w] = "sent"
  /\ Goes(w, "failed")
  /\ UNCHANGED <<vars, job, behind, pushes, met, crossed>>

-----------------------------------------------------------------------------
(* The same commands, of a push a rejected pool has left behind.           *)

LeftPush(w) ==
  /\ behind[w] = "push"
  /\ \E outcome \in {"sent", "failed"} : Delivers(outcome) /\ LeftGoes(w, outcome)
  /\ UNCHANGED <<vars, job, pass, met, crossed>>

\* The last write of the job is made, or throws in the catch block.
LeftRecord(w) ==
  /\ \/ behind[w] \in {"sent", "failed"} /\ job' = behind[w]
     \/ behind[w] = "failed" /\ UNCHANGED job
  /\ LeftGoes(w, "off")
  /\ crossed' = crossed \ {w}
  /\ UNCHANGED <<vars, pass, pushes, met>>

LeftRecordFails(w) ==
  /\ behind[w] = "sent"
  /\ LeftGoes(w, "failed")
  /\ UNCHANGED <<vars, job, pass, pushes, met, crossed>>

-----------------------------------------------------------------------------
(* The cycle under its lock: a step of the timer loop and of the lock, and *)
(* what it does to the passes.                                             *)

\* The cycle of w has run beside one of another bucket, or beside a push left behind.
BesideAnother(w) == \E b \in met[w] : b # cycle[w].bucket

\* The passes begin where the work does.
BeginsWork(w) ==
  /\ ~Working(w) /\ cycle'[w].stage = "work"
  /\ Goes(w, "snapshot")
  /\ LET others == {v \in Workers \ {w} : Working(v)}
     IN  met' = [v \in Workers |->
           CASE v = w -> {cycle[u].bucket : u \in others} \cup {Stray : u \in Strays}
             [] v \in others -> met[v] \cup {cycle'[w].bucket}
             [] OTHER -> met[v]]
  /\ crossed' = Strays
  /\ UNCHANGED <<job, behind, pushes>>

\* The work ends: after the passes, where a read of all users throws, or where the pool
\* rejects, as the catch block of this job threw or before any runner took this job up.
EndsWork(w) ==
  /\ Working(w) /\ kills' = kills
  /\ pass[w] \in {"snapshot", "due", "push", "failed", "done"}
  /\ Goes(w, "off")
  /\ met' = [met EXCEPT ![w] = {}]
  /\ UNCHANGED <<job, behind, pushes, crossed>>

\* Promise.all rejects as the catch block of another user's job threw: the cycle is over
\* and this push is not.  Bound: a process has left one behind at most.
LeavesBehind(w) ==
  /\ Working(w) /\ kills' = kills
  /\ pass[w] \in {"push", "sent", "failed"} /\ behind[w] = "off"
  /\ Goes(w, "off")
  /\ LeftGoes(w, pass[w])
  /\ met' = [v \in Workers |-> CASE v = w -> {}
                               [] v # w /\ Working(v) -> met[v] \cup {Stray}
                               [] OTHER -> met[v]]
  /\ crossed' = IF BesideAnother(w) THEN crossed \cup {w} ELSE crossed
  /\ UNCHANGED <<job, pushes>>

\* The process is gone, with all it had in flight.
Dies(w) ==
  /\ kills' > kills
  /\ Goes(w, "off") /\ LeftGoes(w, "off")
  /\ met' = [met EXCEPT ![w] = {}]
  /\ crossed' = crossed \ {w}
  /\ UNCHANGED <<job, pushes>>

OutsideWork(w) ==
  /\ ~Working(w) /\ cycle'[w].stage # "work" /\ kills' = kills
  /\ UNCHANGED alerts

LockStep(w) ==
  WorkerStep(w) /\ (BeginsWork(w) \/ EndsWork(w) \/ LeavesBehind(w) \/ Dies(w) \/ OutsideWork(w))

PassStep(w) ==
  \/ Snapshot(w) \/ ReadJob(w) \/ WriteJob(w) \/ PlanFails(w)
  \/ ReadDue(w) \/ PushJob(w) \/ Record(w) \/ RecordFails(w)

LeftStep(w) == LeftPush(w) \/ LeftRecord(w) \/ LeftRecordFails(w)

AlertsNext ==
  \/ \E w \in Workers : LockStep(w) \/ PassStep(w) \/ LeftStep(w)
  \/ (RedisFlips \/ Tick) /\ UNCHANGED alerts

AlertsSpec == AlertsInit /\ [][AlertsNext]_allVars

-----------------------------------------------------------------------------
(* Properties.                                                             *)

\* A push is repeated while another one is on record or about to be.
OnRecord == job = "sent" \/ \E w \in Workers : "sent" \in {pass[w], behind[w]}
Repeats == pushes' > pushes /\ OnRecord

\* The record of a push is overwritten.
Erases == job = "sent" /\ job' # "sent"

\* In production a push is repeated, or its record overwritten, only side by side: by a
\* cycle that ran beside one of another bucket or beside a push that a rejected pool left
\* behind, or by such a push after a cycle ran beside it.  The lock sees to the rest.
OncePushedUnlessBesideAnother ==
  [][runtime.nodeEnv = "production" /\ (Repeats \/ Erases) =>
       \E w \in Workers : \/ pass'[w] # pass[w] /\ BesideAnother(w)
                          \/ behind'[w] # behind[w] /\ w \in crossed]_allVars
=============================================================================
