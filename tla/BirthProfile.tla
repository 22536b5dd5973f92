------------------------------ MODULE BirthProfile ------------------------------
(***************************************************************************)
(* The birth profile of a user and what edits it: PUT /birth-profile of    *)
(* astrologyProfileRoutes.ts with the edit lock of astrologyShared.ts, and *)
(* POST /natal-chart of astrologyNatalChartRoutes.ts, which stores the     *)
(* profile it is given and then the chart of it.                           *)
(*                                                                         *)
(* One user is followed; a profile is its hash.  Requests of this module   *)
(* and of the ones that extend it share the table req: an actor serves one *)
(* request at a time, a record whose stage names its next command.         *)
(***************************************************************************)
EXTENDS Integers, FiniteSets

CONSTANTS
  Profiles,    \* profile hashes
  NoProfile,   \* the user has not been onboarded
  Actors,      \* requests served at the same time, and the worker's pass
  Worker,      \* the actor that is the scheduler's pass
  LocksOn,     \* values BIRTH_PROFILE_EDIT_LOCKS_ENABLED may have, resolved
  MaxLevel,    \* BIRTH_PROFILE_EDIT_LOCK_MAX_LEVEL
  LongestLock, \* BIRTH_PROFILE_EDIT_LOCK_MAX_DAYS
  MaxDay,      \* bound: the clock, in days
  MaxEdits,    \* bound: profiles and settings sent by the client
  MaxFaults    \* bound: commands and calls that fail, processes that die

ASSUME ProfileAssumption ==
  /\ NoProfile \notin Profiles
  /\ Worker \in Actors
  /\ LocksOn \subseteq BOOLEAN
  /\ {MaxLevel, LongestLock} \subseteq Nat \ {0}
  /\ {MaxDay, MaxEdits, MaxFaults} \subseteq Nat

VARIABLES
  today,      \* the day
  locksOn,    \* the setting of this deployment
  profile,    \* birth_profiles: hash and edit lock
  charts,     \* natal_charts: the profiles with a chart
  req,        \* req[a]: what actor a serves
  edits, faults

profileVars == <<today, locksOn, profile, charts, req, edits, faults>>

\* resolveBirthProfileEditLockDurationDays.
LockDays(level) == LET days == 2 ^ (level - 1) IN IF days < LongestLock THEN days ELSE LongestLock

NoLock == 0
Requests == Actors \ {Worker}

\* hash: the profile of the request; was: the hash an edit found; level: the level
\* of the lock an edit will set; since: the day of the request; alone: no other request was under way since this one began; the
\* other fields belong to the modules that extend this one.
Idle == [kind |-> "none", stage |-> "idle", hash |-> NoProfile, was |-> NoProfile,
         level |-> NoLock, since |-> 0, alone |-> TRUE,
         from |-> 0, until |-> 0, left |-> {}, found |-> {},
         missed |-> FALSE, rebuild |-> FALSE]

At(a, stage) == req[a].stage = stage
InFlight(a) == ~At(a, "idle")

ProfileInit ==
  /\ today = 0
  /\ locksOn \in LocksOn
  /\ \E p \in Profiles \cup {NoProfile} :
       /\ profile = [hash |-> p, level |-> 0, until |-> 0]
       /\ charts = {p} \ {NoProfile}
  /\ req = [a \in Actors |-> Idle]
  /\ edits = 0
  /\ faults = 0

\* Every request under way meets the one that begins.
Begins(a, request) ==
  req' = [b \in Actors |->
    IF b = a THEN [request EXCEPT !.alone = \A c \in Actors \ {a} : ~InFlight(c)]
    ELSE IF InFlight(b) THEN [req[b] EXCEPT !.alone = FALSE] ELSE Idle]
GoesOn(a, stage) == req' = [req EXCEPT ![a].stage = stage]
Ends(a) == req' = [req EXCEPT ![a] = Idle]

-----------------------------------------------------------------------------
(* PUT /birth-profile.                                                     *)

Locked == profile.until > today

\* resolveBirthProfileEditPolicy: the level of the next lock, or NoLock for an edit
\* that changes nothing or is the first.
NextLevel(h) ==
  IF ~locksOn \/ profile.hash \in {NoProfile, h} THEN NoLock
  ELSE IF profile.level < MaxLevel THEN profile.level + 1 ELSE MaxLevel

\* The profile is read and the policy resolved; a locked edit is answered 429 and
\* leaves no trace.
ReadExisting(a, h) ==
  /\ a \in Requests /\ At(a, "idle") /\ edits < MaxEdits
  /\ NextLevel(h) # NoLock => ~Locked
  /\ edits' = edits + 1
  /\ Begins(a, [Idle EXCEPT !.kind = "put", !.stage = "upsert", !.hash = h,
       !.was = profile.hash, !.level = NextLevel(h), !.since = today])
  /\ UNCHANGED <<today, locksOn, profile, charts, faults>>

\* Mutant: the hash is compared with the one just stored.
EditResetsLate(a) == req[a].hash # req[a].hash

\* Whether the PUT resets the interview window: it compares with the hash it read.
EditResets(a) == req[a].was \notin {NoProfile, req[a].hash}

\* upsertBirthProfile: the lock is written when the policy set one.
Upsert(a) ==
  /\ At(a, "upsert")
  /\ profile' = IF req[a].level = NoLock THEN [profile EXCEPT !.hash = req[a].hash]
                ELSE [hash |-> req[a].hash, level |-> req[a].level,
                      until |-> req[a].since + LockDays(req[a].level)]
  /\ req' = [req EXCEPT ![a] = IF ~EditResets(a) THEN Idle
                ELSE [Idle EXCEPT !.kind = "put", !.stage = "reset", !.alone = req[a].alone]]
  /\ UNCHANGED <<today, locksOn, charts, edits, faults>>

-----------------------------------------------------------------------------
(* POST /natal-chart.                                                      *)

\* With a body: resolveNatalInputForUser stores it, without a policy or a reset.
PostProfile(a, h) ==
  /\ a \in Requests /\ At(a, "idle") /\ edits < MaxEdits
  /\ edits' = edits + 1
  /\ profile' = [profile EXCEPT !.hash = h]
  /\ Begins(a, [Idle EXCEPT !.kind = "chart", !.stage = "chart", !.hash = h])
  /\ UNCHANGED <<today, locksOn, charts, faults>>

\* Without: the stored profile is read; 404 when there is none.
PostEmpty(a) ==
  /\ a \in Requests /\ At(a, "idle")
  /\ profile.hash \notin charts \cup {NoProfile}
  /\ Begins(a, [Idle EXCEPT !.kind = "chart", !.stage = "chart", !.hash = profile.hash])
  /\ UNCHANGED <<today, locksOn, profile, charts, edits, faults>>

\* The chart is looked up and, when it is not there, asked for and stored.
StoreChart(a) ==
  /\ At(a, "chart")
  /\ charts' = charts \cup {req[a].hash}
  /\ Ends(a)
  /\ UNCHANGED <<today, locksOn, profile, edits, faults>>

-----------------------------------------------------------------------------
\* An edit takes less than the shortest lock: from its read to its upsert no day
\* passes.
EditsAreShort == \A a \in Actors : ~At(a, "upsert")

NextDay ==
  /\ today < MaxDay
  /\ EditsAreShort
  /\ today' = today + 1
  /\ UNCHANGED <<locksOn, profile, charts, req, edits, faults>>

\* MongoDB or the provider fails, or the process dies: the request ends here.
Fails(a) ==
  /\ InFlight(a)
  /\ faults < MaxFaults
  /\ faults' = faults + 1
  /\ Ends(a)
  /\ UNCHANGED <<today, locksOn, profile, charts, edits>>

-----------------------------------------------------------------------------
(* The contract: a profile that an edit has locked does not change before  *)
(* the lock ends (docs/backend-api-runtime-map.md).                        *)
EditLocksHold ==
  [][profile'.hash # profile.hash => ~Locked]_profileVars
=============================================================================
