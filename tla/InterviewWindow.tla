----------------------------- MODULE InterviewWindow -----------------------------
(***************************************************************************)
(* The window of interview slots, services/interviewStrategy.ts and        *)
(* services/interviewStrategyScheduler.ts, beside the edits of the profile *)
(* it is computed from.                                                    *)
(*                                                                         *)
(* Slots are generated for a range of days and the settings remember until *)
(* which day that was done.  The worker's pass and GET                     *)
(* /interview-strategy-plan extend the range, ?refresh=true builds it      *)
(* anew, and a PUT that changes the profile empties it.  A slot does not   *)
(* say of which profile it is; the model does, to tell.                    *)
(***************************************************************************)
EXTENDS BirthProfile

CONSTANTS
  Workdays,    \* INTERVIEW_STRATEGY_FIXED_ALLOWED_WEEKDAYS, as days of the clock
  Score,       \* Score[p][d]: what a profile scores on a day
  StartOf,     \* StartOf[p][d]: where its slot of that day begins and how long it is
  MinScore, SafetyScore,   \* INTERVIEW_STRATEGY_MIN_SCORE, ..._SAFETY_MIN_SCORE
  MonthDays, MonthlyTarget, Spacing, \* 30, INTERVIEW_STRATEGY_MONTHLY_SLOT_*
  Horizon,     \* INTERVIEW_STRATEGY_INITIAL_HORIZON_DAYS
  Threshold,   \* INTERVIEW_STRATEGY_REFILL_THRESHOLD_DAYS
  RefillDays   \* INTERVIEW_STRATEGY_REFILL_DAYS

\* The days anything is generated for.
Days == 0..(MaxDay + Threshold + Horizon + RefillDays)

ASSUME WindowAssumption ==
  /\ {Horizon, Threshold, RefillDays, MonthDays, MonthlyTarget} \subseteq Nat \ {0}
  /\ {MinScore, SafetyScore, Spacing} \subseteq Nat
  /\ Workdays \subseteq Days
  /\ Score \in [Profiles -> [Days -> Nat]]
  /\ StartOf \in [Profiles -> [Days -> Nat]]

VARIABLES
  enabled,     \* interview_strategy_settings: enabled, and so confirmed
  filledUntil, \* interview_strategy_settings: filledUntilDateKey
  slots,       \* interview_strategy_slots
  planned,     \* history: days of a generation that ended, until they are deleted
  clean        \* history: nothing disturbed the window since it was last built alone

windowVars == <<enabled, filledUntil, slots, planned, clean>>
stateVars == <<profileVars, windowVars>>

NotFilled == -1
\* slotId is the day and the start; of: the profile it was computed from; told: the
\* profile its explanation speaks of.
Slot(p, d) == [day |-> d, start |-> StartOf[p][d], of |-> p, told |-> p]
SameSlot(s, t) == s.day = t.day /\ s.start = t.start

WindowInit ==
  /\ ProfileInit
  /\ enabled \in BOOLEAN
  /\ filledUntil = NotFilled
  /\ slots = {}
  /\ planned = {}
  /\ clean = TRUE

-----------------------------------------------------------------------------
(* selectInterviewStrategySlotsForRange.                                   *)

AtMost(a, b) == IF a < b THEN a ELSE b
AtLeast(a, b) == IF a < b THEN b ELSE a

\* resolveInterviewStrategySlotTarget: the share of the month, rounded.
Target(days) ==
  AtLeast(1, AtMost(MonthlyTarget, (2 * days * MonthlyTarget + MonthDays) \div (2 * MonthDays)))

Apart(d, e) == IF d < e THEN e - d ELSE d - e

\* The best of some days for p; the earlier of two equals.
Best(p, days) ==
  CHOOSE d \in days : \A e \in days \ {d} :
    Score[p][d] > Score[p][e] \/ (Score[p][d] = Score[p][e] /\ d < e)

\* The two loops: first the best day that is far from those taken, and when there is
\* none the best of the others.
Pick(p, pool, target) ==
  LET Grown(taken) ==
        LET rest == pool \ taken
            far == {d \in rest : \A e \in taken : Apart(d, e) >= Spacing}
        IN  IF rest = {} THEN taken
            ELSE taken \cup {Best(p, IF far = {} THEN rest ELSE far)}
      pick[n \in 0..target] == IF n = 0 THEN {} ELSE Grown(pick[n - 1])
  IN  pick[target]

\* The days of p that get a slot, out of those it has a transit for.
Select(p, days, range) ==
  LET qualified == {d \in days : Score[p][d] >= MinScore}
      safe == {d \in days : Score[p][d] >= SafetyScore}
  IN  IF qualified # {} THEN Pick(p, qualified, Target(range))
      ELSE Pick(p, safe, AtMost(Target(range), 1))

-----------------------------------------------------------------------------
(* maybeRefillInterviewStrategyWindowForUser and                           *)
(* rebuildInterviewStrategyWindowForUser.                                  *)

\* The pass reads the settings of all users at once; where a request stops short,
\* the plan is still fetched.
Stops(a) ==
  req' = [req EXCEPT ![a] = IF a = Worker THEN Idle ELSE [Idle EXCEPT !.kind = "plan", !.stage = "fetch"]]

BeginPass ==
  /\ At(Worker, "idle") /\ enabled
  /\ Begins(Worker, [Idle EXCEPT !.kind = "pass", !.stage = "expire",
                                 !.since = today, !.until = filledUntil])
  /\ UNCHANGED <<today, locksOn, profile, charts, edits, faults, windowVars>>

BeginPlan(a) ==
  /\ a \in Requests /\ At(a, "idle") /\ enabled
  /\ Begins(a, [Idle EXCEPT !.kind = "plan", !.stage = "expire",
                            !.since = today, !.until = filledUntil])
  /\ UNCHANGED <<today, locksOn, profile, charts, edits, faults, windowVars>>

\* The plan of a feature that is off is fetched as it is.
BeginFetch(a) ==
  /\ a \in Requests /\ At(a, "idle") /\ ~enabled
  /\ Begins(a, [Idle EXCEPT !.kind = "plan", !.stage = "fetch"])
  /\ UNCHANGED <<today, locksOn, profile, charts, edits, faults, windowVars>>

BeginRefresh(a) ==
  /\ a \in Requests /\ At(a, "idle")
  /\ Begins(a, [Idle EXCEPT !.kind = "plan", !.stage = "settings", !.since = today])
  /\ UNCHANGED <<today, locksOn, profile, charts, edits, faults, windowVars>>

FutureOf(day) == {s \in slots : s.day >= day}

\* A request takes the day as it begins, the pass only as it comes to the user.
DaysOf(a) == IF a = Worker THEN req[a].since .. today ELSE {req[a].since}

\* Mutant: a refill skips a day.
ExpireWithGap(a) ==
  /\ At(a, "expire")
  /\ \E day \in DaysOf(a) :
       LET filled == req[a].until
       IN  /\ slots' = FutureOf(day)
           /\ IF filled = NotFilled THEN req' = [req EXCEPT ![a].stage = "settings", ![a].since = day]
              ELSE IF filled - day > Threshold THEN Stops(a)
              ELSE req' = [req EXCEPT ![a].stage = "natal", ![a].since = 0,
                             ![a].from = filled + 2, ![a].until = filled + RefillDays + 1]
  /\ UNCHANGED <<today, locksOn, profile, charts, edits, faults, enabled, filledUntil, planned, clean>>

\* Mutant: a window whose days are down to the threshold still has enough.
ExpireLater(a) ==
  /\ At(a, "expire")
  /\ \E day \in DaysOf(a) :
       LET filled == req[a].until
       IN  /\ slots' = FutureOf(day)
           /\ IF filled = NotFilled THEN req' = [req EXCEPT ![a].stage = "settings", ![a].since = day]
              ELSE IF filled - day >= Threshold THEN Stops(a)
              ELSE req' = [req EXCEPT ![a].stage = "natal", ![a].since = 0,
                             ![a].from = filled + 1, ![a].until = filled + RefillDays]
  /\ UNCHANGED <<today, locksOn, profile, charts, edits, faults, enabled, filledUntil, planned, clean>>

\* Past slots are deleted and the settings that were read decide: nothing was ever
\* filled, there are days enough, or the range is extended.
Expire(a) ==
  /\ At(a, "expire")
  /\ \E day \in DaysOf(a) :
       LET filled == req[a].until
       IN  /\ slots' = FutureOf(day)
           /\ IF filled = NotFilled THEN req' = [req EXCEPT ![a].stage = "settings", ![a].since = day]
              ELSE IF filled - day > Threshold THEN Stops(a)
              ELSE req' = [req EXCEPT ![a].stage = "natal", ![a].since = 0,
                             ![a].from = filled + 1, ![a].until = filled + RefillDays]
  /\ UNCHANGED <<today, locksOn, profile, charts, edits, faults, enabled, filledUntil, planned, clean>>

\* A rebuild reads the settings itself.
ReadSettings(a) ==
  /\ At(a, "settings")
  /\ IF enabled THEN GoesOn(a, "clear") ELSE Stops(a)
  /\ UNCHANGED <<today, locksOn, profile, charts, edits, faults, windowVars>>

\* The two deletes, of the past days and of the others: all slots.
Clear(a) ==
  /\ At(a, "clear")
  /\ slots' = {}
  /\ planned' = {}
  /\ clean' = (clean /\ req[a].alone)
  /\ req' = [req EXCEPT ![a].stage = "natal", ![a].rebuild = TRUE, ![a].since = 0,
               ![a].from = req[a].since, ![a].until = req[a].since + Horizon - 1]
  /\ UNCHANGED <<today, locksOn, profile, charts, edits, faults, enabled, filledUntil>>

-----------------------------------------------------------------------------
(* generateSlotsForRange.                                                  *)

Earliest(days) == CHOOSE d \in days : \A e \in days : d <= e

\* Where a generation goes when it has no day left to ask for: it throws if it has
\* only failures, else it chooses the days to write.
Collected(r) ==
  LET chosen == Select(r.hash, r.found, r.until - r.from + 1)
  IN  IF r.left # {} THEN r
      ELSE IF r.found = {} /\ r.missed THEN Idle
      ELSE [r EXCEPT !.stage = IF chosen = {} THEN "record" ELSE "write",
                     !.found = chosen, !.left = chosen, !.missed = FALSE]

\* A generation that throws leaves a window it had emptied empty.
Continues(a, r) ==
  LET next == Collected(r)
  IN  /\ req' = [req EXCEPT ![a] = next]
      /\ clean' = (clean /\ ~(next = Idle /\ r.rebuild))

\* The active profile and its chart, without which it throws (charts stay, so the
\* two reads are one).
ReadNatal(a) ==
  /\ At(a, "natal")
  /\ IF profile.hash \in charts
       THEN Continues(a, [req[a] EXCEPT !.stage = "transit", !.hash = profile.hash,
                            !.left = Workdays \cap (req[a].from .. req[a].until)])
       ELSE Ends(a) /\ clean' = (clean /\ ~req[a].rebuild)
  /\ UNCHANGED <<today, locksOn, profile, charts, edits, faults, enabled, filledUntil, slots, planned>>

\* The transit of the next day, for the profile of the moment; the day is skipped
\* when that is no longer the profile the generation began with.
Transit(a) ==
  /\ At(a, "transit")
  /\ LET d == Earliest(req[a].left)
     IN  Continues(a, [req[a] EXCEPT !.left = @ \ {d},
                         !.found = IF profile.hash = req[a].hash THEN @ \cup {d} ELSE @])
  /\ UNCHANGED <<today, locksOn, profile, charts, edits, faults, enabled, filledUntil, slots, planned>>

TransitFails(a) ==
  /\ At(a, "transit") /\ faults < MaxFaults
  /\ faults' = faults + 1
  /\ Continues(a, [req[a] EXCEPT !.left = @ \ {Earliest(@)}, !.missed = TRUE])
  /\ UNCHANGED <<today, locksOn, profile, charts, edits, enabled, filledUntil, slots, planned>>

\* The slots are upserted one after the other; a pass then polishes them.
WriteSlot(a) ==
  /\ At(a, "write")
  /\ LET r == req[a]
         slot == Slot(r.hash, Earliest(r.left))
         rest == r.left \ {slot.day}
     IN  /\ slots' = {s \in slots : ~SameSlot(s, slot)} \cup {slot}
         /\ req' = [req EXCEPT ![a].left = IF rest = {} /\ a = Worker THEN r.found ELSE rest,
                      ![a].stage = IF rest # {} THEN @ ELSE IF a = Worker THEN "polish" ELSE "record"]
  /\ UNCHANGED <<today, locksOn, profile, charts, edits, faults, enabled, filledUntil, planned, clean>>

\* The explanation of a slot is replaced, by slotId, or the language model gave none
\* and it stays; it speaks of the slot and of the transit the profile of the moment has.
\* The worker waits for it, a request is answered before.  (The code starts the task of
\* a request before RecordRange; neither touches what the other does.)
Polish(a) ==
  /\ At(a, "polish")
  /\ LET r == req[a]
         slot == Slot(r.hash, Earliest(r.left))
         rest == r.left \ {slot.day}
     IN  /\ \/ \E h \in {r.hash, profile.hash} \ {NoProfile} :
                 slots' = {IF SameSlot(s, slot) THEN [s EXCEPT !.told = h] ELSE s : s \in slots}
            \/ UNCHANGED slots
         /\ IF rest # {} THEN req' = [req EXCEPT ![a].left = rest]
            ELSE IF a = Worker THEN req' = [req EXCEPT ![a].left = rest, ![a].stage = "record"]
            ELSE Ends(a)
  /\ UNCHANGED <<today, locksOn, profile, charts, edits, faults, enabled, filledUntil, planned, clean>>

\* The settings remember the end of the range.
RecordRange(a) ==
  /\ At(a, "record")
  /\ filledUntil' = req[a].until
  /\ planned' = planned \cup (req[a].from .. req[a].until)
  /\ clean' = (clean \/ (req[a].rebuild /\ req[a].alone))
  /\ IF a = Worker THEN Ends(a)
     ELSE req' = [req EXCEPT ![a] = [Idle EXCEPT !.kind = "plan", !.stage = "fetch",
                                       !.hash = req[a].hash, !.found = req[a].found]]
  /\ UNCHANGED <<today, locksOn, profile, charts, edits, faults, enabled, slots>>

\* fetchInterviewStrategyPlanForUser, and the answer.
Fetch(a) ==
  /\ At(a, "fetch")
  /\ slots' = FutureOf(today)
  /\ IF req[a].found = {} THEN Ends(a)
     ELSE req' = [req EXCEPT ![a].stage = "polish", ![a].left = req[a].found]
  /\ UNCHANGED <<today, locksOn, profile, charts, edits, faults, enabled, filledUntil, planned, clean>>

-----------------------------------------------------------------------------
(* resetInterviewStrategyWindowAfterProfileChange.                         *)

ReadReset(a) ==
  /\ At(a, "reset")
  /\ req' = [req EXCEPT ![a].stage = "wipe", ![a].since = today]
  /\ UNCHANGED <<today, locksOn, profile, charts, edits, faults, windowVars>>

\* Two commands sent together, in either order.
Wiped(a, other) ==
  /\ IF At(a, "wipe") THEN GoesOn(a, other) ELSE Ends(a)
  /\ clean' = (req[a].alone /\ (clean \/ ~At(a, "wipe")))

WipeSlots(a) ==
  /\ At(a, "wipe") \/ At(a, "wipeSlots")
  /\ slots' = slots \ FutureOf(req[a].since)
  /\ planned' = {d \in planned : d < req[a].since}
  /\ Wiped(a, "wipeSettings")
  /\ UNCHANGED <<today, locksOn, profile, charts, edits, faults, enabled, filledUntil>>

WipeSettings(a) ==
  /\ At(a, "wipe") \/ At(a, "wipeSettings")
  /\ filledUntil' = NotFilled
  /\ Wiped(a, "wipeSlots")
  /\ UNCHANGED <<today, locksOn, profile, charts, edits, faults, enabled, slots, planned>>

-----------------------------------------------------------------------------
\* PUT /interview-strategy-settings.
SaveSettings ==
  /\ edits < MaxEdits
  /\ edits' = edits + 1
  /\ enabled' = ~enabled
  /\ UNCHANGED <<today, locksOn, profile, charts, req, faults, filledUntil, slots, planned, clean>>

\* An edit disturbs the window when it changes the profile beside another request,
\* and POST /natal-chart whenever it changes it.
EditProfile(a) ==
  /\ Upsert(a)
  /\ clean' = (clean /\ (req[a].alone \/ profile.hash \in {NoProfile, req[a].hash}))
  /\ UNCHANGED <<enabled, filledUntil, slots, planned>>

PostOther(a, h) ==
  /\ PostProfile(a, h)
  /\ clean' = (clean /\ profile.hash \in {NoProfile, h})
  /\ UNCHANGED <<enabled, filledUntil, slots, planned>>

\* So does a failure between an edit and its reset, or in a rebuild.
Lose(a) ==
  /\ Fails(a)
  /\ clean' = (clean /\ ~req[a].rebuild /\ (req[a].kind = "put" => At(a, "upsert")))
  /\ UNCHANGED <<enabled, filledUntil, slots, planned>>

Serve(a) ==
  \/ Expire(a) \/ ReadSettings(a) \/ Clear(a)
  \/ ReadNatal(a) \/ Transit(a) \/ WriteSlot(a) \/ Polish(a) \/ RecordRange(a) \/ Fetch(a)
  \/ EditProfile(a) \/ ReadReset(a) \/ WipeSlots(a) \/ WipeSettings(a)
  \/ StoreChart(a) /\ UNCHANGED windowVars

WindowNext ==
  \/ SaveSettings \/ BeginPass
  \/ NextDay /\ planned' = planned \ {today} /\ UNCHANGED <<enabled, filledUntil, slots, clean>>
  \/ \E a \in Actors : \/ Serve(a) \/ TransitFails(a) \/ Lose(a)
                       \/ BeginPlan(a) \/ BeginFetch(a) \/ BeginRefresh(a)
                       \/ PostEmpty(a) /\ UNCHANGED windowVars
                       \/ \E h \in Profiles : \/ ReadExisting(a, h) /\ UNCHANGED windowVars
                                              \/ PostOther(a, h)

WindowSpec ==
  /\ WindowInit /\ [][WindowNext]_stateVars
  /\ WF_stateVars(BeginPass)
  /\ WF_stateVars(Serve(Worker))

-----------------------------------------------------------------------------
RequestStages == {"idle", "upsert", "reset", "wipe", "wipeSlots", "wipeSettings", "chart",
  "expire", "settings", "clear", "natal", "transit", "write", "polish", "record", "fetch"}

WindowTypeOK ==
  /\ today \in 0..MaxDay /\ locksOn \in BOOLEAN
  /\ profile \in [hash : Profiles \cup {NoProfile}, level : 0..MaxLevel, until : Nat]
  /\ charts \subseteq Profiles
  /\ \A a \in Actors : req[a].stage \in RequestStages /\ req[a].found \cup req[a].left \subseteq Days
  /\ edits \in 0..MaxEdits /\ faults \in 0..MaxFaults
  /\ enabled \in BOOLEAN /\ clean \in BOOLEAN
  /\ filledUntil \in Days \cup {NotFilled}
  /\ slots \subseteq [day : Days, start : Nat, of : Profiles, told : Profiles]
  /\ planned \subseteq Days

AtRest == \A a \in Actors : ~InFlight(a)

(* Slots follow the profile: at rest, every slot that is still ahead is of *)
(* the active profile and its explanation speaks of that one, unless the   *)
(* profile was changed by POST /natal-chart, beside another request or     *)
(* without its reset, and since then no rebuild or edit had the window to  *)
(* itself (resetInterviewStrategyWindowAfterProfileChange).                *)
SlotsFollowProfile ==
  (clean /\ AtRest) => \A s \in slots : s.day >= today => s.of = profile.hash /\ s.told = profile.hash

(* What is marked as filled was generated: under the same proviso, at rest *)
(* every day from today until filledUntilDateKey lies in a range whose     *)
(* generation ended and was not deleted since, so that a refill leaves no  *)
(* gap (filledUntilDateKey).                                               *)
FilledIsPlanned ==
  (clean /\ AtRest /\ filledUntil # NotFilled) => today .. filledUntil \subseteq planned

(* The horizon rolls: while the feature stays enabled and the active       *)
(* profile has its chart, the filled range extends beyond the threshold    *)
(* again and again, whatever edits, refreshes and failures came before     *)
(* (interviewStrategyScheduler).                                           *)
HorizonIsKept ==
  <>[](enabled /\ profile.hash \in charts)
    => []<>(filledUntil # NotFilled /\ filledUntil - today > Threshold)
=============================================================================
