------------------------------- MODULE Narratives -------------------------------
(***************************************************************************)
(* The documents of the day a user's profile has: the transit of           *)
(* services/dailyTransit.ts, the AI synergy of services/aiSynergy.ts, the  *)
(* plan of services/careerVibePlan.ts and the briefing of                  *)
(* services/morningBriefing.ts.  A request finds a document or makes it    *)
(* from the ones below it; the plan of a request that does not wait for    *)
(* the LLM is stored as pending and finished by a task in the background.  *)
(*                                                                         *)
(* One premium user and one day are followed: documents are keyed by day,  *)
(* tier and versions, which a request resolves once, and the free tier's   *)
(* plan never waits for an LLM.  A document is what the properties tell    *)
(* apart: the status of its narrative, and the profile whose transit it    *)
(* was built from.  Nothing deletes these documents.                       *)
(***************************************************************************)
EXTENDS Integers, FiniteSets

CONSTANTS
  Profiles,      \* birth profile hashes the user's profile takes
  NoProfile,
  Actors,        \* requests served at the same time, and the scheduler's run
  Worker,        \* the actor that is the run of the daily transit scheduler
  Tasks,         \* bound: enhancements that run in the background
  LlmOn,         \* whether an LLM provider may be configured, resolved
  RetryAfter,    \* CAREER_VIBE_PENDING_RETRY_AFTER_MS, in ticks
  MaxTime,       \* bound: the clock stops here
  MaxRequests,   \* bound: requests and runs that begin
  MaxEdits,      \* bound: edits of the birth profile
  MaxFaults      \* bound: failed commands and deaths

ASSUME NarrativesAssumption ==
  /\ NoProfile \notin Profiles
  /\ Worker \in Actors
  /\ Actors \cap Tasks = {}
  /\ LlmOn \subseteq BOOLEAN
  /\ {RetryAfter, MaxTime, MaxRequests, MaxEdits, MaxFaults} \subseteq Nat

VARIABLES
  now,         \* the clock
  llm,         \* this deployment has an LLM provider
  profile,     \* birth_profiles: the user's profile
  transits,    \* daily_transits: the profiles with a transit
  synergy,     \* ai_synergy_daily: synergy[p], the status of the narrative
  plan,        \* career_vibe_daily: plan[p]
  briefing,    \* morning_briefing_daily: briefing[p], the profiles of its transit
  req,         \* req[a]: what actor a serves
  task,        \* task[t]: an enhancement in the background
  requests, edits, faults,
  left         \* history: the profiles the user has moved away from

world == <<now, llm, profile, requests, edits, faults, left>>
vars == <<world, transits, synergy, plan, briefing, req, task>>

Outcomes == {"ready", "failed", "unavailable"}
NoPlan(p) == [status |-> "none", of |-> p, at |-> 0]
Plan == [status : Outcomes \cup {"none", "pending"}, of : Profiles, at : 0..MaxTime]

\* What an LLM request comes to, after the retries and the backup provider: the
\* narrative, or the failure classifyLlmGenerationError makes of it.
LlmOutcomes == IF llm THEN {"ready", "failed"} ELSE {"unavailable"}

\* "doc": the request's own document is read next; "own": the profile is read
\* again for the transit; "transit", "synergy": that document is looked up;
\* "store", "keep": it is made; "persist": the request's own document is made;
\* "launch": a pending plan is stored and its task not yet started.
Stages == {"idle", "doc", "own", "transit", "store", "synergy", "keep", "persist", "launch"}
Kinds == {"none", "transit", "plan", "briefing"}

\* hash: the profile the request's document is filed under; of: the one its transit
\* belongs to; wait: ?refresh=true of a plan or a briefing, ?includeAiSynergy=true
\* of a transit; at: the time a plan's request took; found: the plan, or the
\* synergy, the request found.
Request == [kind : Kinds, stage : Stages, hash : Profiles \cup {NoProfile},
            of : Profiles \cup {NoProfile}, wait : BOOLEAN, at : 0..MaxTime,
            found : Outcomes \cup {"none", "pending"}]
NoRequest == [kind |-> "none", stage |-> "idle", hash |-> NoProfile, of |-> NoProfile,
              wait |-> FALSE, at |-> 0, found |-> "none"]
Task == [stage : {"idle", "ask", "caught"}, hash : Profiles \cup {NoProfile},
         of : Profiles \cup {NoProfile}]
NoTask == [stage |-> "idle", hash |-> NoProfile, of |-> NoProfile]

Init ==
  /\ now = 0
  /\ llm \in LlmOn
  /\ profile \in Profiles
  /\ transits = {}
  /\ synergy = [p \in Profiles |-> "none"]
  /\ plan = [p \in Profiles |-> NoPlan(p)]
  /\ briefing = [p \in Profiles |-> {}]
  /\ req = [a \in Actors |-> NoRequest]
  /\ task = [t \in Tasks |-> NoTask]
  /\ requests = 0
  /\ edits = 0
  /\ faults = 0
  /\ left = {}

At(a, stage) == req[a].stage = stage
Is(a, kind) == req[a].kind = kind
Ends(request) == IF request.stage = "idle" THEN NoRequest ELSE request
Goes(a, stage) == req' = [req EXCEPT ![a] = Ends([@ EXCEPT !.stage = stage])]

-----------------------------------------------------------------------------
(* The transit of the day, and what a request is answered with.            *)

\* A request reads the user's profile and takes the time.  The transit route goes
\* on with that profile, and so does the scheduler's run with the profiles it
\* read; a refresh does not look for its own document.
Begin(a, kind, wait) ==
  /\ At(a, "idle")
  /\ requests < MaxRequests
  /\ requests' = requests + 1
  /\ a = Worker => kind = "transit" /\ wait
  /\ req' = [req EXCEPT ![a] =
       [kind |-> kind, hash |-> profile, of |-> profile, wait |-> wait,
        at |-> IF kind = "plan" THEN now ELSE 0,
        found |-> "none",
        stage |-> CASE kind = "transit" -> "transit"
                    [] kind # "transit" /\ wait -> "own"
                    [] OTHER -> "doc"]]
  /\ UNCHANGED <<now, llm, profile, edits, faults, left, transits, synergy, plan, briefing, task>>

\* What follows the transit.  A plan and a briefing take the synergy that is
\* stored, if any; a transit that must come with one waits for it.
Onward(a) == IF ~Is(a, "transit") THEN "persist" ELSE IF req[a].wait THEN "synergy" ELSE "idle"

\* getOrCreateDailyTransitForUser on behalf of a plan or a briefing.
ReadOwn(a) ==
  /\ At(a, "own")
  /\ req' = [req EXCEPT ![a].of = profile, ![a].stage = "transit"]
  /\ UNCHANGED <<world, transits, synergy, plan, briefing, task>>

\* Mutant: the transit is found by its day alone.
FindAnyTransit(a) ==
  /\ At(a, "transit")
  /\ \E p \in transits \cup {req[a].of} :
       /\ p \in transits \/ transits = {}
       /\ req' = [req EXCEPT ![a] = Ends([@ EXCEPT !.of = p, !.stage = IF p \in transits THEN Onward(a) ELSE "store"])]
  /\ UNCHANGED <<world, transits, synergy, plan, briefing, task>>

FindTransit(a) ==
  /\ At(a, "transit")
  /\ Goes(a, IF req[a].of \in transits THEN Onward(a) ELSE "store")
  /\ UNCHANGED <<world, transits, synergy, plan, briefing, task>>

\* The place, the time zone and the chart come from the astrology provider.
StoreTransit(a) ==
  /\ At(a, "store")
  /\ transits' = transits \cup {req[a].of}
  /\ Goes(a, Onward(a))
  /\ UNCHANGED <<world, synergy, plan, briefing, task>>

\* shouldReuseCachedAiSynergy: what is stored is never pending, so that a failed
\* narrative is the one of the day.
FindSynergy(a) ==
  /\ At(a, "synergy")
  /\ LET found == synergy[req[a].of]
     IN req' = [req EXCEPT ![a] = Ends([@ EXCEPT !.found = found,
                                                 !.stage = IF found = "none" THEN "keep" ELSE "idle"])]
  /\ UNCHANGED <<world, transits, synergy, plan, briefing, task>>

KeepSynergy(a) ==
  /\ At(a, "keep")
  /\ \E outcome \in LlmOutcomes : synergy' = [synergy EXCEPT ![req[a].of] = outcome]
  /\ Goes(a, "idle")
  /\ UNCHANGED <<world, transits, plan, briefing, task>>

-----------------------------------------------------------------------------
(* The plan and the briefing.                                              *)

\* shouldReuseCachedCareerVibePlan for a request that is not a refresh.
Reusable(a, doc) ==
  \/ doc.status \in Outcomes
  \/ doc.status = "pending" /\ llm /\ (req[a].at - doc.at) \in 0..(RetryAfter - 1)

FindDocument(a) ==
  /\ At(a, "doc")
  /\ LET p == req[a].hash
         isThere == IF Is(a, "plan") THEN Reusable(a, plan[p]) ELSE briefing[p] # {}
     IN req' = [req EXCEPT ![a] = Ends([@ EXCEPT !.found = plan[p].status,
                                                 !.stage = IF isThere THEN "idle" ELSE "own"])]
  /\ UNCHANGED <<world, transits, synergy, plan, briefing, task>>

\* Mutant: the task is started for a plan nobody has asked for today.
PersistPlanOnce(a) ==
  /\ At(a, "persist") /\ Is(a, "plan")
  /\ \E status \in IF llm /\ ~req[a].wait THEN {"pending"} ELSE LlmOutcomes :
       /\ plan' = [plan EXCEPT ![req[a].hash] = [status |-> status, of |-> req[a].of, at |-> req[a].at]]
       /\ Goes(a, IF status = "pending" /\ plan[req[a].hash].status = "none" THEN "launch" ELSE "idle")
  /\ UNCHANGED <<world, transits, synergy, briefing, task>>

\* A refresh waits for the LLM; any other request stores what is pending, with the
\* time it took when it began.
PersistPlan(a) ==
  /\ At(a, "persist") /\ Is(a, "plan")
  /\ \E status \in IF llm /\ ~req[a].wait THEN {"pending"} ELSE LlmOutcomes :
       /\ plan' = [plan EXCEPT ![req[a].hash] = [status |-> status, of |-> req[a].of, at |-> req[a].at]]
       /\ Goes(a, IF status = "pending" THEN "launch" ELSE "idle")
  /\ UNCHANGED <<world, transits, synergy, briefing, task>>

\* enhanceCareerVibePlanInBackground: the task starts when the write is answered.
Launch(a, t) ==
  /\ At(a, "launch")
  /\ task[t].stage = "idle"
  /\ task' = [task EXCEPT ![t] = [stage |-> "ask", hash |-> req[a].hash, of |-> req[a].of]]
  /\ Goes(a, "idle")
  /\ UNCHANGED <<world, transits, synergy, plan, briefing>>

\* Mutant: a failure is noted whatever the plan has become.
FinishAnyway(t, outcome) ==
  plan' = [plan EXCEPT ![task[t].hash] = [status |-> outcome, of |-> task[t].of, at |-> now]]

\* Mutant: a failure is logged and the plan stays as it is.
FinishIfReady(t, outcome) ==
  LET p == task[t].hash
  IN plan' = IF outcome = "ready" /\ plan[p].status # "ready"
             THEN [plan EXCEPT ![p] = [status |-> outcome, of |-> task[t].of, at |-> now]] ELSE plan

\* The plan of a task is kept unless another one is ready, its failure only while
\* the plan is pending.
Finish(t, outcome) ==
  LET p == task[t].hash
      open == plan[p].status = "pending" \/ (plan[p].status # "ready" /\ outcome = "ready")
      of == IF outcome = "ready" THEN task[t].of ELSE plan[p].of
  IN plan' = IF open THEN [plan EXCEPT ![p] = [status |-> outcome, of |-> of, at |-> now]] ELSE plan

EndTask(t) == task' = [task EXCEPT ![t] = NoTask]

\* The LLM answers, or the task catches what became of it.
Enhance(t) ==
  /\ task[t].stage = "ask"
  /\ \E outcome \in LlmOutcomes : Finish(t, outcome)
  /\ EndTask(t)
  /\ UNCHANGED <<world, transits, synergy, briefing, req>>

\* The narrative could not be stored, and the catch notes that as a failure.
Catch(t) ==
  /\ task[t].stage = "caught"
  /\ Finish(t, "failed")
  /\ EndTask(t)
  /\ UNCHANGED <<world, transits, synergy, briefing, req>>

PersistBriefing(a) ==
  /\ At(a, "persist") /\ Is(a, "briefing")
  /\ briefing' = [briefing EXCEPT ![req[a].hash] = {req[a].of}]
  /\ Goes(a, "idle")
  /\ UNCHANGED <<world, transits, synergy, plan, task>>

-----------------------------------------------------------------------------
(* The user, the clock and what fails.                                     *)

ChangeProfile ==
  /\ edits < MaxEdits
  /\ edits' = edits + 1
  /\ profile' \in Profiles \ {profile}
  /\ left' = left \cup {profile}
  /\ UNCHANGED <<now, llm, requests, faults, transits, synergy, plan, briefing, req, task>>

Tick ==
  /\ now < MaxTime
  /\ now' = now + 1
  /\ UNCHANGED <<llm, profile, requests, edits, faults, left, transits, synergy, plan, briefing, req, task>>

\* A command or a provider fails a request, which is answered with an error or, for
\* the synergy, without it; or a process dies with the requests and the tasks it
\* ran: a task whose catch fails takes it down, for nothing handles the rejection.
Stop(these) ==
  /\ faults < MaxFaults
  /\ faults' = faults + 1
  /\ req' = [a \in Actors |-> IF a \in these THEN NoRequest ELSE req[a]]
  /\ task' = [t \in Tasks |-> IF t \in these THEN NoTask ELSE task[t]]
  /\ UNCHANGED <<now, llm, profile, requests, edits, left, transits, synergy, plan, briefing>>

\* The store refuses the narrative of a task.
StoreFails(t) ==
  /\ faults < MaxFaults
  /\ faults' = faults + 1
  /\ task[t].stage = "ask"
  /\ task' = [task EXCEPT ![t].stage = "caught"]
  /\ UNCHANGED <<now, llm, profile, requests, edits, left, transits, synergy, plan, briefing, req>>

\* GET /ai-synergy/history lists what is stored and changes nothing.
ListHistory == UNCHANGED vars

Steps(a) ==
  \/ ReadOwn(a) \/ FindTransit(a) \/ StoreTransit(a) \/ FindSynergy(a) \/ KeepSynergy(a)
  \/ FindDocument(a) \/ PersistPlan(a) \/ PersistBriefing(a)
  \/ \E t \in Tasks : Launch(a, t)

Next ==
  \/ \E a \in Actors, kind \in Kinds \ {"none"}, wait \in BOOLEAN : Begin(a, kind, wait)
  \/ \E a \in Actors : Steps(a)
  \/ \E t \in Tasks : Enhance(t) \/ Catch(t) \/ StoreFails(t)
  \/ \E these \in (SUBSET (Actors \cup Tasks)) \ {{}} : Stop(these)
  \/ ChangeProfile
  \/ Tick
  \/ ListHistory

Spec == Init /\ [][Next]_vars

\* Every call of a task ends: an LLM request has a timeout and so has a command.
FairSpec ==
  /\ Spec
  /\ \A t \in Tasks : WF_vars(Enhance(t) \/ Catch(t))
  /\ \A a \in Actors : SF_vars(\E t \in Tasks : Launch(a, t))

-----------------------------------------------------------------------------
TypeOK ==
  /\ now \in 0..MaxTime
  /\ llm \in BOOLEAN
  /\ profile \in Profiles
  /\ transits \subseteq Profiles
  /\ synergy \in [Profiles -> Outcomes \cup {"none"}]
  /\ plan \in [Profiles -> Plan]
  /\ briefing \in [Profiles -> SUBSET Profiles]
  /\ req \in [Actors -> Request]
  /\ task \in [Tasks -> Task]
  /\ requests \in 0..MaxRequests
  /\ edits \in 0..MaxEdits
  /\ faults \in 0..MaxFaults
  /\ left \subseteq Profiles

\* The plan and the briefing of a profile speak of that profile, unless the user
\* has moved away from it: the profile is read twice while they are made, and a
\* document made across an edit is filed under the profile that was left.  It is
\* served again when the user returns to that profile on the same day.
OwnUntilLeft ==
  \A p \in Profiles \ left : plan[p].of = p /\ briefing[p] \subseteq {p}

\* A ready narrative is lost only to the user who refreshes the plan, and to a
\* request that looked before it was ready: neither the failure of a task nor any
\* request that found it replaces it.
ReadyIsKept ==
  [][\A p \in Profiles :
       /\ plan[p].status = "ready" /\ plan'[p].status # "ready" =>
            \E a \in Actors : /\ At(a, "persist") /\ ~At(a, "persist")' /\ req[a].hash = p
                              /\ req[a].wait \/ req[a].found # "ready"
       /\ synergy[p] = "ready" /\ synergy'[p] # "ready" =>
            \E a \in Actors : At(a, "keep") /\ ~At(a, "keep")' /\ req[a].of = p /\ req[a].found # "ready"]_vars

\* While nothing has failed, somebody works on every plan that is shown as pending:
\* its task, a task of an older generation of the same plan, or the request that
\* is about to start it.
PendingIsServed ==
  \A p \in Profiles : plan[p].status = "pending" =>
    \/ faults > 0
    \/ \E t \in Tasks : task[t].stage # "idle" /\ task[t].hash = p
    \/ \E a \in Actors : At(a, "launch") /\ req[a].hash = p

\* A plan that is pending does not stay so, unless something has failed.
PendingResolves ==
  \A p \in Profiles : plan[p].status = "pending" /\ faults = 0 ~> plan[p].status # "pending" \/ faults > 0
=============================================================================
