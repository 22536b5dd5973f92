--------------------------- MODULE NarrativesProofs ---------------------------
(***************************************************************************)
(* What holds of Narratives for every number of profiles, requests, tasks  *)
(* and faults: a document speaks of its profile until that one is left, a  *)
(* pending plan is worked on, and a ready narrative is kept.               *)
(***************************************************************************)
EXTENDS Narratives, TLAPS

(***************************************************************************)
(* The inductive invariant.  What is at work names profiles, and unless    *)
(* the user has left the profile it files its document under, that is the  *)
(* profile it works from: an edit between the two reads of the profile     *)
(* leaves the first one.  A request of a plan that does not wait, and one  *)
(* that makes a synergy, has found none that is ready.                     *)
(***************************************************************************)
Named == \A a \in Actors : ~At(a, "idle") => req[a].hash \in Profiles /\ req[a].of \in Profiles
Started == \A t \in Tasks : task[t].stage # "idle" => task[t].hash \in Profiles /\ task[t].of \in Profiles

OwnRequests == \A a \in Actors : ~At(a, "idle") /\ req[a].hash \notin left =>
  req[a].hash = profile /\ req[a].of = req[a].hash
OwnTasks == \A t \in Tasks : task[t].stage # "idle" /\ task[t].hash \notin left =>
  task[t].of = task[t].hash

Looked(request) ==
  /\ request.kind = "plan" /\ ~request.wait /\ request.stage \notin {"idle", "doc"} => request.found # "ready"
  /\ request.stage = "keep" => request.found # "ready"
AllLooked == \A a \in Actors : Looked(req[a])


-----------------------------------------------------------------------------
(* Types.                                                                  *)

LEMMA NoneHold == 0 \in 0..MaxTime /\ NoRequest \in Request /\ NoTask \in Task
<1>1. 0 \in 0..MaxTime
  BY NarrativesAssumption
<1> QED
  BY <1>1 DEF NoRequest, Request, NoTask, Task, Stages, Kinds

\* What a step does to a request keeps its type.
LEMMA RequestEdits ==
  ASSUME NEW r \in Request, NEW stage \in Stages
  PROVE  /\ Ends(r) \in Request
         /\ [r EXCEPT !.stage = stage] \in Request
         /\ \A p \in Profiles : [r EXCEPT !.of = p, !.stage = stage] \in Request
         /\ \A f \in Outcomes \cup {"none", "pending"} : [r EXCEPT !.found = f, !.stage = stage] \in Request
BY NoneHold DEF Ends, Request

\* A request that goes on to a stage, or ends there.
LEMMA GoesType ==
  ASSUME TypeOK, NEW a \in Actors, NEW stage \in Stages, Goes(a, stage)
  PROVE  req' \in [Actors -> Request]
<1>1. req \in [Actors -> Request] /\ req[a] \in Request
  BY DEF TypeOK
<1>2. Ends([req[a] EXCEPT !.stage = stage]) \in Request
  BY <1>1, RequestEdits
<1> QED
  BY <1>1, <1>2 DEF Goes

LEMMA OnwardType == \A a \in Actors : Onward(a) \in Stages
BY DEF Onward, Stages

LEMMA TypeInit == Init => TypeOK
<1> SUFFICES ASSUME Init PROVE TypeOK
  OBVIOUS
<1>1. \A p \in Profiles : NoPlan(p) \in Plan
  BY NoneHold DEF NoPlan, Plan
<1>2. 0 \in 0..MaxRequests /\ 0 \in 0..MaxEdits /\ 0 \in 0..MaxFaults
  BY NarrativesAssumption
<1> QED
  BY <1>1, <1>2, NoneHold, NarrativesAssumption DEF Init, TypeOK

\* A task that ends leaves a plan of the type.
LEMMA FinishType ==
  ASSUME TypeOK, Started, NEW t \in Tasks, task[t].stage # "idle", NEW outcome \in Outcomes,
         Finish(t, outcome)
  PROVE  plan' \in [Profiles -> Plan]
<1> DEFINE p == task[t].hash
           of == IF outcome = "ready" THEN task[t].of ELSE plan[p].of
<1>1. p \in Profiles /\ task[t].of \in Profiles /\ plan[p] \in Plan /\ now \in 0..MaxTime
  BY DEF Started, TypeOK
<1>2. of \in Profiles
  BY <1>1 DEF Plan
<1>3. [status |-> outcome, of |-> of, at |-> now] \in Plan
  BY <1>1, <1>2 DEF Plan
<1>4. plan' = plan \/ plan' = [plan EXCEPT ![p] = [status |-> outcome, of |-> of, at |-> now]]
  BY DEF Finish
<1> QED
  BY <1>1, <1>3, <1>4 DEF TypeOK

LEMMA OutcomesHold == LlmOutcomes \subseteq Outcomes
BY DEF LlmOutcomes, Outcomes

\* A task that ends leaves the types.
LEMMA TaskType ==
  ASSUME TypeOK, Started, NEW t \in Tasks, Enhance(t) \/ Catch(t)
  PROVE  TypeOK'
<1>1. PICK outcome \in Outcomes : task[t].stage # "idle" /\ Finish(t, outcome)
  BY OutcomesHold DEF Enhance, Catch, Outcomes
<1>2. plan' \in [Profiles -> Plan]
  BY <1>1, FinishType
<1>3. task' \in [Tasks -> Task]
  BY NoneHold DEF Enhance, Catch, EndTask, TypeOK
<1> QED
  BY <1>2, <1>3 DEF Enhance, Catch, TypeOK, world

\* Every step keeps the types, once a request that works has a profile.
LEMMA TypeStep == TypeOK /\ Named /\ Started /\ [Next]_vars => TypeOK'
<1> SUFFICES ASSUME TypeOK, Named, Started, [Next]_vars PROVE TypeOK'
  OBVIOUS
<1> USE NarrativesAssumption
<1>0. \A a \in Actors : req[a] \in Request
  BY DEF TypeOK
<1>1. ASSUME NEW a \in Actors, NEW kind \in Kinds \ {"none"}, NEW wait \in BOOLEAN, Begin(a, kind, wait)
      PROVE  TypeOK'
  <2>1. req'[a] \in Request
    BY <1>1, NoneHold DEF Begin, TypeOK, Request, Stages, Kinds, Outcomes
  <2>2. req' \in [Actors -> Request]
    BY <1>1, <2>1 DEF Begin, TypeOK
  <2> QED
    BY <1>1, <2>2 DEF Begin, TypeOK
<1>2. ASSUME NEW a \in Actors, ReadOwn(a) PROVE TypeOK'
  <2>1. [req[a] EXCEPT !.of = profile, !.stage = "transit"] \in Request
    BY <1>0, RequestEdits DEF TypeOK, Stages
  <2> QED
    BY <1>2, <2>1 DEF ReadOwn, TypeOK, world
<1>3. ASSUME NEW a \in Actors, FindTransit(a) PROVE TypeOK'
  <2>1. req' \in [Actors -> Request]
    BY <1>3, GoesType, OnwardType DEF FindTransit, Stages
  <2> QED
    BY <1>3, <2>1 DEF FindTransit, TypeOK, world
<1>4. ASSUME NEW a \in Actors, StoreTransit(a) PROVE TypeOK'
  <2>1. req' \in [Actors -> Request]
    BY <1>4, GoesType, OnwardType DEF StoreTransit
  <2>2. req[a].of \in Profiles
    BY <1>4 DEF StoreTransit, Named, At
  <2> QED
    BY <1>4, <2>1, <2>2 DEF StoreTransit, TypeOK, world
<1>5. ASSUME NEW a \in Actors, FindSynergy(a) PROVE TypeOK'
  <2>1. req[a].of \in Profiles
    BY <1>5 DEF FindSynergy, Named, At
  <2>2. synergy[req[a].of] \in Outcomes \cup {"none"}
    BY <2>1 DEF TypeOK
  <2>3. PICK stage \in Stages : req' = [req EXCEPT ![a] = Ends([req[a] EXCEPT !.found = synergy[req[a].of], !.stage = stage])]
    BY <1>5 DEF FindSynergy, Stages
  <2>4. Ends([req[a] EXCEPT !.found = synergy[req[a].of], !.stage = stage]) \in Request
    BY <1>0, <2>2, RequestEdits
  <2> QED
    BY <1>5, <2>3, <2>4 DEF FindSynergy, TypeOK, world
<1>6. ASSUME NEW a \in Actors, KeepSynergy(a) PROVE TypeOK'
  <2>1. req' \in [Actors -> Request]
    BY <1>6, GoesType DEF KeepSynergy, Stages
  <2>2. synergy' \in [Profiles -> Outcomes \cup {"none"}]
    BY <1>6, OutcomesHold DEF KeepSynergy, TypeOK
  <2> QED
    BY <1>6, <2>1, <2>2 DEF KeepSynergy, TypeOK, world
<1>7. ASSUME NEW a \in Actors, FindDocument(a) PROVE TypeOK'
  <2>1. plan[req[a].hash].status \in Outcomes \cup {"none", "pending"}
    BY <1>7 DEF FindDocument, Named, At, TypeOK, Plan
  <2>3. PICK stage \in Stages : req' = [req EXCEPT ![a] = Ends([req[a] EXCEPT !.found = plan[req[a].hash].status, !.stage = stage])]
    BY <1>7 DEF FindDocument, Stages
  <2>4. Ends([req[a] EXCEPT !.found = plan[req[a].hash].status, !.stage = stage]) \in Request
    BY <1>0, <2>1, RequestEdits
  <2> QED
    BY <1>7, <2>3, <2>4 DEF FindDocument, TypeOK, world
<1>8. ASSUME NEW a \in Actors, PersistPlan(a) PROVE TypeOK'
  <2>1. PICK status \in Outcomes \cup {"pending"} :
          /\ plan' = [plan EXCEPT ![req[a].hash] = [status |-> status, of |-> req[a].of, at |-> req[a].at]]
          /\ Goes(a, IF status = "pending" THEN "launch" ELSE "idle")
    BY <1>8, OutcomesHold DEF PersistPlan
  <2>2. req' \in [Actors -> Request]
    BY <2>1, GoesType DEF Stages
  <2>3. req[a].of \in Profiles /\ req[a].at \in 0..MaxTime
    BY <1>0, <1>8 DEF PersistPlan, Named, At, Request
  <2>4. [status |-> status, of |-> req[a].of, at |-> req[a].at] \in Plan
    BY <2>3 DEF Plan
  <2>5. plan' \in [Profiles -> Plan]
    BY <2>1, <2>4 DEF TypeOK
  <2> QED
    BY <1>8, <2>2, <2>5 DEF PersistPlan, TypeOK, world
<1>9. ASSUME NEW a \in Actors, PersistBriefing(a) PROVE TypeOK'
  <2>1. req' \in [Actors -> Request]
    BY <1>9, GoesType DEF PersistBriefing, Stages
  <2>2. req[a].of \in Profiles
    BY <1>9 DEF PersistBriefing, Named, At
  <2> QED
    BY <1>9, <2>1, <2>2 DEF PersistBriefing, TypeOK, world
<1>10. ASSUME NEW a \in Actors, NEW t \in Tasks, Launch(a, t) PROVE TypeOK'
  <2>1. req' \in [Actors -> Request]
    BY <1>10, GoesType DEF Launch, Stages
  <2>2. [stage |-> "ask", hash |-> req[a].hash, of |-> req[a].of] \in Task
    BY <1>0 DEF Task, Request
  <2> QED
    BY <1>10, <2>1, <2>2 DEF Launch, TypeOK, world
<1>11. ASSUME NEW t \in Tasks, Enhance(t) \/ Catch(t) PROVE TypeOK'
  BY <1>11, TaskType
<1>12. ASSUME NEW t \in Tasks, StoreFails(t) PROVE TypeOK'
  <2>1. [task[t] EXCEPT !.stage = "caught"] \in Task
    BY DEF TypeOK, Task
  <2> QED
    BY <1>12, <2>1 DEF StoreFails, TypeOK
<1>13. ASSUME NEW these \in SUBSET (Actors \cup Tasks), Stop(these) PROVE TypeOK'
  BY <1>13, NoneHold DEF Stop, TypeOK
<1>14. CASE ChangeProfile
  BY <1>14 DEF ChangeProfile, TypeOK
<1>15. CASE Tick
  BY <1>15 DEF Tick, TypeOK
<1>16. CASE ListHistory \/ UNCHANGED vars
  BY <1>16 DEF ListHistory, vars, world, TypeOK
<1> QED
  BY <1>1, <1>2, <1>3, <1>4, <1>5, <1>6, <1>7, <1>8, <1>9, <1>10, <1>11, <1>12, <1>13, <1>14, <1>15, <1>16
  DEF Next, Steps

-----------------------------------------------------------------------------
(* What requests and tasks know.                                           *)

Workers == Named /\ Started /\ OwnRequests /\ OwnTasks /\ AllLooked

LEMMA NoneAtWork == NoRequest.stage = "idle" /\ NoRequest.kind = "none" /\ NoTask.stage = "idle"
BY DEF NoRequest, NoTask

\* A request at work that goes on, to other stages than the making of a synergy, or ends.
LEMMA GoesWorks ==
  ASSUME TypeOK, Workers, NEW a \in Actors, NEW stage \in Stages \ {"keep"},
         req[a].stage \notin {"idle", "doc"}, Goes(a, stage), UNCHANGED <<task, profile, left>>
  PROVE  Workers'
<1>1. req \in [Actors -> Request] /\ req[a] \in Request
  BY DEF TypeOK
<1>2. /\ \A b \in Actors : b # a => req'[b] = req[b]
      /\ req'[a] = NoRequest \/ req'[a] = [req[a] EXCEPT !.stage = stage]
  BY <1>1 DEF Goes, Ends
<1>3. Named' /\ Started'
  BY <1>1, <1>2, NoneAtWork DEF Workers, Named, Started, At, Request
<1>4. OwnRequests' /\ OwnTasks'
  BY <1>1, <1>2, NoneAtWork DEF Workers, OwnRequests, OwnTasks, At, Request
<1>5. AllLooked'
  BY <1>1, <1>2, NoneAtWork DEF Workers, AllLooked, Looked, Request
<1> QED
  BY <1>3, <1>4, <1>5 DEF Workers

\* A request that ends.
LEMMA EndsWorks ==
  ASSUME TypeOK, Workers, NEW a \in Actors, req' = [req EXCEPT ![a] = NoRequest],
         UNCHANGED <<task, profile, left>>
  PROVE  Workers'
<1>1. \A b \in Actors : req'[b] = req[b] \/ req'[b] = NoRequest
  BY DEF TypeOK
<1>2. Named' /\ Started'
  BY <1>1, NoneAtWork DEF Workers, Named, Started, At
<1>3. OwnRequests' /\ OwnTasks'
  BY <1>1, NoneAtWork DEF Workers, OwnRequests, OwnTasks, At
<1>4. AllLooked'
  BY <1>1, NoneAtWork DEF Workers, AllLooked, Looked
<1> QED
  BY <1>2, <1>3, <1>4 DEF Workers

\* A request that has found no synergy, and one that has found no plan it can use.
LEMMA KeepsLooking ==
  ASSUME TypeOK, Workers, NEW a \in Actors, At(a, "synergy"), UNCHANGED <<task, profile, left>>,
         req' = [req EXCEPT ![a] = [req[a] EXCEPT !.found = "none", !.stage = "keep"]]
  PROVE  Workers'
<1>1. req \in [Actors -> Request] /\ req[a] \in Request
  BY DEF TypeOK
<1>2. /\ \A b \in Actors : b # a => req'[b] = req[b]
      /\ req'[a] = [req[a] EXCEPT !.found = "none", !.stage = "keep"]
  BY <1>1
<1>3. /\ req'[a].hash = req[a].hash /\ req'[a].of = req[a].of
      /\ req'[a].found = "none" /\ req'[a].stage = "keep"
  BY <1>1, <1>2 DEF Request
<1>4. Named' /\ Started'
  BY <1>2, <1>3 DEF Workers, Named, Started, At
<1>5. OwnRequests' /\ OwnTasks'
  BY <1>2, <1>3 DEF Workers, OwnRequests, OwnTasks, At
<1>6. AllLooked'
  BY <1>2, <1>3 DEF Workers, AllLooked, Looked
<1> QED
  BY <1>4, <1>5, <1>6 DEF Workers

LEMMA GoesOnToOwn ==
  ASSUME TypeOK, Workers, NEW a \in Actors, At(a, "doc"), UNCHANGED <<task, profile, left>>,
         req' = [req EXCEPT ![a] = [req[a] EXCEPT !.found = plan[req[a].hash].status, !.stage = "own"]],
         Is(a, "plan") => plan[req[a].hash].status # "ready"
  PROVE  Workers'
<1>1. req \in [Actors -> Request] /\ req[a] \in Request
  BY DEF TypeOK
<1>2. /\ \A b \in Actors : b # a => req'[b] = req[b]
      /\ req'[a] = [req[a] EXCEPT !.found = plan[req[a].hash].status, !.stage = "own"]
  BY <1>1
<1>3. /\ req'[a].hash = req[a].hash /\ req'[a].of = req[a].of /\ req'[a].kind = req[a].kind
      /\ req'[a].found = plan[req[a].hash].status /\ req'[a].stage = "own"
  BY <1>1, <1>2 DEF Request
<1>4. Named' /\ Started'
  BY <1>2, <1>3 DEF Workers, Named, Started, At
<1>5. OwnRequests' /\ OwnTasks'
  BY <1>2, <1>3 DEF Workers, OwnRequests, OwnTasks, At
<1>6. AllLooked'
  BY <1>2, <1>3 DEF Workers, AllLooked, Looked, Is
<1> QED
  BY <1>4, <1>5, <1>6 DEF Workers

LEMMA WorkersStep == TypeOK /\ Workers /\ [Next]_vars => Workers'
<1> SUFFICES ASSUME TypeOK, Workers, [Next]_vars PROVE Workers'
  OBVIOUS
<1>0. /\ profile \in Profiles /\ left \subseteq Profiles
      /\ req \in [Actors -> Request] /\ \A a \in Actors : req[a] \in Request
      /\ task \in [Tasks -> Task] /\ \A t \in Tasks : task[t] \in Task
  BY DEF TypeOK
<1> USE DEF Named, Started, OwnRequests, OwnTasks, AllLooked, Looked, At
<1>1. ASSUME NEW a \in Actors, NEW kind \in Kinds \ {"none"}, NEW wait \in BOOLEAN, Begin(a, kind, wait)
      PROVE  Workers'
  BY <1>0, <1>1 DEF Begin, Workers
<1>2. ASSUME NEW a \in Actors, ReadOwn(a) PROVE Workers'
  BY <1>0, <1>2 DEF ReadOwn, Workers, world, Request
<1>3. ASSUME NEW a \in Actors, FindTransit(a) \/ StoreTransit(a) PROVE Workers'
  <2>1. PICK stage \in Stages \ {"keep"} : Goes(a, stage)
    BY <1>3 DEF FindTransit, StoreTransit, Onward, Stages
  <2> QED
    BY <1>3, <2>1, GoesWorks DEF FindTransit, StoreTransit, world
<1>4. ASSUME NEW a \in Actors, KeepSynergy(a) \/ PersistPlan(a) \/ PersistBriefing(a) PROVE Workers'
  <2>1. PICK stage \in Stages \ {"keep"} : Goes(a, stage)
    BY <1>4 DEF KeepSynergy, PersistPlan, PersistBriefing, Stages
  <2> QED
    BY <1>4, <2>1, GoesWorks DEF KeepSynergy, PersistPlan, PersistBriefing, world
<1>5. ASSUME NEW a \in Actors, FindSynergy(a) PROVE Workers'
  <2>1. \/ req' = [req EXCEPT ![a] = NoRequest]
        \/ req' = [req EXCEPT ![a] = [req[a] EXCEPT !.found = "none", !.stage = "keep"]]
    BY <1>0, <1>5 DEF FindSynergy, Ends, Request
  <2>2. task' = task /\ profile' = profile /\ left' = left /\ At(a, "synergy")
    BY <1>5 DEF FindSynergy, world
  <2> QED
    BY <1>0, <2>1, <2>2, EndsWorks, KeepsLooking
<1>6. ASSUME NEW a \in Actors, FindDocument(a) PROVE Workers'
  <2>1. \/ req' = [req EXCEPT ![a] = NoRequest]
        \/ /\ req' = [req EXCEPT ![a] = [req[a] EXCEPT !.found = plan[req[a].hash].status, !.stage = "own"]]
           /\ Is(a, "plan") => plan[req[a].hash].status # "ready"
    BY <1>0, <1>6 DEF FindDocument, Ends, Request, Reusable, Outcomes
  <2>2. task' = task /\ profile' = profile /\ left' = left /\ At(a, "doc")
    BY <1>6 DEF FindDocument, world
  <2> QED
    BY <1>0, <2>1, <2>2, EndsWorks, GoesOnToOwn
<1>7. ASSUME NEW a \in Actors, NEW t \in Tasks, Launch(a, t) PROVE Workers'
  <2>1. /\ \A b \in Actors : b # a => req'[b] = req[b]
        /\ req'[a].stage = "idle"
    BY <1>0, <1>7 DEF Launch, Goes, Ends, NoRequest, Request
  <2>2. task' = [task EXCEPT ![t] = [stage |-> "ask", hash |-> req[a].hash, of |-> req[a].of]]
    BY <1>7 DEF Launch
  <2> QED
    BY <1>0, <1>7, <2>1, <2>2 DEF Launch, Workers, world
<1>8. ASSUME NEW t \in Tasks, Enhance(t) \/ Catch(t) PROVE Workers'
  BY <1>0, <1>8, NoneAtWork DEF Enhance, Catch, EndTask, Workers, world
<1>9. ASSUME NEW t \in Tasks, StoreFails(t) PROVE Workers'
  BY <1>0, <1>9 DEF StoreFails, Workers, Task
<1>10. ASSUME NEW these \in SUBSET (Actors \cup Tasks), Stop(these) PROVE Workers'
  BY <1>0, <1>10, NoneAtWork DEF Stop, Workers
<1>11. CASE ChangeProfile
  BY <1>0, <1>11 DEF ChangeProfile, Workers
<1>12. CASE Tick \/ ListHistory \/ UNCHANGED vars
  BY <1>12 DEF Tick, ListHistory, vars, world, Workers
<1> QED
  BY <1>1, <1>2, <1>3, <1>4, <1>5, <1>6, <1>7, <1>8, <1>9, <1>10, <1>11, <1>12 DEF Next, Steps

-----------------------------------------------------------------------------
(* What is stored.                                                         *)

\* A plan changes by a request that makes it or by a task that ends.
LEMMA PlanSteps ==
  ASSUME [Next]_vars
  PROVE  \/ plan' = plan /\ briefing' = briefing
         \/ \E a \in Actors : PersistPlan(a) \/ PersistBriefing(a)
         \/ \E t \in Tasks : Enhance(t) \/ Catch(t)
BY DEF Next, Steps, Begin, ReadOwn, FindTransit, StoreTransit, FindSynergy, KeepSynergy, FindDocument,
       Launch, StoreFails, Stop, ChangeProfile, Tick, ListHistory, vars

LEMMA LeftGrows == ASSUME [Next]_vars PROVE left \subseteq left'
BY DEF Next, Steps, Begin, ReadOwn, FindTransit, StoreTransit, FindSynergy, KeepSynergy, FindDocument,
       PersistPlan, PersistBriefing, Launch, Enhance, Catch, StoreFails, Stop, ChangeProfile, Tick,
       ListHistory, vars, world

LEMMA FaultsGrow == ASSUME [Next]_vars PROVE faults' = faults \/ faults' = faults + 1
BY DEF Next, Steps, Begin, ReadOwn, FindTransit, StoreTransit, FindSynergy, KeepSynergy, FindDocument,
       PersistPlan, PersistBriefing, Launch, Enhance, Catch, StoreFails, Stop, ChangeProfile, Tick,
       ListHistory, vars, world

LEMMA OwnStep == TypeOK /\ Workers /\ OwnUntilLeft /\ [Next]_vars => OwnUntilLeft'
<1> SUFFICES ASSUME TypeOK, Workers, OwnUntilLeft, [Next]_vars, NEW p \in Profiles \ left'
             PROVE  plan'[p].of = p /\ briefing'[p] \subseteq {p}
  BY DEF OwnUntilLeft
<1>1. p \notin left /\ plan[p].of = p /\ briefing[p] \subseteq {p}
  BY LeftGrows DEF OwnUntilLeft
<1>2. ASSUME NEW a \in Actors, PersistPlan(a) \/ PersistBriefing(a)
      PROVE  plan'[p].of = p /\ briefing'[p] \subseteq {p}
  <2>1. req[a].hash = p => req[a].of = p
    BY <1>1, <1>2 DEF PersistPlan, PersistBriefing, Workers, OwnRequests, At
  <2>2. CASE PersistPlan(a)
    <3>1. PICK status : plan' = [plan EXCEPT ![req[a].hash] = [status |-> status, of |-> req[a].of, at |-> req[a].at]]
      BY <2>2 DEF PersistPlan
    <3>2. briefing' = briefing
      BY <2>2 DEF PersistPlan
    <3>3. plan'[p].of = p
      BY <1>1, <2>1, <3>1 DEF TypeOK
    <3> QED
      BY <1>1, <3>2, <3>3
  <2>3. CASE PersistBriefing(a)
    <3>1. plan' = plan /\ briefing' = [briefing EXCEPT ![req[a].hash] = {req[a].of}]
      BY <2>3 DEF PersistBriefing
    <3>2. briefing'[p] \subseteq {p}
      BY <1>1, <2>1, <3>1 DEF TypeOK
    <3> QED
      BY <1>1, <3>1, <3>2
  <2> QED
    BY <1>2, <2>2, <2>3
<1>3. ASSUME NEW t \in Tasks, Enhance(t) \/ Catch(t)
      PROVE  plan'[p].of = p /\ briefing'[p] \subseteq {p}
  <2>1. PICK outcome : Finish(t, outcome) /\ task[t].stage # "idle"
    BY <1>3 DEF Enhance, Catch
  <2>2. task[t].hash = p => task[t].of = p
    BY <1>1, <2>1 DEF Workers, OwnTasks
  <2> QED
    BY <1>1, <1>3, <2>1, <2>2 DEF Finish, TypeOK, Enhance, Catch
<1> QED
  BY <1>1, <1>2, <1>3, PlanSteps

\* Who works on a pending plan.
Serves(p) ==
  \/ \E t \in Tasks : task[t].stage # "idle" /\ task[t].hash = p
  \/ \E a \in Actors : At(a, "launch") /\ req[a].hash = p

LEMMA ServedStep == TypeOK /\ Workers /\ PendingIsServed /\ [Next]_vars => PendingIsServed'
<1> SUFFICES ASSUME TypeOK, Workers, PendingIsServed, [Next]_vars PROVE PendingIsServed'
  OBVIOUS
<1>a. faults' \in Nat
  <2>1. TypeOK'
    BY TypeStep DEF Workers
  <2> QED
    BY <2>1, NarrativesAssumption DEF TypeOK
<1> SUFFICES ASSUME NEW p \in Profiles, plan'[p].status = "pending", faults' = 0
             PROVE  Serves(p)'
  BY <1>a DEF PendingIsServed, Serves, At
<1>0. /\ req \in [Actors -> Request] /\ \A a \in Actors : req[a] \in Request
      /\ task \in [Tasks -> Task] /\ plan \in [Profiles -> Plan] /\ faults \in Nat
  BY NarrativesAssumption DEF TypeOK
<1>1. faults = 0
  BY <1>0, FaultsGrow
<1>2. plan[p].status = "pending" => Serves(p)
  BY <1>1 DEF PendingIsServed, Serves
<1> USE DEF Serves, At
<1>3. ASSUME NEW a \in Actors, PersistPlan(a) PROVE Serves(p)'
  <2>1. CASE plan[p].status = "pending" /\ req[a].hash # p
    <3>1. \A b \in Actors : b # a => req'[b] = req[b]
      BY <1>0, <1>3 DEF PersistPlan, Goes
    <3> QED
      BY <1>2, <1>3, <2>1, <3>1 DEF PersistPlan
  <2>2. CASE req[a].hash = p
    <3>1. plan'[p].status = "pending" /\ Goes(a, "launch")
      BY <1>0, <1>3, <2>2 DEF PersistPlan
    <3>2. req'[a] = [req[a] EXCEPT !.stage = "launch"]
      BY <1>0, <3>1 DEF Goes, Ends, Request
    <3> QED
      BY <1>0, <2>2, <3>2 DEF Request
  <2>3. CASE plan[p].status # "pending" /\ req[a].hash # p
    BY <1>0, <1>3, <2>3 DEF PersistPlan
  <2> QED
    BY <2>1, <2>2, <2>3
<1>4. ASSUME NEW t \in Tasks, Enhance(t) \/ Catch(t) PROVE Serves(p)'
  <2>1. PICK outcome \in Outcomes : Finish(t, outcome)
    BY <1>4, OutcomesHold DEF Enhance, Catch, Outcomes
  <2>2. plan[p].status = "pending" /\ task[t].hash # p
    BY <1>0, <2>1 DEF Finish, Outcomes
  <2> QED
    BY <1>0, <1>2, <1>4, <2>2 DEF Enhance, Catch, EndTask
<1>5. ASSUME NEW a \in Actors, NEW t \in Tasks, Launch(a, t) PROVE Serves(p)'
  <2>1. \A b \in Actors : b # a => req'[b] = req[b]
    BY <1>0, <1>5 DEF Launch, Goes
  <2> QED
    BY <1>0, <1>2, <1>5, <2>1 DEF Launch
<1>6. ASSUME NEW a \in Actors, PersistBriefing(a) PROVE Serves(p)'
  <2>1. \A b \in Actors : b # a => req'[b] = req[b]
    BY <1>0, <1>6 DEF PersistBriefing, Goes
  <2> QED
    BY <1>2, <1>6, <2>1 DEF PersistBriefing
<1>7. CASE plan' = plan /\ task' = task /\
           \A b \in Actors : At(b, "launch") => req'[b] = req[b]
  BY <1>2, <1>7
<1>8. ASSUME NEW a \in Actors,
             ReadOwn(a) \/ FindTransit(a) \/ StoreTransit(a) \/ FindSynergy(a) \/ KeepSynergy(a) \/ FindDocument(a)
      PROVE  Serves(p)'
  <2>1. plan' = plan /\ task' = task /\ ~At(a, "launch")
    BY <1>8 DEF ReadOwn, FindTransit, StoreTransit, FindSynergy, KeepSynergy, FindDocument
  <2>2. \A b \in Actors : b # a => req'[b] = req[b]
    BY <1>0, <1>8 DEF ReadOwn, FindTransit, StoreTransit, FindSynergy, KeepSynergy, FindDocument, Goes
  <2> QED
    BY <1>7, <2>1, <2>2
<1>9. ASSUME NEW a \in Actors, NEW kind \in Kinds \ {"none"}, NEW wait \in BOOLEAN, Begin(a, kind, wait)
      PROVE  Serves(p)'
  BY <1>0, <1>7, <1>9 DEF Begin
<1>10. CASE ChangeProfile \/ Tick \/ ListHistory \/ UNCHANGED vars
  BY <1>7, <1>10 DEF ChangeProfile, Tick, ListHistory, vars
<1>11. ASSUME NEW t \in Tasks, StoreFails(t) PROVE FALSE
  BY <1>0, <1>11 DEF StoreFails
<1>12. ASSUME NEW these \in SUBSET (Actors \cup Tasks), Stop(these) PROVE FALSE
  BY <1>0, <1>12 DEF Stop
<1> QED
  BY <1>3, <1>4, <1>5, <1>6, <1>8, <1>9, <1>10, <1>11, <1>12 DEF Next, Steps

-----------------------------------------------------------------------------
(* The theorems.                                                           *)

IInv == TypeOK /\ Workers /\ OwnUntilLeft /\ PendingIsServed

LEMMA Inductive == Spec => []IInv
<1>1. Init => IInv
  <2> SUFFICES ASSUME Init PROVE IInv
    OBVIOUS
  <2>1. Workers
    BY NoneAtWork DEF Init, Workers, Named, Started, OwnRequests, OwnTasks, AllLooked, Looked, At
  <2>2. OwnUntilLeft /\ PendingIsServed
    BY DEF Init, OwnUntilLeft, PendingIsServed, NoPlan
  <2> QED
    BY <2>1, <2>2, TypeInit DEF IInv
<1>2. IInv /\ [Next]_vars => IInv'
  BY TypeStep, WorkersStep, OwnStep, ServedStep DEF IInv, Workers
<1> QED
  BY <1>1, <1>2, PTL DEF Spec

\* The type invariant of documents, requests and tasks.
THEOREM TypeCorrect == Spec => []TypeOK
<1>1. IInv => TypeOK
  BY DEF IInv
<1> QED
  BY <1>1, Inductive, PTL

\* Whatever edits fall between the two reads of the profile by a plan or a briefing, the
\* document filed under a profile the user has not left speaks of it.
THEOREM OwnedUntilLeft == Spec => []OwnUntilLeft
<1>1. IInv => OwnUntilLeft
  BY DEF IInv
<1> QED
  BY <1>1, Inductive, PTL

\* A plan shown as pending is worked on, as long as nothing has failed.
THEOREM PendingHasServer == Spec => []PendingIsServed
<1>1. IInv => PendingIsServed
  BY DEF IInv
<1> QED
  BY <1>1, Inductive, PTL

\* A ready narrative is replaced by a refresh, or by a request that looked before it was
\* ready; never by the failure of a task.
THEOREM ReadyIsReplacedKnowingly == Spec => ReadyIsKept
<1> DEFINE
  PlanLost(p) == plan[p].status = "ready" /\ plan'[p].status # "ready" =>
    \E a \in Actors : /\ At(a, "persist") /\ ~At(a, "persist")' /\ req[a].hash = p
                      /\ req[a].wait \/ req[a].found # "ready"
  SynergyLost(p) == synergy[p] = "ready" /\ synergy'[p] # "ready" =>
    \E a \in Actors : At(a, "keep") /\ ~At(a, "keep")' /\ req[a].of = p /\ req[a].found # "ready"
<1>1. ASSUME TypeOK, Workers, [Next]_vars, NEW p \in Profiles
      PROVE  PlanLost(p) /\ SynergyLost(p)
  <2>0. req \in [Actors -> Request] /\ plan \in [Profiles -> Plan] /\ synergy \in [Profiles -> Outcomes \cup {"none"}]
    BY <1>1 DEF TypeOK
  <2>1. ASSUME plan[p].status = "ready", plan'[p].status # "ready"
        PROVE  \E a \in Actors : /\ At(a, "persist") /\ ~At(a, "persist")' /\ req[a].hash = p
                                 /\ req[a].wait \/ req[a].found # "ready"
    <3>1. ASSUME NEW t \in Tasks, Enhance(t) \/ Catch(t) PROVE FALSE
      <4>1. PICK outcome : Finish(t, outcome)
        BY <3>1 DEF Enhance, Catch
      <4> QED
        BY <2>0, <2>1, <4>1 DEF Finish
    <3>2. PICK a \in Actors : PersistPlan(a)
      BY <1>1, <2>1, <3>1, PlanSteps DEF PersistBriefing
    <3>3. PICK stage \in {"launch", "idle"} : Goes(a, stage)
      BY <3>2 DEF PersistPlan
    <3>4. req'[a].stage \in {"launch", "idle"}
      BY <2>0, <3>3, NoneAtWork DEF Goes, Ends, Request
    <3>5. req[a].hash = p
      BY <2>0, <2>1, <3>2 DEF PersistPlan
    <3>6. req[a].wait \/ req[a].found # "ready"
      BY <1>1, <3>2 DEF PersistPlan, Workers, AllLooked, Looked, At, Is
    <3> QED
      BY <3>2, <3>4, <3>5, <3>6 DEF PersistPlan, At
  <2>2. ASSUME synergy[p] = "ready", synergy'[p] # "ready"
        PROVE  \E a \in Actors : At(a, "keep") /\ ~At(a, "keep")' /\ req[a].of = p /\ req[a].found # "ready"
    <3>1. PICK a \in Actors : KeepSynergy(a)
      BY <1>1, <2>2 DEF Next, Steps, Begin, ReadOwn, FindTransit, StoreTransit, FindSynergy, FindDocument,
         PersistPlan, PersistBriefing, Launch, Enhance, Catch, StoreFails, Stop, ChangeProfile, Tick,
         ListHistory, vars
    <3>2. req'[a].stage = "idle"
      BY <2>0, <3>1, NoneAtWork DEF KeepSynergy, Goes, Ends, Request
    <3>3. req[a].of = p
      BY <2>0, <2>2, <3>1 DEF KeepSynergy
    <3> QED
      BY <1>1, <3>1, <3>2, <3>3 DEF KeepSynergy, At, Workers, AllLooked, Looked
  <2> QED
    BY <2>1, <2>2
<1>2. IInv /\ [Next]_vars =>
        [\A p \in Profiles :
           /\ plan[p].status = "ready" /\ plan'[p].status # "ready" =>
                \E a \in Actors : /\ At(a, "persist") /\ ~At(a, "persist")' /\ req[a].hash = p
                                  /\ req[a].wait \/ req[a].found # "ready"
           /\ synergy[p] = "ready" /\ synergy'[p] # "ready" =>
                \E a \in Actors : At(a, "keep") /\ ~At(a, "keep")' /\ req[a].of = p /\ req[a].found # "ready"]_vars
  <2> SUFFICES ASSUME IInv, [Next]_vars PROVE \A p \in Profiles : PlanLost(p) /\ SynergyLost(p)
    OBVIOUS
  <2> QED
    BY <1>1 DEF IInv
<1> QED
  BY <1>2, Inductive, PTL DEF Spec, ReadyIsKept

=============================================================================
