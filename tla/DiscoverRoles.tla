------------------------------ MODULE DiscoverRoles ------------------------------
(***************************************************************************)
(* Discover roles: the catalog of roles every process seeds and caches,    *)
(* the recommendations stored for a profile (services/discoverRoles.ts),   *)
(* the user's current job, which moved from a collection of its own to the *)
(* birth profile (discoverRoleCurrentJobStore.ts), and the shortlist that  *)
(* clients synchronise (discoverRoleShortlistStore.ts).                    *)
(*                                                                         *)
(* One user with one birth profile and one slug of the shortlist are       *)
(* followed.  Processes of several versions of the code may run side by    *)
(* side, each with the roles it was built with.  A role's fit to the chart *)
(* is a score; market data only reorders candidates or decorates them.     *)
(***************************************************************************)
EXTENDS Integers, FiniteSets, FiniteSetsExt

CONSTANTS
  Roles,          \* slugs of the catalog
  Versions,       \* versions of the code that are deployed
  Seeds,          \* Seeds[v]: the roles version v is built with
  Score, Domain,  \* of a role, for the user's chart
  Processes,
  NoProcess,
  Actors,         \* requests served at the same time
  Titles,         \* job titles the user sets
  Old,            \* title an earlier version stored
  NoTitle,
  CacheSize,      \* RECOMMENDED_CACHE_SIZE
  MaxPerDomain,   \* roles of one domain that are picked first
  Shown,          \* roles recommended in an answer
  Candidates,     \* DISCOVER_OPPORTUNITY_CANDIDATE_LIMIT
  SearchLimit,    \* roles a search finds at most
  Ttl,            \* DISCOVER_ROLE_CATALOG_CACHE_TTL_MS, in ticks
  Together,       \* bound: the sets of kinds of requests that are followed together
  MaxSaved,       \* bound: savedAt of clients
  MaxTime,        \* bound: the clock stops here
  MaxRequests,    \* bound: requests that begin
  MaxEdits,       \* bound: profile edits that name the current job
  MaxFaults       \* bound: failed commands and restarts

ASSUME DiscoverAssumption ==
  /\ Seeds \in [Versions -> SUBSET Roles] /\ IsFiniteSet(Roles)
  /\ Score \in [Roles -> Int]
  /\ \A r, s \in Roles : Score[r] = Score[s] => r = s
  /\ NoProcess \notin Processes /\ NoTitle \notin Titles \cup {Old}
  /\ Shown <= CacheSize /\ Shown <= Candidates
  /\ {CacheSize, MaxPerDomain, Shown, Candidates, SearchLimit, Ttl} \subseteq Nat \ {0}
  /\ {MaxSaved, MaxTime, MaxRequests, MaxEdits, MaxFaults} \subseteq Nat

VARIABLES
  now,
  version,     \* version[q]: what process q runs
  seed,        \* catalogSeedPromise of each process
  cache,       \* discoverRoleCatalogCache of each process
  active,      \* discover_role_catalog: the active roles
  recs,        \* discover_role_recommendations of the profile; {}: no document
  title,       \* birth_profiles.currentJobTitle
  legacy,      \* discover_role_current_jobs
  entry,       \* discover_role_shortlist_entries: updatedAt of the slug, 0 if there is none
  req,         \* req[a]: what request a is at
  requests, edits, faults,
  kinds,       \* the set of Together followed here
  goneAt,      \* history: when a role was last retired
  chosen,      \* history: the title the user last asked for
  migrated     \* history: a PUT or DELETE of the current job has come to its end

procs == <<version, seed, cache>>
catalogDocs == <<active, recs, goneAt>>
job == <<title, legacy, chosen, migrated>>
bounds == <<now, requests, edits, faults, kinds>>
vars == <<procs, catalogDocs, job, entry, req, bounds>>

\* todo: the documents the command under way has still to visit; mixed (history): a
\* process of another version has written the catalog since the seeding began.
Seedings == [stage : {"none", "upsert", "retire", "done", "failed"}, todo : SUBSET Roles,
             mixed : BOOLEAN]
Unseeded == [stage |-> "none", todo |-> {}, mixed |-> FALSE]
NoCache == [at |-> -Ttl, items |-> {}]

\* "title", "legacy", "backfill": the current job is read; "put", "drop", "clear": it
\* is set or cleared; "match", "roles": the catalog is needed, for the title's role
\* or for the answer; "find", "keep": it is loaded; "cached", "store": the
\* recommendations are read or stored; "entry", "save": the shortlist.
Stages == {"idle", "title", "legacy", "backfill", "put", "drop", "clear", "match", "roles",
           "find", "keep", "cached", "store", "answer", "entry", "save"}

\* began, at: when the request and its load of the catalog began; loads: the stage
\* that needs it; picked: the roles to recommend; shown: those of the answer; found:
\* the entry read; crossed (history): a PUT or DELETE of the job has come to its end
\* since this request read the old title.  "aborted": a DELETE of which one command failed.
Request == [kind : {"none", "job", "discover", "put", "clear", "aborted", "save"}, stage : Stages,
            process : Processes \cup {NoProcess}, refresh : BOOLEAN,
            began : 0..MaxTime, at : 0..MaxTime, loads : {"match", "roles"},
            catalog : SUBSET Roles, picked : SUBSET Roles, shown : SUBSET Roles,
            title : Titles \cup {Old, NoTitle}, todo : SUBSET {"title", "legacy"},
            saved : 0..MaxSaved, found : 0..MaxSaved, crossed : BOOLEAN]
NoRequest == [kind |-> "none", stage |-> "idle", process |-> NoProcess, refresh |-> FALSE,
              began |-> 0, at |-> 0, loads |-> "match", catalog |-> {}, picked |-> {}, shown |-> {},
              title |-> NoTitle, todo |-> {}, saved |-> 0, found |-> 0, crossed |-> FALSE]

MinOf(m, n) == IF m < n THEN m ELSE n

Better(r, S) == {s \in S : Score[s] > Score[r]}
Best(S, n) == {r \in S : Cardinality(Better(r, S)) < n}

\* The roles picked first: the best of each domain.
Diverse(S) ==
  {r \in S : Cardinality({s \in Better(r, S) : Domain[s] = Domain[r]}) < MaxPerDomain}

\* The roles of S that are picked before r: the diverse ones by score, then the others.
Ahead(r, S) ==
  IF r \in Diverse(S) THEN Better(r, Diverse(S)) ELSE Diverse(S) \cup Better(r, S)
Pick(S) == {r \in S : Cardinality(Ahead(r, S)) < CacheSize}

\* Earlier deployments have left a catalog and recommendations, or nothing.
Init ==
  /\ now = 0
  /\ version \in [Processes -> Versions]
  /\ seed = [q \in Processes |-> Unseeded]
  /\ cache = [q \in Processes |-> NoCache]
  /\ active \in {Seeds[v] : v \in Versions} \cup {{}}
  /\ recs \in {{}} \cup {Pick(Seeds[v]) : v \in Versions}
  /\ active = {} => recs = {}
  /\ title \in {NoTitle} \cup Titles
  /\ legacy \in IF title = NoTitle THEN {NoTitle, Old} ELSE {NoTitle}
  /\ entry = 0
  /\ req = [a \in Actors |-> NoRequest]
  /\ requests = 0 /\ edits = 0 /\ faults = 0
  /\ kinds \in Together
  /\ goneAt = [r \in Roles |-> -Ttl]
  /\ chosen = title
  /\ migrated = FALSE

At(a, stage) == req[a].stage = stage
Goes(a, stage) == req' = [req EXCEPT ![a].stage = stage]
Ends(a) == req' = [req EXCEPT ![a] = NoRequest]

\* A new request; the profile and the chart of the user are there.
Begin(a, q, request) ==
  /\ At(a, "idle")
  /\ requests < MaxRequests /\ request.kind \in kinds
  /\ requests' = requests + 1
  /\ req' = [req EXCEPT ![a] = [request EXCEPT !.process = q, !.began = now]]
  /\ UNCHANGED <<procs, catalogDocs, job, entry, now, edits, faults, kinds>>

BeginJob(a, q) == Begin(a, q, [NoRequest EXCEPT !.kind = "job", !.stage = "title"])
BeginDiscover(a, q) ==
  \E refresh \in BOOLEAN :
    Begin(a, q, [NoRequest EXCEPT !.kind = "discover", !.stage = "title", !.refresh = refresh])
BeginPut(a, q) ==
  \E t \in Titles : Begin(a, q, [NoRequest EXCEPT !.kind = "put", !.stage = "put", !.title = t])
\* These do not touch what the process has in memory.
BeginClear(a) ==
  Begin(a, NoProcess, [NoRequest EXCEPT !.kind = "clear", !.stage = "clear", !.todo = {"title", "legacy"}])
BeginSave(a) ==
  \E s \in 1..MaxSaved : Begin(a, NoProcess, [NoRequest EXCEPT !.kind = "save", !.stage = "entry", !.saved = s])

-----------------------------------------------------------------------------
(* The current job *)

\* A title of the profile is matched with the catalog; without one the old
\* collection is asked.
ReadTitle(a) ==
  /\ At(a, "title")
  /\ Goes(a, IF title = NoTitle THEN "legacy" ELSE "match")
  /\ UNCHANGED <<procs, catalogDocs, job, entry, bounds>>

\* The title is dealt with: an answer of roles goes on with them.
WithoutMatch(a) ==
  IF req[a].kind = "discover"
    THEN req' = [req EXCEPT ![a] = [NoRequest EXCEPT !.kind = "discover", !.stage = "roles",
                   !.process = req[a].process, !.refresh = req[a].refresh,
                   !.began = req[a].began]]
    ELSE Ends(a)

ReadLegacy(a) ==
  /\ At(a, "legacy")
  /\ IF legacy = NoTitle
       THEN WithoutMatch(a)
       ELSE req' = [req EXCEPT ![a].stage = "backfill", ![a].title = legacy]
  /\ UNCHANGED <<procs, catalogDocs, job, entry, bounds>>

\* The title read is put into the profile whatever stands there by now; the old
\* document stays.
Backfill(a) ==
  /\ At(a, "backfill")
  /\ title' = req[a].title
  /\ WithoutMatch(a)
  /\ UNCHANGED <<procs, catalogDocs, legacy, chosen, migrated, entry, bounds>>

Put(a) ==
  /\ At(a, "put")
  /\ title' = req[a].title
  /\ chosen' = req[a].title
  /\ Goes(a, "drop")
  /\ UNCHANGED <<procs, catalogDocs, legacy, migrated, entry, bounds>>

\* A change of the job has come to its end: those who have read the old title are marked.
Crossed == [b \in Actors |-> [req[b] EXCEPT !.crossed = @ \/ At(b, "backfill")]]

\* Mutant: the old document stays.
DropNothing(a) ==
  /\ At(a, "drop")
  /\ migrated' = TRUE
  /\ req' = [Crossed EXCEPT ![a].stage = "match"]
  /\ UNCHANGED <<procs, catalogDocs, title, legacy, chosen, entry, bounds>>

Drop(a) ==
  /\ At(a, "drop")
  /\ legacy' = NoTitle
  /\ migrated' = TRUE
  /\ req' = [Crossed EXCEPT ![a].stage = "match"]
  /\ UNCHANGED <<procs, catalogDocs, title, chosen, entry, bounds>>

\* Both commands of a DELETE are under way at once.
Clear(a) ==
  /\ At(a, "clear")
  /\ \E c \in req[a].todo :
       LET last == req[a].todo = {c}
           ended == last /\ req[a].kind = "clear"
       IN  /\ IF c = "title"
                THEN title' = NoTitle /\ chosen' = NoTitle /\ UNCHANGED legacy
                ELSE legacy' = NoTitle /\ UNCHANGED <<title, chosen>>
           /\ migrated' = (migrated \/ ended)
           /\ req' = [(IF ended THEN Crossed ELSE req) EXCEPT
                        ![a] = IF last THEN NoRequest ELSE [req[a] EXCEPT !.todo = @ \ {c}]]
  /\ UNCHANGED <<procs, catalogDocs, entry, bounds>>

\* PUT /birth-profile with a current job, perhaps an empty one; it leaves the old
\* collection alone.
EditTitle ==
  /\ edits < MaxEdits /\ "job" \in kinds
  /\ edits' = edits + 1
  /\ title' \in Titles \cup {NoTitle}
  /\ chosen' = title'
  /\ UNCHANGED <<procs, catalogDocs, legacy, migrated, entry, req, now, requests, faults, kinds>>

-----------------------------------------------------------------------------
(* The catalog *)

\* The first request that needs the catalog starts the seeding of its process; a
\* seeding that failed fails every request that follows.
AwaitSeed(a) ==
  /\ req[a].stage \in {"match", "roles"}
  /\ LET q == req[a].process
     IN  \/ /\ seed[q].stage = "none"
            /\ seed' = [seed EXCEPT ![q] = [stage |-> "upsert", todo |-> Seeds[version[q]],
                                            mixed |-> FALSE]]
            /\ UNCHANGED req
         \/ /\ seed[q].stage = "failed"
            /\ Ends(a)
            /\ UNCHANGED seed
  /\ UNCHANGED <<version, cache, catalogDocs, job, entry, bounds>>

\* Processes of another version learn (history) that the catalog was written to.
Mixes(q) == [p \in Processes |->
               [seed[p] EXCEPT !.mixed = @ \/ /\ version[p] # version[q]
                                              /\ seed[p].stage \in {"upsert", "retire", "done"}]]

\* bulkWrite, unordered: each role of the version is upserted as active.
UpsertRole(q, r) ==
  /\ seed[q].stage = "upsert"
  /\ r \in seed[q].todo
  /\ active' = active \cup {r}
  /\ seed' = [Mixes(q) EXCEPT ![q].todo = @ \ {r}]
  /\ UNCHANGED <<version, cache, recs, goneAt, job, entry, req, bounds>>

\* Mutant: the roles the version does not know stay active.
RetireNoRole(q, r) ==
  /\ seed[q].stage = "retire"
  /\ r \in seed[q].todo
  /\ seed' = [Mixes(q) EXCEPT ![q].todo = @ \ {r}]
  /\ UNCHANGED <<version, cache, catalogDocs, job, entry, req, bounds>>

\* updateMany: each role the version does not know is retired, if it is active.
RetireRole(q, r) ==
  /\ seed[q].stage = "retire"
  /\ r \in seed[q].todo
  /\ active' = active \ {r}
  /\ goneAt' = [goneAt EXCEPT ![r] = IF r \in active THEN now ELSE @]
  /\ seed' = [Mixes(q) EXCEPT ![q].todo = @ \ {r}]
  /\ UNCHANGED <<version, cache, recs, job, entry, req, bounds>>

EndCommand(q) ==
  /\ seed[q].todo = {}
  /\ \/ /\ seed[q].stage = "upsert"
        /\ seed' = [seed EXCEPT ![q].stage = "retire", ![q].todo = Roles \ Seeds[version[q]]]
        /\ UNCHANGED cache
     \/ /\ seed[q].stage = "retire"
        /\ seed' = [seed EXCEPT ![q].stage = "done"]
        /\ cache' = [cache EXCEPT ![q] = NoCache]
  /\ UNCHANGED <<version, catalogDocs, job, entry, req, bounds>>

\* The catalog is at hand: the title is matched, or the recommendations come next.  An
\* empty catalog is an error.
Loaded(a, purpose, catalog) ==
  IF purpose = "match"
    THEN WithoutMatch(a)
    ELSE req' = [req EXCEPT ![a] = IF catalog = {} THEN NoRequest
                   ELSE [@ EXCEPT !.stage = "cached", !.catalog = catalog]]

\* The cached catalog is taken while it is young, unless the answer is to be refreshed.
Load(a) ==
  LET q == req[a].process
      forced == At(a, "roles") /\ req[a].refresh
      young == now - cache[q].at < Ttl
  IN  /\ req[a].stage \in {"match", "roles"}
      /\ seed[q].stage = "done"
      /\ IF young /\ ~forced
           THEN Loaded(a, req[a].stage, cache[q].items)
           ELSE req' = [req EXCEPT ![a].stage = "find", ![a].at = now, ![a].loads = req[a].stage]
      /\ UNCHANGED <<procs, catalogDocs, job, entry, bounds>>

Find(a) ==
  /\ At(a, "find")
  /\ req' = [req EXCEPT ![a].stage = "keep", ![a].catalog = active]
  /\ UNCHANGED <<procs, catalogDocs, job, entry, bounds>>

\* The catalog found is cached as of the time its load began.
Keep(a) ==
  /\ At(a, "keep")
  /\ cache' = [cache EXCEPT ![req[a].process] = [at |-> req[a].at, items |-> req[a].catalog]]
  /\ Loaded(a, req[a].loads, req[a].catalog)
  /\ UNCHANGED <<version, seed, catalogDocs, job, entry, bounds>>

-----------------------------------------------------------------------------
(* The recommendations *)

\* Mutant: stored roles are shown whether or not the catalog still has them.
RecommendedAsStored(items, catalog) ==
  LET kept == {r \in items : Cardinality(Ahead(r, items)) < Shown}
  IN  kept \cup Best(catalog \ kept, Shown - Cardinality(kept))

\* By fit: the stored roles the catalog still has, in their order, and the best others
\* of the catalog for those that are missing.
Recommended(items, catalog) ==
  LET kept == {r \in items \cap catalog : Cardinality(Ahead(r, items) \cap catalog) < Shown}
  IN  kept \cup Best(catalog \ kept, Shown - Cardinality(kept))

\* The stored recommendations, unless there are none or they are to be refreshed.
ReadStored(a) ==
  /\ At(a, "cached")
  /\ IF recs # {} /\ ~req[a].refresh
       THEN req' = [req EXCEPT ![a].stage = "answer", ![a].picked = recs]
       ELSE req' = [req EXCEPT ![a].stage = "store", ![a].picked = Pick(req[a].catalog)]
  /\ UNCHANGED <<procs, catalogDocs, job, entry, bounds>>

StoreRecs(a) ==
  /\ At(a, "store")
  /\ recs' = req[a].picked
  /\ Goes(a, "answer")
  /\ UNCHANGED <<procs, active, goneAt, job, entry, bounds>>

\* The answer: roles by fit, or by opportunity some of the best candidates, and with a
\* query any roles of the catalog it matches.
Answer(a) ==
  LET catalog == req[a].catalog
  IN  /\ At(a, "answer")
      /\ req[a].shown = {}
      /\ \E found \in {S \in SUBSET catalog : Cardinality(S) <= SearchLimit},
            roles \in {Recommended(req[a].picked, catalog)} \cup
                     kSubset(MinOf(Shown, Cardinality(catalog)), Best(catalog, Candidates)) :
            req' = [req EXCEPT ![a].shown = roles \cup found, ![a].picked = {}]
      /\ UNCHANGED <<procs, catalogDocs, job, entry, bounds>>

Send(a) ==
  /\ At(a, "answer")
  /\ req[a].shown # {}
  /\ Ends(a)
  /\ UNCHANGED <<procs, catalogDocs, job, entry, bounds>>

-----------------------------------------------------------------------------
(* The shortlist *)

\* Mutant: the entry that is there is not compared.
ReadEntryUncompared(a) ==
  /\ At(a, "entry")
  /\ req' = [req EXCEPT ![a].stage = "save", ![a].found = entry]
  /\ UNCHANGED <<procs, catalogDocs, job, entry, bounds>>

\* A save that is older than what is there is answered with that.
ReadEntry(a) ==
  /\ At(a, "entry")
  /\ IF entry > req[a].saved
       THEN Ends(a)
       ELSE req' = [req EXCEPT ![a].stage = "save", ![a].found = entry]
  /\ UNCHANGED <<procs, catalogDocs, job, entry, bounds>>

Save(a) ==
  /\ At(a, "save")
  /\ entry' = req[a].saved
  /\ Ends(a)
  /\ UNCHANGED <<procs, catalogDocs, job, bounds>>

RemoveEntry ==
  /\ entry # 0
  /\ edits < MaxEdits
  /\ edits' = edits + 1
  /\ entry' = 0
  /\ UNCHANGED <<procs, catalogDocs, job, req, now, requests, faults, kinds>>

\* GET /discover-roles/shortlist only reads.
ListShortlist == UNCHANGED vars

-----------------------------------------------------------------------------
(* Failures and time *)

Fault == faults < MaxFaults /\ faults' = faults + 1

\* A command of a request fails: a DELETE's other command goes on.
Stop(a) ==
  /\ Fault
  /\ req[a].stage \notin {"idle", "answer"}
  /\ IF At(a, "clear")
       THEN \E c \in req[a].todo :
              req' = [req EXCEPT ![a] = IF @.todo = {c} THEN NoRequest
                        ELSE [req[a] EXCEPT !.kind = "aborted", !.todo = @ \ {c}]]
       ELSE Ends(a)
  /\ UNCHANGED <<procs, catalogDocs, job, entry, now, requests, edits, kinds>>

\* A command of the seeding fails: the promise stays, rejected.
SeedFails(q) ==
  /\ Fault
  /\ seed[q].stage \in {"upsert", "retire"}
  /\ seed' = [seed EXCEPT ![q].stage = "failed", ![q].todo = {}]
  /\ UNCHANGED <<version, cache, catalogDocs, job, entry, req, now, requests, edits, kinds>>

\* A process dies and comes back, perhaps with another version.
Die(q) ==
  /\ Fault
  /\ version' \in {[version EXCEPT ![q] = v] : v \in Versions}
  /\ seed' = [seed EXCEPT ![q] = Unseeded]
  /\ cache' = [cache EXCEPT ![q] = NoCache]
  /\ req' = [a \in Actors |-> IF req[a].process = q THEN NoRequest ELSE req[a]]
  /\ UNCHANGED <<catalogDocs, job, entry, now, requests, edits, kinds>>

Tick ==
  /\ now < MaxTime /\ "discover" \in kinds
  /\ now' = now + 1
  /\ UNCHANGED <<procs, catalogDocs, job, entry, req, requests, edits, faults, kinds>>

SeedNext(q) ==
  \/ \E r \in Roles : UpsertRole(q, r) \/ RetireRole(q, r)
  \/ EndCommand(q)
Next ==
  \/ \E a \in Actors, q \in Processes :
       BeginJob(a, q) \/ BeginDiscover(a, q) \/ BeginPut(a, q)
  \/ \E a \in Actors :
       \/ BeginClear(a) \/ BeginSave(a)
       \/ ReadTitle(a) \/ ReadLegacy(a) \/ Backfill(a) \/ Put(a) \/ Drop(a) \/ Clear(a)
       \/ AwaitSeed(a) \/ Load(a) \/ Find(a) \/ Keep(a)
       \/ ReadStored(a) \/ StoreRecs(a) \/ Answer(a) \/ Send(a)
       \/ ReadEntry(a) \/ Save(a) \/ Stop(a)
  \/ \E q \in Processes : SeedNext(q) \/ SeedFails(q) \/ Die(q)
  \/ EditTitle \/ RemoveEntry \/ ListShortlist \/ Tick

Spec == Init /\ [][Next]_vars

-----------------------------------------------------------------------------
TypeOK ==
  /\ now \in 0..MaxTime
  /\ version \in [Processes -> Versions]
  /\ seed \in [Processes -> Seedings]
  /\ cache \in [Processes -> [at : -Ttl..MaxTime, items : SUBSET Roles]]
  /\ active \subseteq Roles /\ recs \subseteq Roles
  /\ title \in Titles \cup {Old, NoTitle} /\ chosen \in Titles \cup {NoTitle}
  /\ legacy \in {Old, NoTitle} /\ migrated \in BOOLEAN
  /\ entry \in 0..MaxSaved
  /\ req \in [Actors -> Request]
  /\ goneAt \in [Roles -> -Ttl..MaxTime]
  /\ kinds \in Together
  /\ requests \in 0..MaxRequests /\ edits \in 0..MaxEdits /\ faults \in 0..MaxFaults

\* The catalog a process works with after its seeding has every role that all versions
\* know, and exactly the roles of its own version as long as no process of another one
\* wrote to it since (discoverRoles.ts:1133).
CatalogFollowsSeeding ==
  \A q \in Processes : seed[q].stage = "done" =>
    /\ \A r \in Roles : (\A v \in Versions : r \in Seeds[v]) => r \in active
    /\ seed[q].mixed \/ active = Seeds[version[q]]

\* An answer has as many roles as it should, however many of the stored ones are gone, and
\* none of them was retired a cache's life before the request began (discoverRoles.ts:2250).
AnswersAreCurrent ==
  \A a \in Actors : req[a].shown # {} =>
    /\ Cardinality(req[a].shown) >= MinOf(Shown, Cardinality(req[a].catalog))
    /\ \A r \in req[a].shown : r \in active \/ goneAt[r] > req[a].began - Ttl

\* Once a PUT or DELETE of the current job has come to its end, only a GET that had read the
\* old collection before puts another title into the profile than the one the user last
\* asked for (discoverRoleCurrentJobStore.ts:122-131).
StaysChosen ==
  [][migrated /\ title = chosen /\ title' # chosen' =>
       \E a \in Actors : At(a, "backfill") /\ req[a].crossed]_vars

\* A save replaces a newer entry only when that was not there yet when the save looked
\* (discoverRoleShortlistStore.ts:81).
ShortlistKeepsNewest ==
  [][entry' < entry => entry' = 0 \/ \E a \in Actors : At(a, "save") /\ req[a].found # entry]_vars

=============================================================================
