-------------------------- MODULE DiscoverRolesProofs --------------------------
(***************************************************************************)
(* What holds of DiscoverRoles for every number of versions, processes,    *)
(* roles, requests, edits and faults: the catalog follows the seedings,    *)
(* the job the user chose stays, and the shortlist keeps the newest entry, *)
(* but for the requests that overlapped; an answer is long enough and of   *)
(* roles that were there within the cache's life.                          *)
(***************************************************************************)
EXTENDS DiscoverRoles, FiniteSetTheorems, TLAPS

(***************************************************************************)
(* The inductive invariant.  A request that needs the memory of a process  *)
(* has one, a PUT carries a title the user may set, and a save goes on     *)
(* only with an entry that is not newer.                                   *)
(***************************************************************************)
Sound(r) ==
  /\ r \in Request
  /\ r.stage \notin {"idle", "clear", "entry", "save"} => r.process \in Processes
  /\ r.stage = "put" => r.title \in Titles
  /\ r.stage = "save" => r.found <= r.saved
AllSound == \A a \in Actors : Sound(req[a])

\* A change of the job that has come to its end has emptied the old collection, and a
\* request that read it before knows that the change ended since.
JobMoved ==
  /\ migrated => legacy = NoTitle
  /\ \A a \in Actors : migrated /\ At(a, "backfill") => req[a].crossed
  /\ \A a \in Actors : At(a, "clear") /\ req[a].kind = "clear" /\ "legacy" \notin req[a].todo =>
       legacy = NoTitle

\* What a seeding has reached: the roles all versions know are active or on its list, and
\* so are its own unless another version wrote meanwhile.
Common == {r \in Roles : \A v \in Versions : r \in Seeds[v]}
Own(q) == Seeds[version[q]]
Seeded(q) ==
  /\ seed[q].stage = "upsert" => /\ seed[q].todo \subseteq Own(q)
                                 /\ Common \subseteq active \cup seed[q].todo
                                 /\ seed[q].mixed \/ Own(q) \subseteq active \cup seed[q].todo
  /\ seed[q].stage = "retire" => /\ seed[q].todo \subseteq Roles \ Own(q)
                                 /\ Common \subseteq active
                                 /\ seed[q].mixed \/ /\ Own(q) \subseteq active
                                                     /\ active \subseteq Own(q) \cup seed[q].todo
  /\ seed[q].stage = "done" => Common \subseteq active /\ (seed[q].mixed \/ active = Own(q))
AllSeeded == \A q \in Processes : Seeded(q)

LEMMA NumbersHold ==
  /\ Ttl \in Nat \ {0} /\ MaxSaved \in Nat /\ MaxTime \in Nat /\ MaxRequests \in Nat
  /\ MaxEdits \in Nat /\ MaxFaults \in Nat
  /\ Seeds \in [Versions -> SUBSET Roles]
  /\ NoProcess \notin Processes /\ NoTitle \notin Titles /\ NoTitle # Old
BY DiscoverAssumption

-----------------------------------------------------------------------------
(* What becomes of a request.                                              *)

LEMMA NoRequestSound == Sound(NoRequest) /\ NoRequest.stage = "idle"
BY NumbersHold DEF Sound, NoRequest, Request, Stages

\* Request a becomes a sound one at one of these stages.
Becomes(a, stages) ==
  \E r \in Request : Sound(r) /\ r.stage \in stages /\ req' = [req EXCEPT ![a] = r]

LEMMA BecomesSound ==
  ASSUME TypeOK, AllSound, NEW a \in Actors, NEW stages, Becomes(a, stages)
  PROVE  /\ req' \in [Actors -> Request] /\ AllSound'
         /\ req'[a].stage \in stages /\ \A b \in Actors : b # a => req'[b] = req[b]
<1>1. PICK r \in Request : Sound(r) /\ r.stage \in stages /\ req' = [req EXCEPT ![a] = r]
  BY DEF Becomes
<1>2. /\ req' \in [Actors -> Request] /\ req'[a] = r
      /\ \A b \in Actors : b # a => req'[b] = req[b]
  BY <1>1 DEF TypeOK
<1>3. AllSound'
  BY <1>1, <1>2 DEF AllSound
<1> QED
  BY <1>1, <1>2, <1>3

LEMMA EndsBecomes == ASSUME NEW a \in Actors, Ends(a) PROVE Becomes(a, {"idle"})
BY NoRequestSound DEF Ends, Becomes, Sound

Working == Stages \ {"idle", "put", "clear", "entry", "save"}

LEMMA GoesBecomes ==
  ASSUME TypeOK, NEW a \in Actors, NEW stage \in Working, req[a].process \in Processes, Goes(a, stage)
  PROVE  Becomes(a, {stage})
<1> DEFINE r == [req[a] EXCEPT !.stage = stage]
<1>1. req[a] \in Request /\ stage \in Stages
  BY DEF TypeOK, Working
<1>2. r \in Request /\ r.stage = stage /\ r.process = req[a].process
  BY <1>1 DEF Request
<1>3. Sound(r)
  BY <1>2 DEF Sound, Working
<1>4. req' = [req EXCEPT ![a] = r]
  BY DEF Goes
<1> QED
  BY <1>2, <1>3, <1>4 DEF Becomes

LEMMA WithoutMatchBecomes ==
  ASSUME TypeOK, NEW a \in Actors, req[a].process \in Processes, WithoutMatch(a)
  PROVE  Becomes(a, {"idle", "roles"})
<1>1. CASE Ends(a)
  BY <1>1, EndsBecomes DEF Becomes
<1>2. CASE ~Ends(a)
  <2> DEFINE r == [NoRequest EXCEPT !.kind = "discover", !.stage = "roles",
                     !.process = req[a].process, !.refresh = req[a].refresh, !.began = req[a].began]
  <2>1. req[a] \in Request /\ NoRequest \in Request
    BY NoRequestSound DEF TypeOK, Sound
  <2>2. r \in Request /\ r.stage = "roles" /\ r.process = req[a].process
    BY <2>1 DEF Request, Stages
  <2>3. Sound(r)
    BY <2>2 DEF Sound
  <2>4. req' = [req EXCEPT ![a] = r]
    BY <1>2 DEF WithoutMatch
  <2> QED
    BY <2>2, <2>3, <2>4 DEF Becomes
<1> QED
  BY <1>1, <1>2

LEMMA LoadedBecomes ==
  ASSUME TypeOK, NEW a \in Actors, req[a].process \in Processes, NEW purpose, NEW catalog \in SUBSET Roles,
         Loaded(a, purpose, catalog)
  PROVE  Becomes(a, {"idle", "roles", "cached"})
<1>1. CASE purpose = "match"
  BY <1>1, WithoutMatchBecomes DEF Loaded, Becomes
<1>2. CASE purpose # "match" /\ catalog = {}
  <2>1. Ends(a)
    BY <1>2 DEF Loaded, Ends
  <2> QED
    BY <2>1, EndsBecomes DEF Becomes
<1>3. CASE purpose # "match" /\ catalog # {}
  <2> DEFINE r == [req[a] EXCEPT !.stage = "cached", !.catalog = catalog]
  <2>1. req[a] \in Request
    BY DEF TypeOK
  <2>2. r \in Request /\ r.stage = "cached" /\ r.process = req[a].process
    BY <2>1 DEF Request, Stages
  <2>3. Sound(r)
    BY <2>2 DEF Sound
  <2>4. req' = [req EXCEPT ![a] = r]
    BY <1>3 DEF Loaded
  <2> QED
    BY <2>2, <2>3, <2>4 DEF Becomes
<1> QED
  BY <1>1, <1>2, <1>3

-----------------------------------------------------------------------------
(* The requests that change nothing but themselves.                        *)

LEMMA PickHolds == \A S \in SUBSET Roles : Pick(S) \in SUBSET Roles
BY DEF Pick

LEMMA AnswerHolds ==
  ASSUME NEW items \in SUBSET Roles, NEW catalog \in SUBSET Roles
  PROVE  /\ Recommended(items, catalog) \in SUBSET Roles
         /\ \A k : kSubset(k, Best(catalog, Candidates)) \subseteq SUBSET Roles
<1>1. \A n : \A S \in SUBSET Roles : Best(S, n) \in SUBSET Roles
  BY DEF Best
<1>2. \A S \in SUBSET Roles : catalog \ S \in SUBSET Roles
  OBVIOUS
<1>3. {r \in items \cap catalog : Cardinality(Ahead(r, items) \cap catalog) < Shown} \in SUBSET Roles
  OBVIOUS
<1>4. Recommended(items, catalog) \in SUBSET Roles
  BY <1>1, <1>2, <1>3 DEF Recommended
<1>5. Best(catalog, Candidates) \subseteq Roles
  BY <1>1
<1>6. ASSUME NEW k PROVE kSubset(k, Best(catalog, Candidates)) \subseteq SUBSET Roles
  BY <1>5 DEF kSubset
<1> QED
  BY <1>4, <1>6

\* Reads, and the answer.
Asks(a) ==
  \/ ReadTitle(a) \/ ReadLegacy(a) \/ Load(a) \/ Find(a)
  \/ ReadStored(a) \/ Answer(a) \/ Send(a) \/ ReadEntry(a)

LEMMA AsksBecome ==
  ASSUME TypeOK, AllSound, NEW a \in Actors, Asks(a), ~ReadLegacy(a)
  PROVE  Becomes(a, Stages \ {"backfill", "put", "clear"})
<1> DEFINE Others == Stages \ {"backfill", "put", "clear"}
<1>0. req[a] \in Request /\ Sound(req[a])
  BY DEF TypeOK, AllSound
<1>1. CASE ReadTitle(a)
  <2>1. req[a].process \in Processes
    BY <1>0, <1>1 DEF ReadTitle, At, Sound
  <2>2. PICK stage \in {"legacy", "match"} : Goes(a, stage)
    BY <1>1 DEF ReadTitle
  <2>3. Becomes(a, {stage})
    BY <2>1, <2>2, GoesBecomes DEF Working, Stages
  <2> QED
    BY <2>3 DEF Becomes, Stages
<1>2. CASE Load(a)
  <2>1. req[a].process \in Processes
    BY <1>0, <1>2 DEF Load, Sound
  <2>2. CASE req' = [req EXCEPT ![a].stage = "find", ![a].at = now, ![a].loads = req[a].stage]
    <3> DEFINE r == [req[a] EXCEPT !.stage = "find", !.at = now, !.loads = req[a].stage]
    <3>1. now \in 0..MaxTime /\ req[a].stage \in {"match", "roles"}
      BY <1>2 DEF Load, TypeOK
    <3>2. r \in Request /\ r.stage = "find" /\ r.process = req[a].process
      BY <1>0, <3>1 DEF Request, Stages
    <3>3. Sound(r)
      BY <2>1, <3>2 DEF Sound
    <3> QED
      BY <2>2, <3>2, <3>3 DEF Becomes, Stages
  <2>3. CASE Loaded(a, req[a].stage, cache[req[a].process].items)
    <3>1. cache[req[a].process].items \in SUBSET Roles
      BY <2>1 DEF TypeOK
    <3>2. Becomes(a, {"idle", "roles", "cached"})
      BY <2>1, <2>3, <3>1, LoadedBecomes
    <3> QED
      BY <3>2 DEF Becomes, Stages
  <2> QED
    BY <1>2, <2>2, <2>3 DEF Load
<1>3. CASE Find(a)
  <2> DEFINE r == [req[a] EXCEPT !.stage = "keep", !.catalog = active]
  <2>1. req[a].process \in Processes /\ active \in SUBSET Roles
    BY <1>0, <1>3 DEF Find, At, Sound, TypeOK
  <2>2. r \in Request /\ r.stage = "keep" /\ r.process = req[a].process
    BY <1>0, <2>1 DEF Request, Stages
  <2>3. Sound(r)
    BY <2>1, <2>2 DEF Sound
  <2>4. req' = [req EXCEPT ![a] = r]
    BY <1>3 DEF Find
  <2> QED
    BY <2>2, <2>3, <2>4 DEF Becomes, Stages
<1>4. CASE ReadStored(a)
  <2>1. req[a].process \in Processes /\ req[a].catalog \in SUBSET Roles /\ recs \in SUBSET Roles
    BY <1>0, <1>4 DEF ReadStored, At, Sound, TypeOK, Request
  <2>2. PICK stage \in {"answer", "store"}, picked \in SUBSET Roles :
          req' = [req EXCEPT ![a].stage = stage, ![a].picked = picked]
    BY <1>4, <2>1, PickHolds DEF ReadStored
  <2> DEFINE r == [req[a] EXCEPT !.stage = stage, !.picked = picked]
  <2>3. r \in Request /\ r.stage = stage /\ r.process = req[a].process
    BY <1>0 DEF Request, Stages
  <2>4. Sound(r)
    BY <2>1, <2>3 DEF Sound
  <2>5. req' = [req EXCEPT ![a] = r]
    BY <2>2
  <2> QED
    BY <2>3, <2>4, <2>5 DEF Becomes, Stages
<1>5. CASE Answer(a)
  <2>1. req[a].process \in Processes /\ req[a].catalog \in SUBSET Roles /\ req[a].picked \in SUBSET Roles
        /\ req[a].stage = "answer"
    BY <1>0, <1>5 DEF Answer, At, Sound, Request
  <2>2. PICK found \in SUBSET req[a].catalog, roles \in SUBSET Roles :
          req' = [req EXCEPT ![a].shown = roles \cup found, ![a].picked = {}]
    <3> DEFINE catalog == req[a].catalog
    <3>1. PICK found \in SUBSET catalog,
               roles \in {Recommended(req[a].picked, catalog)} \cup
                        kSubset(MinOf(Shown, Cardinality(catalog)), Best(catalog, Candidates)) :
            req' = [req EXCEPT ![a].shown = roles \cup found, ![a].picked = {}]
      BY <1>5 DEF Answer
    <3>2. roles \in SUBSET Roles
      <4>1. Recommended(req[a].picked, catalog) \in SUBSET Roles
        BY <2>1, AnswerHolds
      <4>2. kSubset(MinOf(Shown, Cardinality(catalog)), Best(catalog, Candidates)) \subseteq SUBSET Roles
        BY <2>1, AnswerHolds
      <4> QED
        BY <3>1, <4>1, <4>2
    <3> QED
      BY <3>1, <3>2
  <2> DEFINE r == [req[a] EXCEPT !.shown = roles \cup found, !.picked = {}]
  <2>3. roles \cup found \in SUBSET Roles
    BY <2>1, <2>2
  <2>4. r \in Request /\ r.stage = "answer" /\ r.process = req[a].process
    BY <1>0, <2>1, <2>3 DEF Request
  <2>5. Sound(r)
    BY <2>1, <2>4 DEF Sound
  <2>6. req' = [req EXCEPT ![a] = r]
    BY <2>2
  <2> QED
    BY <2>4, <2>5, <2>6 DEF Becomes, Stages
<1>6. CASE Send(a)
  BY <1>6, EndsBecomes DEF Send, Becomes, Stages
<1>7. CASE ReadEntry(a)
  <2>1. CASE Ends(a)
    BY <2>1, EndsBecomes DEF Becomes, Stages
  <2>2. CASE ~Ends(a)
    <3> DEFINE r == [req[a] EXCEPT !.stage = "save", !.found = entry]
    <3>1. entry \in 0..MaxSaved /\ ~(entry > req[a].saved) /\ req[a].saved \in 0..MaxSaved
      BY <1>0, <1>7, <2>2 DEF ReadEntry, TypeOK, Request
    <3>2. r \in Request /\ r.stage = "save" /\ r.found = entry /\ r.saved = req[a].saved
      BY <1>0, <3>1 DEF Request, Stages
    <3>3. Sound(r)
      BY <3>1, <3>2, NumbersHold DEF Sound
    <3>4. req' = [req EXCEPT ![a] = r]
      BY <1>7, <2>2 DEF ReadEntry
    <3> QED
      BY <3>2, <3>3, <3>4 DEF Becomes, Stages
  <2> QED
    BY <2>1, <2>2
<1> QED
  BY <1>1, <1>2, <1>3, <1>4, <1>5, <1>6, <1>7 DEF Asks

LEMMA ReadLegacyBecomes ==
  ASSUME TypeOK, AllSound, NEW a \in Actors, ReadLegacy(a)
  PROVE  \/ Becomes(a, {"idle", "roles"})
         \/ legacy # NoTitle /\ Becomes(a, {"backfill"})
<1>0. req[a] \in Request /\ req[a].process \in Processes
  BY DEF TypeOK, AllSound, Sound, ReadLegacy, At
<1>1. CASE legacy = NoTitle
  BY <1>0, <1>1, WithoutMatchBecomes DEF ReadLegacy
<1>2. CASE legacy # NoTitle
  <2> DEFINE r == [req[a] EXCEPT !.stage = "backfill", !.title = legacy]
  <2>1. legacy \in Titles \cup {Old, NoTitle}
    BY DEF TypeOK
  <2>2. r \in Request /\ r.stage = "backfill" /\ r.process = req[a].process
    BY <1>0, <2>1 DEF Request, Stages
  <2>3. Sound(r)
    BY <1>0, <2>2 DEF Sound
  <2>4. req' = [req EXCEPT ![a] = r]
    BY <1>2 DEF ReadLegacy
  <2> QED
    BY <1>2, <2>2, <2>3, <2>4 DEF Becomes
<1> QED
  BY <1>1, <1>2

-----------------------------------------------------------------------------
(* Requests that begin, and those that change what is stored.              *)

LEMMA BeginBecomes ==
  ASSUME TypeOK, NEW a \in Actors, NEW q \in Processes \cup {NoProcess}, NEW request \in Request,
         request.stage \notin {"idle", "clear", "entry", "save"} => q \in Processes,
         request.stage = "put" => request.title \in Titles, request.stage # "save",
         Begin(a, q, request)
  PROVE  \E r \in Request : /\ Sound(r) /\ req' = [req EXCEPT ![a] = r]
                            /\ r.stage = request.stage /\ r.kind = request.kind /\ r.todo = request.todo
<1> DEFINE r == [request EXCEPT !.process = q, !.began = now]
<1>1. now \in 0..MaxTime
  BY DEF TypeOK
<1>2. /\ r \in Request /\ r.stage = request.stage /\ r.process = q /\ r.title = request.title
      /\ r.kind = request.kind /\ r.todo = request.todo
  BY <1>1 DEF Request
<1>3. Sound(r)
  BY <1>2 DEF Sound
<1>4. req' = [req EXCEPT ![a] = r]
  BY DEF Begin
<1> QED
  BY <1>2, <1>3, <1>4

Begins(a) ==
  \/ \E q \in Processes : BeginJob(a, q) \/ BeginDiscover(a, q) \/ BeginPut(a, q)
  \/ BeginClear(a) \/ BeginSave(a)

LEMMA BeginsBecome ==
  ASSUME TypeOK, NEW a \in Actors, Begins(a)
  PROVE  /\ \E r \in Request : /\ Sound(r) /\ req' = [req EXCEPT ![a] = r] /\ r.stage # "backfill"
                               /\ r.stage = "clear" => "legacy" \in r.todo
         /\ UNCHANGED <<procs, catalogDocs, job, entry, now, edits, faults, kinds>>
         /\ requests < MaxRequests /\ requests' = requests + 1
<1>0. NoRequest \in Request
  BY NoRequestSound DEF Sound
<1>1. ASSUME NEW q \in Processes, NEW refresh \in BOOLEAN, NEW kind \in {"job", "discover"},
             Begin(a, q, [NoRequest EXCEPT !.kind = kind, !.stage = "title", !.refresh = refresh])
      PROVE  \E r \in Request : Sound(r) /\ req' = [req EXCEPT ![a] = r] /\ r.stage = "title"
  <2> DEFINE request == [NoRequest EXCEPT !.kind = kind, !.stage = "title", !.refresh = refresh]
  <2>1. request \in Request /\ request.stage = "title"
    BY <1>0 DEF Request, Stages
  <2> HIDE DEF request
  <2>2. Begin(a, q, request)
    BY <1>1 DEF request
  <2> QED
    BY <2>1, <2>2, BeginBecomes
<1>2. ASSUME NEW q \in Processes, BeginJob(a, q)
      PROVE  \E r \in Request : Sound(r) /\ req' = [req EXCEPT ![a] = r] /\ r.stage = "title"
  <2> DEFINE request == [NoRequest EXCEPT !.kind = "job", !.stage = "title"]
  <2>1. request \in Request /\ request.stage = "title"
    BY <1>0 DEF Request, Stages
  <2> HIDE DEF request
  <2>2. Begin(a, q, request)
    BY <1>2 DEF request, BeginJob
  <2> QED
    BY <2>1, <2>2, BeginBecomes
<1>3. ASSUME NEW q \in Processes, BeginDiscover(a, q)
      PROVE  \E r \in Request : Sound(r) /\ req' = [req EXCEPT ![a] = r] /\ r.stage = "title"
  BY <1>1, <1>3 DEF BeginDiscover
<1>4. ASSUME NEW q \in Processes, BeginPut(a, q)
      PROVE  \E r \in Request : Sound(r) /\ req' = [req EXCEPT ![a] = r] /\ r.stage = "put"
  <2>1. PICK t \in Titles : Begin(a, q, [NoRequest EXCEPT !.kind = "put", !.stage = "put", !.title = t])
    BY <1>4 DEF BeginPut
  <2> DEFINE request == [NoRequest EXCEPT !.kind = "put", !.stage = "put", !.title = t]
  <2>2. request \in Request /\ request.stage = "put" /\ request.title = t
    BY <1>0 DEF Request, Stages
  <2> HIDE DEF request
  <2>3. Begin(a, q, request)
    BY <2>1 DEF request
  <2> QED
    BY <2>2, <2>3, BeginBecomes
<1>5. ASSUME BeginClear(a)
      PROVE  \E r \in Request : /\ Sound(r) /\ req' = [req EXCEPT ![a] = r]
                                /\ r.stage = "clear" /\ r.todo = {"title", "legacy"}
  <2> DEFINE request == [NoRequest EXCEPT !.kind = "clear", !.stage = "clear", !.todo = {"title", "legacy"}]
  <2>1. request \in Request /\ request.stage = "clear" /\ request.todo = {"title", "legacy"}
    BY <1>0 DEF Request, Stages
  <2> HIDE DEF request
  <2>2. Begin(a, NoProcess, request)
    BY <1>5 DEF request, BeginClear
  <2> QED
    BY <2>1, <2>2, BeginBecomes
<1>6. ASSUME BeginSave(a)
      PROVE  \E r \in Request : Sound(r) /\ req' = [req EXCEPT ![a] = r] /\ r.stage = "entry"
  <2>1. PICK t \in 1..MaxSaved : Begin(a, NoProcess, [NoRequest EXCEPT !.kind = "save", !.stage = "entry", !.saved = t])
    BY <1>6 DEF BeginSave
  <2> DEFINE request == [NoRequest EXCEPT !.kind = "save", !.stage = "entry", !.saved = t]
  <2>a. t \in 0..MaxSaved /\ NoProcess \in Processes \cup {NoProcess}
    BY NumbersHold
  <2>2. request \in Request /\ request.stage = "entry"
    BY <1>0, <2>a DEF Request, Stages
  <2> HIDE DEF request
  <2>3. Begin(a, NoProcess, request)
    BY <2>1 DEF request
  <2> QED
    BY <2>2, <2>3, BeginBecomes
<1>7. /\ UNCHANGED <<procs, catalogDocs, job, entry, now, edits, faults, kinds>>
      /\ requests < MaxRequests /\ requests' = requests + 1
  BY DEF Begins, BeginJob, BeginDiscover, BeginPut, BeginClear, BeginSave, Begin
<1>8. CASE \E q \in Processes : BeginJob(a, q) \/ BeginDiscover(a, q) \/ BeginPut(a, q)
  <2>1. PICK r \in Request : /\ Sound(r) /\ req' = [req EXCEPT ![a] = r]
                             /\ r.stage \in {"title", "put"}
    BY <1>2, <1>3, <1>4, <1>8
  <2> QED
    BY <1>7, <2>1
<1>9. CASE BeginClear(a) \/ BeginSave(a)
  <2>1. PICK r \in Request : /\ Sound(r) /\ req' = [req EXCEPT ![a] = r]
                             /\ r.stage = "entry" \/ (r.stage = "clear" /\ "legacy" \in r.todo)
    BY <1>5, <1>6, <1>9
  <2> QED
    BY <1>7, <2>1
<1> QED
  BY <1>8, <1>9 DEF Begins

\* Marking who has read the old title keeps requests sound.
LEMMA CrossedSound ==
  ASSUME TypeOK, AllSound
  PROVE  /\ Crossed \in [Actors -> Request]
         /\ \A b \in Actors : /\ Sound(Crossed[b])
                              /\ Crossed[b].stage = req[b].stage /\ Crossed[b].process = req[b].process
                              /\ Crossed[b].kind = req[b].kind /\ Crossed[b].todo = req[b].todo
                              /\ At(b, "backfill") => Crossed[b].crossed
<1>1. ASSUME NEW b \in Actors
      PROVE  /\ Crossed[b] \in Request /\ Sound(Crossed[b])
             /\ Crossed[b].stage = req[b].stage /\ Crossed[b].process = req[b].process
             /\ Crossed[b].kind = req[b].kind /\ Crossed[b].todo = req[b].todo
             /\ At(b, "backfill") => Crossed[b].crossed
  <2> DEFINE mark == req[b].crossed \/ At(b, "backfill")
             r == [req[b] EXCEPT !.crossed = mark]
  <2>1. req[b] \in Request /\ Sound(req[b]) /\ mark \in BOOLEAN
    BY DEF TypeOK, AllSound
  <2> HIDE DEF mark
  <2>2. /\ r \in Request /\ r.stage = req[b].stage /\ r.process = req[b].process
        /\ r.kind = req[b].kind /\ r.todo = req[b].todo /\ r.title = req[b].title
        /\ r.found = req[b].found /\ r.saved = req[b].saved /\ r.crossed = mark
    BY <2>1 DEF Request
  <2>3. Sound(r)
    BY <2>1, <2>2 DEF Sound
  <2>4. Crossed[b] = r
    BY DEF Crossed, mark
  <2>5. At(b, "backfill") => mark
    BY DEF mark
  <2> QED
    BY <2>2, <2>3, <2>4, <2>5
<1>2. Crossed = [b \in Actors |-> Crossed[b]]
  BY DEF Crossed
<1> QED
  BY <1>1, <1>2

\* The last command of a PUT.
LEMMA DropRequests ==
  ASSUME TypeOK, AllSound, NEW a \in Actors, Drop(a)
  PROVE  /\ req' \in [Actors -> Request] /\ AllSound'
         /\ req'[a].stage = "match" /\ \A b \in Actors : b # a => req'[b] = Crossed[b]
<1> DEFINE r == [Crossed[a] EXCEPT !.stage = "match"]
<1>1. Crossed[a] \in Request /\ Crossed[a].process \in Processes
  <2>1. req[a].process \in Processes
    BY DEF Drop, At, AllSound, Sound
  <2> QED
    BY <2>1, CrossedSound DEF Sound
<1>2. r \in Request /\ r.stage = "match" /\ r.process = Crossed[a].process
  BY <1>1 DEF Request, Stages
<1>3. Sound(r)
  BY <1>1, <1>2 DEF Sound
<1>4. req' = [Crossed EXCEPT ![a] = r]
  BY DEF Drop
<1>5. req' \in [Actors -> Request] /\ req'[a] = r /\ \A b \in Actors : b # a => req'[b] = Crossed[b]
  BY <1>2, <1>4, CrossedSound
<1>6. AllSound'
  BY <1>3, <1>5, CrossedSound DEF AllSound
<1> QED
  BY <1>2, <1>5, <1>6

\* A command of a DELETE.
LEMMA ClearRequests ==
  ASSUME TypeOK, AllSound, NEW a \in Actors, Clear(a)
  PROVE  /\ req' \in [Actors -> Request] /\ AllSound'
         /\ \/ req'[a] = NoRequest
            \/ \E c \in req[a].todo : /\ req'[a].stage = "clear" /\ req'[a].kind = req[a].kind
                                      /\ req'[a].todo = req[a].todo \ {c}
                                      /\ c = "legacy" => legacy' = NoTitle
         /\ \A b \in Actors : b # a => req'[b] \in {req[b], Crossed[b]}
         /\ migrated' # migrated => \A b \in Actors : b # a => req'[b] = Crossed[b]
<1>0. req[a] \in Request /\ Sound(req[a]) /\ req[a].stage = "clear" /\ req \in [Actors -> Request]
  BY DEF Clear, At, TypeOK, AllSound
<1>1. PICK c \in req[a].todo :
        /\ c # "title" => legacy' = NoTitle
        /\ migrated' = (migrated \/ (req[a].todo = {c} /\ req[a].kind = "clear"))
        /\ req' = [(IF req[a].todo = {c} /\ req[a].kind = "clear" THEN Crossed ELSE req) EXCEPT
                    ![a] = IF req[a].todo = {c} THEN NoRequest ELSE [req[a] EXCEPT !.todo = @ \ {c}]]
  BY DEF Clear
<1> DEFINE ended == req[a].todo = {c} /\ req[a].kind = "clear"
           base == IF ended THEN Crossed ELSE req
           rest == [req[a] EXCEPT !.todo = req[a].todo \ {c}]
           r == IF req[a].todo = {c} THEN NoRequest ELSE rest
<1>2. base \in [Actors -> Request] /\ \A b \in Actors : Sound(base[b])
  BY <1>0, CrossedSound DEF AllSound
<1>4. req' = [base EXCEPT ![a] = r]
  BY <1>1
<1>6. \A b \in Actors : base[b] \in {req[b], Crossed[b]}
  OBVIOUS
<1>7. migrated' # migrated => base = Crossed
  <2>1. migrated' # migrated => ended
    BY <1>1 DEF TypeOK
  <2> QED
    BY <2>1
<1> HIDE DEF base
<1>8. rest \in Request /\ rest.stage = "clear" /\ rest.todo = req[a].todo \ {c} /\ rest.kind = req[a].kind
  BY <1>0 DEF Request
<1>9. Sound(rest)
  BY <1>8 DEF Sound
<1> HIDE DEF rest
<1>10. r \in Request /\ Sound(r) /\ (r = NoRequest \/ r = rest)
  BY <1>8, <1>9, NoRequestSound DEF Sound
<1> HIDE DEF r
<1>11. req' \in [Actors -> Request] /\ req'[a] = r /\ \A b \in Actors : b # a => req'[b] = base[b]
  BY <1>2, <1>4, <1>10
<1>12. AllSound'
  BY <1>2, <1>10, <1>11 DEF AllSound
<1>13. c = "legacy" => legacy' = NoTitle
  BY <1>1
<1> QED
  BY <1>1, <1>6, <1>7, <1>8, <1>10, <1>11, <1>12, <1>13

\* A command that fails.
LEMMA StopRequests ==
  ASSUME TypeOK, AllSound, NEW a \in Actors, Stop(a)
  PROVE  \E r \in Request : /\ Sound(r) /\ req' = [req EXCEPT ![a] = r]
                            /\ r.stage = "idle" \/ (r.stage = "clear" /\ r.kind = "aborted")
<1>0. req[a] \in Request /\ NoRequest \in Request
  BY NoRequestSound DEF TypeOK, Sound
<1>1. CASE Ends(a)
  BY <1>0, <1>1, NoRequestSound DEF Ends
<1>2. CASE ~Ends(a)
  <2>1. PICK c \in req[a].todo :
          req' = [req EXCEPT ![a] = IF @.todo = {c} THEN NoRequest
                    ELSE [req[a] EXCEPT !.kind = "aborted", !.todo = @ \ {c}]]
    BY <1>2 DEF Stop
  <2>2. At(a, "clear")
    BY <1>2 DEF Stop
  <2> DEFINE r == [req[a] EXCEPT !.kind = "aborted", !.todo = req[a].todo \ {c}]
  <2>3. r \in Request /\ r.stage = "clear" /\ r.kind = "aborted"
    BY <1>0, <2>2 DEF Request, At
  <2>4. Sound(r)
    BY <2>3 DEF Sound
  <2>5. req' = [req EXCEPT ![a] = r] \/ Ends(a)
    BY <2>1 DEF Ends
  <2> QED
    BY <1>2, <2>3, <2>4, <2>5
<1> QED
  BY <1>1, <1>2

-----------------------------------------------------------------------------
(* Types.                                                                  *)

LEMMA TypeInit == Init => TypeOK /\ AllSound
<1> SUFFICES ASSUME Init PROVE TypeOK /\ AllSound
  OBVIOUS
<1> USE NumbersHold
<1>1. /\ Unseeded \in Seedings /\ NoCache \in [at : -Ttl..MaxTime, items : SUBSET Roles]
      /\ -Ttl \in -Ttl..MaxTime
  BY DEF Unseeded, Seedings, NoCache
<1>2. active \subseteq Roles /\ recs \subseteq Roles
  BY PickHolds DEF Init
<1>3. req \in [Actors -> Request] /\ AllSound
  BY NoRequestSound DEF Init, AllSound, Sound
<1>4. /\ title \in Titles \cup {Old, NoTitle} /\ chosen \in Titles \cup {NoTitle}
      /\ legacy \in {Old, NoTitle} /\ migrated \in BOOLEAN
  BY DEF Init
<1>5. /\ now \in 0..MaxTime /\ entry \in 0..MaxSaved /\ requests \in 0..MaxRequests
      /\ edits \in 0..MaxEdits /\ faults \in 0..MaxFaults
  BY DEF Init
<1>6. /\ seed \in [Processes -> Seedings] /\ version \in [Processes -> Versions]
      /\ cache \in [Processes -> [at : -Ttl..MaxTime, items : SUBSET Roles]]
      /\ goneAt \in [Roles -> -Ttl..MaxTime] /\ kinds \in Together
  BY <1>1 DEF Init
<1> QED
  BY <1>2, <1>3, <1>4, <1>5, <1>6 DEF TypeOK

\* Marking processes of other versions keeps the type of their seedings.
LEMMA MixesHolds ==
  ASSUME TypeOK, NEW q \in Processes
  PROVE  /\ Mixes(q) \in [Processes -> Seedings]
         /\ \A p \in Processes :
              /\ Mixes(q)[p].stage = seed[p].stage /\ Mixes(q)[p].todo = seed[p].todo
              /\ Mixes(q)[p].mixed <=> seed[p].mixed \/ (version[p] # version[q] /\ seed[p].stage \in {"upsert", "retire", "done"})
<1>1. ASSUME NEW p \in Processes
      PROVE  /\ Mixes(q)[p] \in Seedings
             /\ Mixes(q)[p].stage = seed[p].stage /\ Mixes(q)[p].todo = seed[p].todo
             /\ Mixes(q)[p].mixed <=> seed[p].mixed \/ (version[p] # version[q] /\ seed[p].stage \in {"upsert", "retire", "done"})
  <2> DEFINE mark == seed[p].mixed \/ (version[p] # version[q] /\ seed[p].stage \in {"upsert", "retire", "done"})
             m == [seed[p] EXCEPT !.mixed = mark]
  <2>1. seed[p] \in Seedings /\ mark \in BOOLEAN
    BY DEF TypeOK
  <2>2. Mixes(q)[p] = m
    BY DEF Mixes
  <2> HIDE DEF mark
  <2>3. m \in Seedings /\ m.stage = seed[p].stage /\ m.todo = seed[p].todo /\ m.mixed = mark
    BY <2>1 DEF Seedings
  <2>4. Mixes(q)[p].mixed = mark
    BY <2>2, <2>3
  <2>5. mark = (seed[p].mixed \/ (version[p] # version[q] /\ seed[p].stage \in {"upsert", "retire", "done"}))
    BY DEF mark
  <2>6. Mixes(q)[p].mixed <=> (seed[p].mixed \/ (version[p] # version[q] /\ seed[p].stage \in {"upsert", "retire", "done"}))
    BY <2>4, <2>5
  <2> QED
    BY <2>2, <2>3, <2>6
<1>2. Mixes(q) = [p \in Processes |-> Mixes(q)[p]]
  BY DEF Mixes
<1> QED
  BY <1>1, <1>2

\* A step of a seeding.
LEMMA VisitSeeds ==
  ASSUME TypeOK, NEW q \in Processes, NEW r, seed' = [Mixes(q) EXCEPT ![q].todo = @ \ {r}]
  PROVE  /\ seed' \in [Processes -> Seedings]
         /\ \A p \in Processes :
              /\ seed'[p].stage = seed[p].stage
              /\ seed'[p].todo = IF p = q THEN seed[p].todo \ {r} ELSE seed[p].todo
              /\ seed'[p].mixed <=> seed[p].mixed \/ (version[p] # version[q] /\ seed[p].stage \in {"upsert", "retire", "done"})
<1> DEFINE m == [Mixes(q)[q] EXCEPT !.todo = Mixes(q)[q].todo \ {r}]
<1>1. Mixes(q)[q] \in Seedings
  BY MixesHolds
<1>2. /\ m \in Seedings /\ m.stage = Mixes(q)[q].stage /\ m.todo = Mixes(q)[q].todo \ {r}
      /\ m.mixed = Mixes(q)[q].mixed
  BY <1>1 DEF Seedings
<1>3. seed' = [Mixes(q) EXCEPT ![q] = m]
  OBVIOUS
<1> HIDE DEF m
<1>4. seed' \in [Processes -> Seedings] /\ \A p \in Processes : seed'[p] = IF p = q THEN m ELSE Mixes(q)[p]
  BY <1>2, <1>3, MixesHolds
<1> QED
  BY <1>2, <1>4, MixesHolds

LEMMA TypeStep == TypeOK /\ AllSound /\ [Next]_vars => TypeOK' /\ AllSound'
<1> SUFFICES ASSUME TypeOK, AllSound, [Next]_vars PROVE TypeOK' /\ AllSound'
  OBVIOUS
<1> USE NumbersHold DEF procs, catalogDocs, job, bounds
<1>0. \A a \in Actors : req[a] \in Request /\ Sound(req[a])
  BY DEF TypeOK, AllSound
<1>1. ASSUME NEW a \in Actors, Begins(a) PROVE TypeOK' /\ AllSound'
  <2>1. Becomes(a, Stages)
    BY <1>1, BeginsBecome DEF Becomes, Request
  <2>2. req' \in [Actors -> Request] /\ AllSound'
    BY <2>1, BecomesSound
  <2>3. requests' \in 0..MaxRequests
    BY <1>1, BeginsBecome DEF TypeOK
  <2>4. UNCHANGED <<procs, catalogDocs, job, entry, now, edits, faults, kinds>>
    BY <1>1, BeginsBecome
  <2> QED
    BY <2>2, <2>3, <2>4 DEF TypeOK
<1>2. ASSUME NEW a \in Actors, Asks(a) PROVE TypeOK' /\ AllSound'
  <2>1. Becomes(a, Stages)
    <3>1. CASE ReadLegacy(a)
      BY <3>1, ReadLegacyBecomes DEF Becomes, Stages
    <3>2. CASE ~ReadLegacy(a)
      BY <1>2, <3>2, AsksBecome DEF Becomes
    <3> QED
      BY <3>1, <3>2
  <2>2. req' \in [Actors -> Request] /\ AllSound'
    BY <2>1, BecomesSound
  <2>3. UNCHANGED <<procs, catalogDocs, job, entry, bounds>>
    BY <1>2 DEF Asks, ReadTitle, ReadLegacy, Load, Find, ReadStored, Answer, Send, ReadEntry
  <2> QED
    BY <2>2, <2>3 DEF TypeOK
<1>3. ASSUME NEW a \in Actors, Backfill(a) \/ Put(a) PROVE TypeOK' /\ AllSound'
  <2>1. req[a].process \in Processes /\ req[a].title \in Titles \cup {Old, NoTitle}
    BY <1>0, <1>3 DEF Backfill, Put, At, Sound, Request
  <2>2. Becomes(a, Stages)
    <3>1. CASE Backfill(a)
      BY <2>1, <3>1, WithoutMatchBecomes DEF Backfill, Becomes, Stages
    <3>2. CASE Put(a)
      BY <2>1, <3>2, GoesBecomes DEF Put, Becomes, Working, Stages
    <3> QED
      BY <1>3, <3>1, <3>2
  <2>3. req' \in [Actors -> Request] /\ AllSound'
    BY <2>2, BecomesSound
  <2>4. Put(a) => req[a].title \in Titles
    BY <1>0 DEF Put, At, Sound
  <2> QED
    BY <1>3, <2>1, <2>3, <2>4 DEF Backfill, Put, TypeOK
<1>4. ASSUME NEW a \in Actors, Drop(a) PROVE TypeOK' /\ AllSound'
  <2>1. req' \in [Actors -> Request] /\ AllSound'
    BY <1>4, DropRequests
  <2> QED
    BY <1>4, <2>1 DEF Drop, TypeOK
<1>5. ASSUME NEW a \in Actors, Clear(a) PROVE TypeOK' /\ AllSound'
  <2>1. req' \in [Actors -> Request] /\ AllSound'
    BY <1>5, ClearRequests
  <2>2. /\ title' \in Titles \cup {Old, NoTitle} /\ chosen' \in Titles \cup {NoTitle}
        /\ legacy' \in {Old, NoTitle} /\ migrated' \in BOOLEAN
    BY <1>5 DEF Clear, TypeOK
  <2> QED
    BY <1>5, <2>1, <2>2 DEF Clear, TypeOK
<1>6. ASSUME NEW a \in Actors, AwaitSeed(a) PROVE TypeOK' /\ AllSound'
  <2>1. req[a].process \in Processes
    BY <1>0, <1>6 DEF AwaitSeed, Sound
  <2>2. CASE UNCHANGED req
    <3>1. [stage |-> "upsert", todo |-> Seeds[version[req[a].process]], mixed |-> FALSE] \in Seedings
      BY <2>1 DEF Seedings, TypeOK
    <3>2. seed' \in [Processes -> Seedings]
      BY <1>6, <3>1 DEF AwaitSeed, TypeOK
    <3> QED
      BY <1>6, <2>2, <3>2 DEF AwaitSeed, TypeOK, AllSound
  <2>3. CASE Ends(a) /\ UNCHANGED seed
    <3>1. req' \in [Actors -> Request] /\ AllSound'
      BY <2>3, EndsBecomes, BecomesSound
    <3> QED
      BY <1>6, <2>3, <3>1 DEF AwaitSeed, TypeOK
  <2> QED
    BY <1>6, <2>2, <2>3 DEF AwaitSeed
<1>7. ASSUME NEW a \in Actors, Keep(a) PROVE TypeOK' /\ AllSound'
  <2>1. req[a].process \in Processes /\ req[a].catalog \in SUBSET Roles /\ req[a].at \in 0..MaxTime
    BY <1>0, <1>7 DEF Keep, At, Sound, Request
  <2>2. Becomes(a, {"idle", "roles", "cached"})
    BY <1>7, <2>1, LoadedBecomes DEF Keep
  <2>3. req' \in [Actors -> Request] /\ AllSound'
    BY <2>2, BecomesSound
  <2>4. [at |-> req[a].at, items |-> req[a].catalog] \in [at : -Ttl..MaxTime, items : SUBSET Roles]
    BY <2>1
  <2>5. cache' \in [Processes -> [at : -Ttl..MaxTime, items : SUBSET Roles]]
    BY <1>7, <2>4 DEF Keep, TypeOK
  <2> QED
    BY <1>7, <2>3, <2>5 DEF Keep, TypeOK
<1>8. ASSUME NEW a \in Actors, StoreRecs(a) PROVE TypeOK' /\ AllSound'
  <2>1. req[a].process \in Processes /\ req[a].picked \in SUBSET Roles
    BY <1>0, <1>8 DEF StoreRecs, At, Sound, Request
  <2>2. Becomes(a, {"answer"})
    BY <1>8, <2>1, GoesBecomes DEF StoreRecs, Working, Stages
  <2>3. req' \in [Actors -> Request] /\ AllSound'
    BY <2>2, BecomesSound
  <2> QED
    BY <1>8, <2>1, <2>3 DEF StoreRecs, TypeOK
<1>9. ASSUME NEW a \in Actors, Save(a) PROVE TypeOK' /\ AllSound'
  <2>1. req' \in [Actors -> Request] /\ AllSound'
    BY <1>9, EndsBecomes, BecomesSound DEF Save
  <2>2. req[a].saved \in 0..MaxSaved
    BY <1>0 DEF Request
  <2> QED
    BY <1>9, <2>1, <2>2 DEF Save, TypeOK
<1>10. ASSUME NEW a \in Actors, Stop(a) PROVE TypeOK' /\ AllSound'
  <2>1. Becomes(a, Stages)
    BY <1>10, StopRequests DEF Becomes, Request
  <2>2. req' \in [Actors -> Request] /\ AllSound'
    BY <2>1, BecomesSound
  <2>3. faults' \in 0..MaxFaults
    <3>1. Fault
      BY <1>10 DEF Stop
    <3> QED
      BY <3>1 DEF Fault, TypeOK
  <2>4. UNCHANGED <<procs, catalogDocs, job, entry, now, requests, edits, kinds>>
    BY <1>10 DEF Stop
  <2> QED
    BY <2>2, <2>3, <2>4 DEF TypeOK
<1>11. ASSUME NEW q \in Processes, NEW r \in Roles, UpsertRole(q, r) \/ RetireRole(q, r)
       PROVE  TypeOK' /\ AllSound'
  <2>1. seed' \in [Processes -> Seedings]
    BY <1>11, VisitSeeds DEF UpsertRole, RetireRole
  <2>2. active' \subseteq Roles /\ goneAt' \in [Roles -> -Ttl..MaxTime]
    BY <1>11 DEF UpsertRole, RetireRole, TypeOK
  <2> QED
    BY <1>11, <2>1, <2>2 DEF UpsertRole, RetireRole, TypeOK, AllSound
<1>12. ASSUME NEW q \in Processes, EndCommand(q) \/ SeedFails(q) PROVE TypeOK' /\ AllSound'
  <2>1. seed[q] \in Seedings /\ Roles \ Seeds[version[q]] \in SUBSET Roles
    BY DEF TypeOK
  <2>2. /\ [seed[q] EXCEPT !.stage = "retire", !.todo = Roles \ Seeds[version[q]]] \in Seedings
        /\ [seed[q] EXCEPT !.stage = "done"] \in Seedings
        /\ [seed[q] EXCEPT !.stage = "failed", !.todo = {}] \in Seedings
    BY <2>1 DEF Seedings
  <2>3. seed' \in [Processes -> Seedings]
    BY <1>12, <2>2 DEF EndCommand, SeedFails, TypeOK
  <2>4. cache' \in [Processes -> [at : -Ttl..MaxTime, items : SUBSET Roles]]
    BY <1>12 DEF EndCommand, SeedFails, TypeOK, NoCache
  <2> QED
    BY <1>12, <2>3, <2>4 DEF EndCommand, SeedFails, Fault, TypeOK, AllSound
<1>13. ASSUME NEW q \in Processes, Die(q) PROVE TypeOK' /\ AllSound'
  <2>1. /\ req' \in [Actors -> Request]
        /\ \A a \in Actors : req'[a] = req[a] \/ req'[a] = NoRequest
    BY <1>0, <1>13, NoRequestSound DEF Die, Sound
  <2>2. AllSound'
    BY <1>0, <2>1, NoRequestSound DEF AllSound
  <2>3. Unseeded \in Seedings /\ NoCache \in [at : -Ttl..MaxTime, items : SUBSET Roles]
    BY DEF Unseeded, Seedings, NoCache
  <2>4. /\ version' \in [Processes -> Versions] /\ seed' \in [Processes -> Seedings]
        /\ cache' \in [Processes -> [at : -Ttl..MaxTime, items : SUBSET Roles]]
    BY <1>13, <2>3 DEF Die, TypeOK
  <2> QED
    BY <1>13, <2>1, <2>2, <2>4 DEF Die, Fault, TypeOK
<1>14. CASE EditTitle \/ RemoveEntry \/ Tick
  BY <1>14 DEF EditTitle, RemoveEntry, Tick, TypeOK, AllSound
<1>15. CASE ListShortlist \/ UNCHANGED vars
  BY <1>15 DEF ListShortlist, vars, TypeOK, AllSound
<1> QED
  BY <1>1, <1>2, <1>3, <1>4, <1>5, <1>6, <1>7, <1>8, <1>9, <1>10, <1>11, <1>12, <1>13, <1>14, <1>15
  DEF Next, Begins, Asks, SeedNext

-----------------------------------------------------------------------------
(* The current job.                                                        *)

\* A request changes only itself, and comes neither to the backfill nor to a DELETE.
LEMMA AsideJob ==
  ASSUME JobMoved, NEW a \in Actors, UNCHANGED <<legacy, migrated>>,
         req'[a].stage \notin {"backfill", "clear"}, \A b \in Actors : b # a => req'[b] = req[b]
  PROVE  JobMoved'
<1>1. ASSUME NEW b \in Actors
      PROVE  /\ migrated /\ At(b, "backfill")' => req'[b].crossed
             /\ At(b, "clear")' /\ req'[b].kind = "clear" /\ "legacy" \notin req'[b].todo => legacy = NoTitle
  <2>1. CASE b = a
    BY <2>1 DEF At
  <2>2. CASE b # a
    BY <2>2 DEF JobMoved, At
  <2> QED
    BY <2>1, <2>2
<1> QED
  BY <1>1 DEF JobMoved

LEMMA JobStep == TypeOK /\ AllSound /\ JobMoved /\ [Next]_vars => JobMoved'
<1> SUFFICES ASSUME TypeOK, AllSound, JobMoved, [Next]_vars PROVE JobMoved'
  OBVIOUS
<1> USE DEF job
<1>1. ASSUME NEW a \in Actors, Begins(a) PROVE JobMoved'
  <2>1. PICK r \in Request : /\ req' = [req EXCEPT ![a] = r] /\ r.stage # "backfill"
                             /\ r.stage = "clear" => "legacy" \in r.todo
    BY <1>1, BeginsBecome
  <2>2. req'[a] = r /\ \A b \in Actors : b # a => req'[b] = req[b]
    BY <2>1 DEF TypeOK
  <2>3. UNCHANGED <<legacy, migrated>>
    BY <1>1, BeginsBecome
  <2>4. ASSUME NEW b \in Actors
        PROVE  /\ migrated /\ At(b, "backfill")' => req'[b].crossed
               /\ At(b, "clear")' /\ req'[b].kind = "clear" /\ "legacy" \notin req'[b].todo => legacy = NoTitle
    <3>1. CASE b = a
      BY <2>1, <2>2, <3>1 DEF At
    <3>2. CASE b # a
      BY <2>2, <3>2 DEF JobMoved, At
    <3> QED
      BY <3>1, <3>2
  <2> QED
    BY <2>3, <2>4 DEF JobMoved
<1>2. ASSUME NEW a \in Actors, Asks(a) PROVE JobMoved'
  <2>0. UNCHANGED <<legacy, migrated>>
    BY <1>2 DEF Asks, ReadTitle, ReadLegacy, Load, Find, ReadStored, Answer, Send, ReadEntry
  <2>1. CASE ReadLegacy(a) /\ ~migrated
    <3>1. Becomes(a, {"idle", "roles", "backfill"})
      BY <2>1, ReadLegacyBecomes DEF Becomes
    <3>2. req'[a].stage # "clear" /\ \A b \in Actors : b # a => req'[b] = req[b]
      BY <3>1, BecomesSound
    <3> QED
      BY <2>0, <2>1, <3>2 DEF JobMoved, At
  <2>2. CASE ReadLegacy(a) /\ migrated
    <3>1. Becomes(a, {"idle", "roles"})
      BY <2>2, ReadLegacyBecomes DEF JobMoved
    <3> QED
      BY <2>0, <3>1, BecomesSound, AsideJob
  <2>3. CASE ~ReadLegacy(a)
    <3>1. Becomes(a, Stages \ {"backfill", "put", "clear"})
      BY <1>2, <2>3, AsksBecome
    <3> QED
      BY <2>0, <3>1, BecomesSound, AsideJob
  <2> QED
    BY <2>1, <2>2, <2>3
<1>3. ASSUME NEW a \in Actors, Backfill(a) \/ Put(a) \/ Keep(a) \/ StoreRecs(a) \/ Save(a) PROVE JobMoved'
  <2>1. Becomes(a, {"idle", "roles", "drop", "cached", "answer"})
    <3>1. ~Save(a) => req[a].process \in Processes /\ req[a].catalog \in SUBSET Roles
      BY <1>3 DEF Backfill, Put, Keep, StoreRecs, At, AllSound, Sound, Request
    <3>2. CASE Backfill(a)
      BY <1>3, <3>1, <3>2, WithoutMatchBecomes DEF Backfill, Save, At, Becomes
    <3>3. CASE Put(a) \/ StoreRecs(a)
      <4>1. PICK stage \in {"drop", "answer"} : Goes(a, stage)
        BY <3>3 DEF Put, StoreRecs
      <4>2. Becomes(a, {stage})
        BY <3>1, <3>3, <4>1, GoesBecomes DEF Put, StoreRecs, Save, At, Working, Stages
      <4> QED
        BY <4>2 DEF Becomes
    <3>4. CASE Keep(a)
      <4>1. Becomes(a, {"idle", "roles", "cached"})
        BY <3>1, <3>4, LoadedBecomes DEF Keep, Save, At
      <4> QED
        BY <4>1 DEF Becomes
    <3>5. CASE Save(a)
      BY <3>5, EndsBecomes DEF Save, Becomes
    <3> QED
      BY <1>3, <3>2, <3>3, <3>4, <3>5
  <2>2. UNCHANGED <<legacy, migrated>>
    BY <1>3 DEF Backfill, Put, Keep, StoreRecs, Save
  <2> QED
    BY <2>1, <2>2, BecomesSound, AsideJob
<1>4. ASSUME NEW a \in Actors, Drop(a) PROVE JobMoved'
  <2>1. legacy' = NoTitle /\ migrated' = TRUE
    BY <1>4 DEF Drop
  <2>2. ASSUME NEW b \in Actors, At(b, "backfill")' PROVE req'[b].crossed
    BY <1>4, <2>2, DropRequests, CrossedSound DEF At
  <2> QED
    BY <2>1, <2>2 DEF JobMoved
<1>5. ASSUME NEW a \in Actors, Clear(a) PROVE JobMoved'
  <2>0. legacy' \in {legacy, NoTitle} /\ migrated \in BOOLEAN /\ migrated' \in BOOLEAN
    BY <1>5 DEF Clear, TypeOK
  <2>1. migrated' => legacy' = NoTitle
    <3>1. CASE migrated
      BY <2>0, <3>1 DEF JobMoved
    <3>2. CASE ~migrated
      <4>1. ASSUME migrated'
            PROVE  legacy' = NoTitle
        <5>1. PICK c \in req[a].todo :
                /\ req[a].todo = {c} /\ req[a].kind = "clear"
                /\ c # "title" => legacy' = NoTitle
          BY <1>5, <3>2, <4>1 DEF Clear
        <5>2. c = "title" => "legacy" \notin req[a].todo
          BY <5>1
        <5>3. At(a, "clear")
          BY <1>5 DEF Clear
        <5> QED
          BY <2>0, <5>1, <5>2, <5>3 DEF JobMoved
      <4> QED
        BY <4>1
    <3> QED
      BY <3>1, <3>2
  <2>2. ASSUME NEW b \in Actors, migrated', At(b, "backfill")' PROVE req'[b].crossed
    <3>1. b # a /\ req'[b] \in {req[b], Crossed[b]} /\ (migrated' # migrated => req'[b] = Crossed[b])
      BY <1>5, <2>2, ClearRequests, NoRequestSound DEF At
    <3>2. At(b, "backfill")
      BY <2>2, <3>1, CrossedSound DEF At
    <3>3. Crossed[b].crossed
      BY <3>2, CrossedSound
    <3>4. CASE req'[b] = Crossed[b]
      BY <3>3, <3>4
    <3>5. CASE req'[b] = req[b]
      <4>1. CASE migrated
        BY <3>2, <3>5, <4>1 DEF JobMoved
      <4>2. CASE ~migrated
        BY <2>2, <3>1, <3>3, <4>2
      <4> QED
        BY <4>1, <4>2
    <3> QED
      BY <3>1, <3>4, <3>5
  <2>3. ASSUME NEW b \in Actors, At(b, "clear")', req'[b].kind = "clear", "legacy" \notin req'[b].todo
        PROVE  legacy' = NoTitle
    <3>1. CASE b = a
      <4>1. PICK c \in req[a].todo : /\ req'[a].todo = req[a].todo \ {c} /\ req'[a].kind = req[a].kind
                                     /\ c = "legacy" => legacy' = NoTitle
        BY <1>5, <2>3, <3>1, ClearRequests, NoRequestSound DEF At
      <4>2. At(a, "clear")
        BY <1>5 DEF Clear
      <4>3. c # "legacy" => "legacy" \notin req[a].todo
        BY <2>3, <3>1, <4>1
      <4> QED
        BY <2>0, <2>3, <3>1, <4>1, <4>2, <4>3 DEF JobMoved
    <3>2. CASE b # a
      <4>1. At(b, "clear") /\ req[b].kind = "clear" /\ "legacy" \notin req[b].todo
        BY <1>5, <2>3, <3>2, ClearRequests, CrossedSound DEF At
      <4> QED
        BY <2>0, <4>1 DEF JobMoved
    <3> QED
      BY <3>1, <3>2
  <2> QED
    BY <2>1, <2>2, <2>3 DEF JobMoved
<1>6. ASSUME NEW a \in Actors, Stop(a) PROVE JobMoved'
  <2>1. PICK r \in Request : /\ req' = [req EXCEPT ![a] = r]
                             /\ r.stage = "idle" \/ (r.stage = "clear" /\ r.kind = "aborted")
    BY <1>6, StopRequests
  <2>2. req'[a] = r /\ \A b \in Actors : b # a => req'[b] = req[b]
    BY <2>1 DEF TypeOK
  <2>3. UNCHANGED <<legacy, migrated>>
    BY <1>6 DEF Stop
  <2>4. ASSUME NEW b \in Actors
        PROVE  /\ migrated /\ At(b, "backfill")' => req'[b].crossed
               /\ At(b, "clear")' /\ req'[b].kind = "clear" /\ "legacy" \notin req'[b].todo => legacy = NoTitle
    <3>1. CASE b = a
      BY <2>1, <2>2, <3>1 DEF At
    <3>2. CASE b # a
      BY <2>2, <3>2 DEF JobMoved, At
    <3> QED
      BY <3>1, <3>2
  <2> QED
    BY <2>3, <2>4 DEF JobMoved
<1>7. ASSUME NEW a \in Actors, AwaitSeed(a) PROVE JobMoved'
  <2>1. UNCHANGED <<legacy, migrated>> /\ (UNCHANGED req \/ Ends(a))
    BY <1>7 DEF AwaitSeed
  <2>2. CASE UNCHANGED req
    BY <2>1, <2>2 DEF JobMoved, At
  <2>3. CASE Ends(a)
    BY <2>1, <2>3, EndsBecomes, BecomesSound, AsideJob
  <2> QED
    BY <2>1, <2>2, <2>3
<1>8. ASSUME NEW q \in Processes, Die(q) PROVE JobMoved'
  <2>1. \A a \in Actors : req'[a] = req[a] \/ req'[a] = NoRequest
    BY <1>8 DEF Die
  <2> QED
    BY <1>8, <2>1, NoRequestSound DEF Die, JobMoved, At
<1>9. CASE \/ \E q \in Processes : SeedNext(q) \/ SeedFails(q)
           \/ EditTitle \/ RemoveEntry \/ Tick \/ ListShortlist \/ UNCHANGED vars
  <2>1. UNCHANGED <<req, legacy, migrated>>
    BY <1>9 DEF SeedNext, SeedFails, UpsertRole, RetireRole, EndCommand, EditTitle, RemoveEntry, Tick,
       ListShortlist, vars
  <2> QED
    BY <2>1 DEF JobMoved, At
<1> QED
  BY <1>1, <1>2, <1>3, <1>4, <1>5, <1>6, <1>7, <1>8, <1>9 DEF Next, Begins, Asks

-----------------------------------------------------------------------------
(* The catalog.                                                            *)

\* A role that all versions know is one of every process.
LEMMA CommonIsOwn == ASSUME TypeOK, NEW q \in Processes PROVE Common \subseteq Own(q)
BY DEF Common, Own, TypeOK

LEMMA UpsertSeeded ==
  ASSUME TypeOK, AllSeeded, NEW q \in Processes, NEW r \in Roles, UpsertRole(q, r)
  PROVE  AllSeeded'
<1> SUFFICES ASSUME NEW p \in Processes PROVE Seeded(p)'
  BY DEF AllSeeded
<1>1. version' = version /\ active' = active \cup {r} /\ r \in Own(q) /\ seed[q].stage = "upsert"
  BY DEF UpsertRole, AllSeeded, Seeded
<1>2. Own(p)' = Own(p) /\ Seeded(p)
  BY <1>1 DEF Own, AllSeeded
<1>3. /\ seed'[p].stage = seed[p].stage
      /\ seed'[p].todo = IF p = q THEN seed[p].todo \ {r} ELSE seed[p].todo
      /\ seed'[p].mixed <=> seed[p].mixed \/ (version[p] # version[q] /\ seed[p].stage \in {"upsert", "retire", "done"})
  BY VisitSeeds DEF UpsertRole
<1>4. version[p] = version[q] => r \in Own(p)
  BY <1>1 DEF Own
<1>5. version[p] = version[q] \/ seed[p].stage \notin {"upsert", "retire", "done"} \/ seed'[p].mixed
  BY <1>3
<1>6. seed[p].mixed => seed'[p].mixed
  BY <1>3
<1>7. seed[p].stage = "upsert" =>
        /\ seed'[p].todo \subseteq Own(p)
        /\ Common \subseteq active' \cup seed'[p].todo
        /\ seed'[p].mixed \/ Own(p) \subseteq active' \cup seed'[p].todo
  BY <1>1, <1>2, <1>3, <1>6 DEF Seeded
<1>8. seed[p].stage = "retire" =>
        /\ seed'[p].todo \subseteq Roles \ Own(p)
        /\ Common \subseteq active'
        /\ seed'[p].mixed \/ (Own(p) \subseteq active' /\ active' \subseteq Own(p) \cup seed'[p].todo)
  BY <1>1, <1>2, <1>3, <1>4, <1>5, <1>6 DEF Seeded
<1>9. seed[p].stage = "done" => Common \subseteq active' /\ (seed'[p].mixed \/ active' = Own(p))
  BY <1>1, <1>2, <1>4, <1>5, <1>6 DEF Seeded
<1> QED
  BY <1>2, <1>3, <1>7, <1>8, <1>9 DEF Seeded, Common

LEMMA RetireSeeded ==
  ASSUME TypeOK, AllSeeded, NEW q \in Processes, NEW r \in Roles, RetireRole(q, r)
  PROVE  AllSeeded'
<1> SUFFICES ASSUME NEW p \in Processes PROVE Seeded(p)'
  BY DEF AllSeeded
<1>1. version' = version /\ active' = active \ {r} /\ r \notin Own(q) /\ seed[q].stage = "retire"
  BY DEF RetireRole, AllSeeded, Seeded
<1>2. Own(p)' = Own(p) /\ Seeded(p) /\ r \notin Common
  BY <1>1, CommonIsOwn DEF Own, AllSeeded
<1>3. /\ seed'[p].stage = seed[p].stage
      /\ seed'[p].todo = IF p = q THEN seed[p].todo \ {r} ELSE seed[p].todo
      /\ seed'[p].mixed <=> seed[p].mixed \/ (version[p] # version[q] /\ seed[p].stage \in {"upsert", "retire", "done"})
  BY VisitSeeds DEF RetireRole
<1>4. version[p] = version[q] => r \notin Own(p)
  BY <1>1 DEF Own
<1>5. version[p] = version[q] \/ seed[p].stage \notin {"upsert", "retire", "done"} \/ seed'[p].mixed
  BY <1>3
<1>6. seed[p].mixed => seed'[p].mixed
  BY <1>3
<1>7. seed[p].stage = "upsert" =>
        /\ seed'[p].todo \subseteq Own(p)
        /\ Common \subseteq active' \cup seed'[p].todo
        /\ seed'[p].mixed \/ Own(p) \subseteq active' \cup seed'[p].todo
  BY <1>1, <1>2, <1>3, <1>4, <1>5, <1>6 DEF Seeded
<1>8. seed[p].stage = "retire" =>
        /\ seed'[p].todo \subseteq Roles \ Own(p)
        /\ Common \subseteq active'
        /\ seed'[p].mixed \/ (Own(p) \subseteq active' /\ active' \subseteq Own(p) \cup seed'[p].todo)
  BY <1>1, <1>2, <1>3, <1>4, <1>5, <1>6 DEF Seeded
<1>9. seed[p].stage = "done" => Common \subseteq active' /\ (seed'[p].mixed \/ active' = Own(p))
  BY <1>1, <1>2, <1>4, <1>5, <1>6 DEF Seeded
<1> QED
  BY <1>2, <1>3, <1>7, <1>8, <1>9 DEF Seeded, Common

\* The catalog stays, and a seeding that goes on starts, ends or fails.
LEMMA SameCatalog ==
  ASSUME AllSeeded, active' = active, version' = version,
         \A p \in Processes : seed'[p] = seed[p] \/ Seeded(p)'
  PROVE  AllSeeded'
<1> SUFFICES ASSUME NEW p \in Processes, seed'[p] = seed[p] PROVE Seeded(p)'
  BY DEF AllSeeded
<1> QED
  BY DEF AllSeeded, Seeded, Own

LEMMA SeededStep == TypeOK /\ AllSound /\ AllSeeded /\ [Next]_vars => AllSeeded'
<1> SUFFICES ASSUME TypeOK, AllSound, AllSeeded, [Next]_vars PROVE AllSeeded'
  OBVIOUS
<1> USE DEF procs, catalogDocs
<1>0. \A p \in Processes : seed[p] \in Seedings /\ Own(p) \subseteq Roles
  BY NumbersHold DEF TypeOK, Own
<1>1. ASSUME NEW q \in Processes, NEW r \in Roles, UpsertRole(q, r) \/ RetireRole(q, r) PROVE AllSeeded'
  BY <1>1, UpsertSeeded, RetireSeeded
<1>2. ASSUME NEW q \in Processes, EndCommand(q) PROVE AllSeeded'
  <2>1. active' = active /\ version' = version /\ seed[q].todo = {} /\ Own(q)' = Own(q)
    BY <1>2 DEF EndCommand, Own
  <2>2. CASE seed[q].stage = "upsert"
    <3>1. seed' = [seed EXCEPT ![q] = [seed[q] EXCEPT !.stage = "retire", !.todo = Roles \ Own(q)]]
      BY <1>2, <2>2 DEF EndCommand, Own
    <3>2. /\ seed'[q].stage = "retire" /\ seed'[q].todo = Roles \ Own(q) /\ seed'[q].mixed = seed[q].mixed
          /\ \A p \in Processes : p # q => seed'[p] = seed[p]
      BY <1>0, <3>1 DEF TypeOK, Seedings
    <3>3. Seeded(q)'
      BY <1>0, <2>1, <2>2, <3>2 DEF AllSeeded, Seeded, TypeOK
    <3> QED
      BY <2>1, <3>2, <3>3, SameCatalog
  <2>3. CASE seed[q].stage = "retire"
    <3>1. seed' = [seed EXCEPT ![q] = [seed[q] EXCEPT !.stage = "done"]]
      BY <1>2, <2>3 DEF EndCommand
    <3>2. /\ seed'[q].stage = "done" /\ seed'[q].mixed = seed[q].mixed
          /\ \A p \in Processes : p # q => seed'[p] = seed[p]
      BY <1>0, <3>1 DEF TypeOK, Seedings
    <3>3. Seeded(q)'
      BY <2>1, <2>3, <3>2 DEF AllSeeded, Seeded
    <3> QED
      BY <2>1, <3>2, <3>3, SameCatalog
  <2> QED
    BY <1>2, <2>2, <2>3 DEF EndCommand
<1>3. ASSUME NEW q \in Processes, SeedFails(q) PROVE AllSeeded'
  <2>1. seed' = [seed EXCEPT ![q] = [seed[q] EXCEPT !.stage = "failed", !.todo = {}]]
    BY <1>3 DEF SeedFails
  <2>2. seed'[q].stage = "failed" /\ \A p \in Processes : p # q => seed'[p] = seed[p]
    BY <1>0, <2>1 DEF TypeOK, Seedings
  <2>3. Seeded(q)'
    BY <2>2 DEF Seeded
  <2> QED
    BY <1>3, <2>2, <2>3, SameCatalog DEF SeedFails
<1>4. ASSUME NEW q \in Processes, Die(q) PROVE AllSeeded'
  <2> SUFFICES ASSUME NEW p \in Processes PROVE Seeded(p)'
    BY DEF AllSeeded
  <2>1. CASE p = q
    <3>1. seed'[p].stage = "none"
      BY <1>4, <2>1 DEF Die, TypeOK, Unseeded
    <3> QED
      BY <3>1 DEF Seeded
  <2>2. CASE p # q
    <3>1. seed'[p] = seed[p] /\ version'[p] = version[p] /\ active' = active
      BY <1>4, <2>2 DEF Die, TypeOK
    <3> QED
      BY <3>1 DEF AllSeeded, Seeded, Own
  <2> QED
    BY <2>1, <2>2
<1>5. ASSUME NEW a \in Actors, AwaitSeed(a) PROVE AllSeeded'
  <2>1. active' = active /\ version' = version
    BY <1>5 DEF AwaitSeed
  <2>2. CASE UNCHANGED seed
    BY <2>1, <2>2, SameCatalog
  <2>3. CASE ~UNCHANGED seed
    <3> DEFINE q == req[a].process
    <3>1. q \in Processes
      BY <1>5 DEF AwaitSeed, AllSound, Sound
    <3>2. seed' = [seed EXCEPT ![q] = [stage |-> "upsert", todo |-> Own(q), mixed |-> FALSE]]
      BY <1>5, <2>3 DEF AwaitSeed, Own
    <3>3. /\ seed'[q] = [stage |-> "upsert", todo |-> Own(q), mixed |-> FALSE]
          /\ \A p \in Processes : p # q => seed'[p] = seed[p]
      BY <3>1, <3>2 DEF TypeOK
    <3>4. seed'[q].stage = "upsert" /\ seed'[q].todo = Own(q) /\ Own(q)' = Seeds[version[q]']
      BY <3>3 DEF Own
    <3> QED
      BY <2>1, <3>1, <3>3, <3>4, SameCatalog, CommonIsOwn DEF Seeded, Own
  <2> QED
    BY <2>2, <2>3
<1>6. CASE UNCHANGED <<version, seed, active>>
  BY <1>6, SameCatalog
<1>7. ASSUME NEW a \in Actors, Begins(a) \/ Asks(a) PROVE UNCHANGED <<version, seed, active>>
  <2>1. CASE Begins(a)
    BY <2>1, BeginsBecome
  <2>2. CASE Asks(a)
    BY <2>2 DEF Asks, ReadTitle, ReadLegacy, Load, Find, ReadStored, Answer, Send, ReadEntry
  <2> QED
    BY <1>7, <2>1, <2>2
<1>8. ASSUME NEW a \in Actors,
             Backfill(a) \/ Put(a) \/ Drop(a) \/ Clear(a) \/ Keep(a) \/ StoreRecs(a) \/ Save(a) \/ Stop(a)
      PROVE  UNCHANGED <<version, seed, active>>
  BY <1>8 DEF Backfill, Put, Drop, Clear, Keep, StoreRecs, Save, Stop
<1>9. CASE EditTitle \/ RemoveEntry \/ Tick \/ ListShortlist \/ UNCHANGED vars
  BY <1>6, <1>9 DEF EditTitle, RemoveEntry, Tick, ListShortlist, vars
<1> QED
  BY <1>1, <1>2, <1>3, <1>4, <1>5, <1>6, <1>7, <1>8, <1>9 DEF Next, SeedNext, Begins, Asks

-----------------------------------------------------------------------------
(* The theorems.                                                           *)

IInv == TypeOK /\ AllSound /\ JobMoved /\ AllSeeded

LEMMA Inductive == Spec => []IInv
<1>1. Init => IInv
  <2> SUFFICES ASSUME Init PROVE IInv
    OBVIOUS
  <2>1. JobMoved
    BY NoRequestSound DEF Init, JobMoved, At
  <2>2. AllSeeded
    BY DEF Init, AllSeeded, Seeded, Unseeded
  <2> QED
    BY <2>1, <2>2, TypeInit DEF IInv
<1>2. IInv /\ [Next]_vars => IInv'
  BY TypeStep, JobStep, SeededStep DEF IInv
<1> QED
  BY <1>1, <1>2, PTL DEF Spec

\* The type invariant of the catalog, the job, the shortlist and the requests.
THEOREM TypeCorrect == Spec => []TypeOK
<1>1. IInv => TypeOK
  BY DEF IInv
<1> QED
  BY <1>1, Inductive, PTL

\* However many processes of however many versions seed the catalog side by side, what one
\* of them works with has the roles all versions know, and is its own unless another
\* version wrote to it.
THEOREM CatalogIsSeeded == Spec => []CatalogFollowsSeeding
<1>1. IInv => CatalogFollowsSeeding
  BY DEF IInv, AllSeeded, Seeded, Common, Own, CatalogFollowsSeeding
<1> QED
  BY <1>1, Inductive, PTL

\* A job that was set or cleared is undone only by a request that had read the old
\* collection before.
THEOREM ChosenTitleStays == Spec => StaysChosen
<1>1. IInv /\ [Next]_vars =>
        [migrated /\ title = chosen /\ title' # chosen' =>
           \E a \in Actors : At(a, "backfill") /\ req[a].crossed]_vars
  <2> SUFFICES ASSUME IInv, [Next]_vars, migrated, title = chosen, title' # chosen'
               PROVE  \E a \in Actors : At(a, "backfill") /\ req[a].crossed
    OBVIOUS
  <2>1. ASSUME NEW a \in Actors, Begins(a) \/ Asks(a) PROVE FALSE
    <3>1. title' = title /\ chosen' = chosen
      <4>1. CASE Begins(a)
        BY <4>1, BeginsBecome DEF IInv, job
      <4>2. CASE Asks(a)
        BY <4>2 DEF Asks, ReadTitle, ReadLegacy, Load, Find, ReadStored, Answer, Send, ReadEntry, job
      <4> QED
        BY <2>1, <4>1, <4>2
    <3> QED
      BY <3>1
  <2>a. ASSUME NEW a \in Actors,
               Put(a) \/ Drop(a) \/ Clear(a) \/ AwaitSeed(a) \/ Keep(a) \/ StoreRecs(a) \/ Save(a) \/ Stop(a)
        PROVE  FALSE
    <3>1. CASE Clear(a)
      BY <3>1 DEF Clear
    <3>2. CASE ~Clear(a)
      BY <2>a, <3>2 DEF Put, Drop, AwaitSeed, Keep, StoreRecs, Save, Stop, job
    <3> QED
      BY <3>1, <3>2
  <2>b. ASSUME NEW q \in Processes, SeedNext(q) \/ SeedFails(q) \/ Die(q) PROVE FALSE
    BY <2>b DEF SeedNext, UpsertRole, RetireRole, EndCommand, SeedFails, Die, job
  <2>c. ~(EditTitle \/ RemoveEntry \/ Tick \/ ListShortlist \/ UNCHANGED vars)
    BY DEF EditTitle, RemoveEntry, Tick, ListShortlist, vars, job
  <2>2. PICK a \in Actors : Backfill(a)
    BY <2>1, <2>a, <2>b, <2>c DEF Next, Begins, Asks
  <2> QED
    BY <2>2 DEF Backfill, IInv, JobMoved, At
<1> QED
  BY <1>1, Inductive, PTL DEF Spec, StaysChosen

\* A save replaces a newer entry of the shortlist only if it has looked before that one
\* was there.
THEOREM NewestEntryStays == Spec => ShortlistKeepsNewest
<1>1. IInv /\ [Next]_vars =>
        [entry' < entry => entry' = 0 \/ \E a \in Actors : At(a, "save") /\ req[a].found # entry]_vars
  <2> SUFFICES ASSUME IInv, [Next]_vars, entry' < entry, entry' # 0
               PROVE  \E a \in Actors : At(a, "save") /\ req[a].found # entry
    OBVIOUS
  <2>0. entry \in Nat
    BY NumbersHold DEF IInv, TypeOK
  <2>1. ASSUME NEW a \in Actors, Begins(a) \/ Asks(a) PROVE FALSE
    <3>1. entry' = entry
      <4>1. CASE Begins(a)
        BY <4>1, BeginsBecome DEF IInv
      <4>2. CASE Asks(a)
        BY <4>2 DEF Asks, ReadTitle, ReadLegacy, Load, Find, ReadStored, Answer, Send, ReadEntry
      <4> QED
        BY <2>1, <4>1, <4>2
    <3> QED
      BY <2>0, <3>1
  <2>2. entry' # entry
    BY <2>0
  <2>3. PICK a \in Actors : Save(a)
    BY <2>1, <2>2 DEF Next, SeedNext, Begins, Asks, Backfill, Put, Drop, Clear, AwaitSeed, Keep, StoreRecs,
       Stop, UpsertRole, RetireRole, EndCommand, SeedFails, Die, EditTitle, RemoveEntry, Tick, ListShortlist,
       vars
  <2>4. entry' = req[a].saved /\ At(a, "save") /\ req[a].found <= req[a].saved
    BY <2>3 DEF Save, IInv, AllSound, Sound, At
  <2>5. req[a].found \in Nat /\ req[a].saved \in Nat
    BY NumbersHold DEF IInv, TypeOK, Request
  <2> QED
    BY <2>0, <2>4, <2>5
<1> QED
  BY <1>1, Inductive, PTL DEF Spec, ShortlistKeepsNewest

-----------------------------------------------------------------------------
(* How many roles are picked.                                              *)

\* Scores are distinct, so the best n of a set are n roles, or all of them.
LEMMA BestCount ==
  ASSUME NEW S \in SUBSET Roles, NEW n \in Nat
  PROVE  /\ IsFiniteSet(Best(S, n)) /\ Best(S, n) \subseteq S
         /\ Cardinality(Best(S, n)) >= MinOf(n, Cardinality(S))
<1>1. IsFiniteSet(S) /\ Cardinality(S) \in Nat
  BY DiscoverAssumption, FS_Subset, FS_CardinalityType
<1> DEFINE k == Cardinality(S)
           rank == [r \in S |-> Cardinality(Better(r, S))]
<1>2. ASSUME NEW r \in S PROVE IsFiniteSet(Better(r, S)) /\ rank[r] \in 0..(k - 1)
  <2>1. Score[r] \in Int
    BY DiscoverAssumption
  <2>2. Better(r, S) \in SUBSET (S \ {r})
    BY <2>1 DEF Better
  <2>3. IsFiniteSet(S \ {r}) /\ Cardinality(S \ {r}) = k - 1
    BY <1>1, FS_RemoveElement
  <2>4. IsFiniteSet(Better(r, S)) /\ Cardinality(Better(r, S)) <= k - 1
    BY <2>2, <2>3, FS_Subset
  <2>5. Cardinality(Better(r, S)) \in Nat
    BY <2>4, FS_CardinalityType
  <2> QED BY <1>1, <2>4, <2>5
<1>3. ASSUME NEW r \in S, NEW s \in S, Score[r] > Score[s] PROVE rank[r] # rank[s]
  <2>1. \A x \in S : Score[x] \in Int
    BY DiscoverAssumption
  <2>2. Better(r, S) \in SUBSET Better(s, S)
    BY <1>3, <2>1 DEF Better
  <2>3. r \in Better(s, S) /\ r \notin Better(r, S)
    BY <1>3, <2>1 DEF Better
  <2> QED BY <1>2, <2>2, <2>3, FS_Subset
<1>4. rank \in Injection(S, 0..(k - 1))
  <2>1. \A r, s \in S : r # s => Score[r] > Score[s] \/ Score[s] > Score[r]
    BY DiscoverAssumption
  <2>2. IsInjective(rank)
    BY <1>3, <2>1 DEF IsInjective
  <2>3. rank \in [S -> 0..(k - 1)]
    BY <1>2
  <2> QED BY <2>2, <2>3 DEF Injection
<1>5. IsFiniteSet(0..(k - 1)) /\ Cardinality(0..(k - 1)) = k
  <2>1. 0 \in Int /\ k - 1 \in Int /\ (IF 0 > k - 1 THEN 0 ELSE (k - 1) - 0 + 1) = k
    BY <1>1
  <2> HIDE DEF k
  <2> QED BY <2>1, FS_Interval
<1>6. rank \in Surjection(S, 0..(k - 1))
  BY <1>4, <1>5, FS_Injection
<1> DEFINE m == MinOf(n, k)
           T == {r \in S : rank[r] < m}
           top == [r \in T |-> rank[r]]
<1>7. m \in Nat /\ m <= n /\ m <= k
  BY <1>1 DEF MinOf
<1>8. T \subseteq Best(S, n) /\ Best(S, n) \subseteq S
  BY <1>2, <1>7 DEF Best
<1> HIDE DEF m
<1>9. top \in Surjection(T, 0..(m - 1))
  <2>1. \A i \in 0..(m - 1) : i \in 0..(k - 1) /\ i < m
    BY <1>1, <1>7
  <2>2. top \in [T -> 0..(m - 1)]
    BY <1>1, <1>2, <1>7
  <2>3. ASSUME NEW i \in 0..(m - 1) PROVE \E r \in T : top[r] = i
    <3>1. PICK r \in S : rank[r] = i
      BY <1>6, <2>1, <2>3 DEF Surjection
    <3> QED BY <2>1, <3>1
  <2> QED BY <2>2, <2>3 DEF Surjection
<1>10. Cardinality(0..(m - 1)) = m
  <2>1. 0 \in Int /\ m - 1 \in Int /\ (IF 0 > m - 1 THEN 0 ELSE (m - 1) - 0 + 1) = m
    BY <1>7
  <2> QED BY <2>1, FS_Interval
<1>11. IsFiniteSet(T) /\ IsFiniteSet(Best(S, n)) /\ Cardinality(T) <= Cardinality(Best(S, n))
  BY <1>1, <1>8, FS_Subset
<1>12. m <= Cardinality(T)
  BY <1>9, <1>10, <1>11, FS_Surjection
<1>13. Cardinality(T) \in Nat /\ Cardinality(Best(S, n)) \in Nat
  BY <1>11, FS_CardinalityType
<1> QED BY <1>7, <1>8, <1>11, <1>12, <1>13 DEF m

\* However many of the stored roles the catalog has lost, the recommendations are of
\* the catalog and as many as are to be shown, or all there are.
LEMMA RecommendedCount ==
  ASSUME NEW items \in SUBSET Roles, NEW catalog \in SUBSET Roles
  PROVE  /\ Recommended(items, catalog) \subseteq catalog
         /\ Cardinality(Recommended(items, catalog)) >= MinOf(Shown, Cardinality(catalog))
<1> DEFINE kept == {r \in items \cap catalog : Cardinality(Ahead(r, items) \cap catalog) < Shown}
           rest == catalog \ kept
           more == Best(rest, Shown - Cardinality(kept))
<1>1. Shown \in Nat /\ IsFiniteSet(catalog) /\ Cardinality(catalog) \in Nat
  BY DiscoverAssumption, FS_Subset, FS_CardinalityType
<1>2. kept \in SUBSET catalog /\ rest \in SUBSET catalog /\ rest \in SUBSET Roles
  OBVIOUS
<1>3. Recommended(items, catalog) = kept \cup more
  BY DEF Recommended
<1> HIDE DEF kept
<1>4. more \subseteq rest
  BY DEF Best
<1>5. /\ IsFiniteSet(kept) /\ Cardinality(kept) \in Nat
      /\ IsFiniteSet(rest) /\ Cardinality(rest) \in Nat
      /\ IsFiniteSet(more) /\ Cardinality(more) \in Nat
      /\ IsFiniteSet(kept \cup more) /\ Cardinality(kept \cup more) \in Nat
  BY <1>1, <1>2, <1>4, FS_Subset, FS_Union, FS_CardinalityType
<1>6. Cardinality(rest) = Cardinality(catalog) - Cardinality(kept)
  <2>1. catalog \cap kept = kept
    BY <1>2
  <2> QED BY <1>1, <2>1, FS_Difference
<1>7. Cardinality(kept \cup more) = Cardinality(kept) + Cardinality(more)
  <2> HIDE DEF more, rest
  <2>1. kept \cap more = {} /\ Cardinality({}) = 0
    BY <1>4, FS_EmptySet DEF rest
  <2>2. Cardinality(kept \cup more) =
          Cardinality(kept) + Cardinality(more) - Cardinality(kept \cap more)
    BY <1>5, FS_Union
  <2>3. Cardinality(kept \cap more) = 0
    BY <2>1
  <2> QED BY <1>5, <2>2, <2>3
<1>8. CASE Cardinality(kept) >= Shown
  <2> HIDE DEF more, rest
  <2>1. Cardinality(kept) + Cardinality(more) >= MinOf(Shown, Cardinality(catalog))
    BY <1>1, <1>5, <1>8 DEF MinOf
  <2> QED BY <1>2, <1>3, <1>4, <1>7, <2>1 DEF rest
<1>9. CASE ~(Cardinality(kept) >= Shown)
  <2>1. Shown - Cardinality(kept) \in Nat
    BY <1>1, <1>5, <1>9
  <2>2. Cardinality(more) >= MinOf(Shown - Cardinality(kept), Cardinality(rest))
    BY <1>2, <2>1, BestCount
  <2> HIDE DEF more, rest
  <2>3. Cardinality(kept) + Cardinality(more) >= MinOf(Shown, Cardinality(catalog))
    BY <1>1, <1>5, <1>6, <2>1, <2>2 DEF MinOf
  <2> QED BY <1>2, <1>3, <1>4, <1>7, <2>3 DEF rest
<1> QED BY <1>8, <1>9

\* So are the roles of any answer.
LEMMA AnswerCount ==
  ASSUME NEW items \in SUBSET Roles, NEW catalog \in SUBSET Roles, NEW found \in SUBSET catalog,
         NEW roles \in {Recommended(items, catalog)} \cup
                         kSubset(MinOf(Shown, Cardinality(catalog)), Best(catalog, Candidates))
  PROVE  /\ roles \cup found \subseteq catalog
         /\ Cardinality(roles \cup found) >= MinOf(Shown, Cardinality(catalog))
<1>1. /\ IsFiniteSet(catalog) /\ Cardinality(catalog) \in Nat
      /\ MinOf(Shown, Cardinality(catalog)) \in Nat
  <2>1. IsFiniteSet(catalog) /\ Cardinality(catalog) \in Nat /\ Shown \in Nat
    BY DiscoverAssumption, FS_Subset, FS_CardinalityType
  <2> QED BY <2>1 DEF MinOf
<1>2. roles \subseteq catalog /\ Cardinality(roles) >= MinOf(Shown, Cardinality(catalog))
  <2>1. CASE roles = Recommended(items, catalog)
    BY <2>1, RecommendedCount
  <2>2. CASE roles \in kSubset(MinOf(Shown, Cardinality(catalog)), Best(catalog, Candidates))
    <3>1. roles \subseteq Best(catalog, Candidates) /\ Cardinality(roles) = MinOf(Shown, Cardinality(catalog))
      BY <2>2 DEF kSubset
    <3> QED BY <1>1, <3>1 DEF Best
  <2> QED BY <2>1, <2>2
<1>3. roles \cup found \subseteq catalog
  BY <1>2
<1>4. IsFiniteSet(roles \cup found) /\ Cardinality(roles) <= Cardinality(roles \cup found)
  BY <1>1, <1>3, FS_Subset
<1>5. Cardinality(roles) \in Nat /\ Cardinality(roles \cup found) \in Nat
  BY <1>1, <1>2, <1>4, FS_Subset, FS_CardinalityType
<1> QED BY <1>1, <1>2, <1>3, <1>4, <1>5

-----------------------------------------------------------------------------
(* How old the roles of an answer are.                                     *)

\* The roles of S were active at t or later.
LiveSince(S, t) == \A r \in S : r \in active \/ goneAt[r] >= t

(***************************************************************************)
(* What a request has found is as old as its load of the catalog, which    *)
(* began after the request did, or as a cache that was young then; what it *)
(* shows comes from there.                                                 *)
(***************************************************************************)
Aged(r) ==
  /\ r.began <= now /\ r.at <= now
  /\ r.stage \in {"find", "keep"} => r.began <= r.at
  /\ r.stage = "keep" => LiveSince(r.catalog, r.at)
  /\ r.stage \in {"cached", "store", "answer"} => LiveSince(r.catalog, r.began - Ttl + 1)
  /\ r.stage # "answer" => r.shown = {}
  /\ r.shown # {} => /\ r.shown \subseteq r.catalog
                     /\ Cardinality(r.shown) >= MinOf(Shown, Cardinality(r.catalog))
AllAged == \A a \in Actors : Aged(req[a])

AgedCaches == \A q \in Processes : cache[q].at <= now /\ LiveSince(cache[q].items, cache[q].at)

\* A role leaves the catalog only at the time that is noted, and the clock does not go back.
LEMMA CatalogMoves ==
  ASSUME TypeOK, [Next]_vars
  PROVE  /\ now \in Nat /\ now' \in Nat /\ now <= now'
         /\ \A r \in Roles : IF r \in active THEN r \in active' \/ goneAt'[r] = now
                                             ELSE goneAt'[r] = goneAt[r]
<1> USE DEF catalogDocs, bounds
<1>0. now \in Nat /\ goneAt \in [Roles -> Int] /\ active \subseteq Roles
  BY NumbersHold DEF TypeOK
<1>1. CASE Tick
  BY <1>0, <1>1 DEF Tick
<1>2. ASSUME NEW q \in Processes, NEW r \in Roles, UpsertRole(q, r) \/ RetireRole(q, r)
      PROVE  /\ now' = now
             /\ \A s \in Roles : IF s \in active THEN s \in active' \/ goneAt'[s] = now
                                                 ELSE goneAt'[s] = goneAt[s]
  BY <1>0, <1>2 DEF UpsertRole, RetireRole
<1>3. CASE UNCHANGED <<active, goneAt, now>>
  BY <1>0, <1>3
<1>4. ASSUME NEW a \in Actors, Begins(a) PROVE UNCHANGED <<active, goneAt, now>>
  BY <1>4, BeginsBecome
<1>5. ASSUME NEW a \in Actors, Asks(a) PROVE UNCHANGED <<active, goneAt, now>>
  BY <1>5 DEF Asks, ReadTitle, ReadLegacy, Load, Find, ReadStored, Answer, Send, ReadEntry
<1>6. ASSUME NEW a \in Actors,
             \/ Backfill(a) \/ Put(a) \/ Drop(a) \/ Clear(a) \/ AwaitSeed(a) \/ Keep(a)
             \/ StoreRecs(a) \/ Save(a) \/ Stop(a)
      PROVE  UNCHANGED <<active, goneAt, now>>
  BY <1>6 DEF Backfill, Put, Drop, Clear, AwaitSeed, Keep, StoreRecs, Save, Stop
<1>7. ASSUME NEW q \in Processes, EndCommand(q) \/ SeedFails(q) \/ Die(q)
      PROVE  UNCHANGED <<active, goneAt, now>>
  BY <1>7 DEF EndCommand, SeedFails, Die
<1>8. CASE EditTitle \/ RemoveEntry \/ ListShortlist \/ UNCHANGED vars
  BY <1>3, <1>8 DEF EditTitle, RemoveEntry, ListShortlist, vars
<1> QED
  BY <1>0, <1>1, <1>2, <1>3, <1>4, <1>5, <1>6, <1>7, <1>8 DEF Next, Begins, Asks, SeedNext

\* What was active at a time in the past stays so.
LEMMA LiveStays ==
  ASSUME TypeOK, [Next]_vars, NEW S \in SUBSET Roles, NEW t \in Int, t <= now, LiveSince(S, t)
  PROVE  LiveSince(S, t)'
<1>1. \A r \in Roles : goneAt[r] \in Int
  BY NumbersHold DEF TypeOK
<1>2. ASSUME NEW r \in S PROVE r \in active' \/ goneAt'[r] >= t
  <2>1. CASE r \in active
    BY <2>1, CatalogMoves
  <2>2. CASE r \notin active
    BY <2>2, CatalogMoves DEF LiveSince
  <2> QED BY <2>1, <2>2
<1> QED BY <1>2 DEF LiveSince

\* The earlier the time, the more was active since.
LEMMA LiveBefore ==
  ASSUME TypeOK, NEW S \in SUBSET Roles, NEW t \in Int, NEW u \in Int, u <= t, LiveSince(S, t)
  PROVE  LiveSince(S, u)
<1>1. \A r \in S : goneAt[r] \in Int
  BY NumbersHold DEF TypeOK
<1> QED BY <1>1 DEF LiveSince

LEMMA RequestTimes ==
  ASSUME NEW r \in Request
  PROVE  /\ r.began \in Nat /\ r.at \in Nat /\ r.began - Ttl + 1 \in Int
         /\ r.began - Ttl + 1 <= r.began
         /\ r.catalog \in SUBSET Roles /\ r.shown \in SUBSET Roles /\ r.picked \in SUBSET Roles
BY NumbersHold DEF Request

LEMMA AgedStays ==
  ASSUME TypeOK, [Next]_vars, NEW r \in Request, Aged(r)
  PROVE  Aged(r)'
<1>1. /\ r.began \in Nat /\ r.at \in Nat /\ r.began - Ttl + 1 \in Int
      /\ r.began - Ttl + 1 <= r.began /\ r.catalog \in SUBSET Roles
  BY RequestTimes
<1>2. now \in Nat /\ now' \in Nat /\ now <= now'
  BY CatalogMoves
<1>3. r.began <= now /\ r.at <= now /\ r.began - Ttl + 1 <= now
  BY <1>1, <1>2 DEF Aged
<1>4. r.began <= now' /\ r.at <= now'
  BY <1>1, <1>2, <1>3
<1>5. r.stage = "keep" => LiveSince(r.catalog, r.at)'
  BY <1>1, <1>3, LiveStays DEF Aged
<1>6. r.stage \in {"cached", "store", "answer"} => LiveSince(r.catalog, r.began - Ttl + 1)'
  BY <1>1, <1>3, LiveStays DEF Aged
<1> QED BY <1>4, <1>5, <1>6 DEF Aged

\* A step after which every request is of the right age for the state before it.
LEMMA AgedStep ==
  ASSUME TypeOK, [Next]_vars, \A b \in Actors : \E r \in Request : req'[b] = r /\ Aged(r)
  PROVE  AllAged'
<1>1. ASSUME NEW b \in Actors PROVE Aged(req[b])'
  <2>1. PICK r \in Request : req'[b] = r /\ Aged(r)
    OBVIOUS
  <2>2. Aged(r)'
    BY <2>1, AgedStays
  <2> QED BY <2>1, <2>2 DEF Aged, LiveSince
<1> QED BY <1>1 DEF AllAged

\* Request a becomes one of the right age.
Ages(a) == \E r \in Request : Aged(r) /\ req' = [req EXCEPT ![a] = r]

LEMMA AgesKeeps ==
  ASSUME TypeOK, AllAged, [Next]_vars, NEW a \in Actors, Ages(a)
  PROVE  AllAged'
<1>1. PICK r \in Request : Aged(r) /\ req' = [req EXCEPT ![a] = r]
  BY DEF Ages
<1>2. \A b \in Actors : req'[b] = (IF b = a THEN r ELSE req[b]) /\ req[b] \in Request
  BY <1>1 DEF TypeOK
<1>3. \A b \in Actors : \E s \in Request : req'[b] = s /\ Aged(s)
  BY <1>1, <1>2 DEF AllAged
<1> QED BY <1>3, AgedStep

\* A request that has found nothing yet is of any age.
LEMMA BareAged ==
  ASSUME TypeOK, NEW r \in Request, r.shown = {},
         r.stage \notin {"find", "keep", "cached", "store", "answer"},
         r.began <= now, r.at <= now
  PROVE  Aged(r)
BY DEF Aged

LEMMA NoRequestAged == ASSUME TypeOK PROVE NoRequest \in Request /\ Aged(NoRequest)
<1>1. now \in Nat
  BY NumbersHold DEF TypeOK
<1>2. /\ NoRequest.shown = {} /\ NoRequest.stage = "idle" /\ NoRequest.began = 0 /\ NoRequest.at = 0
      /\ NoRequest \in Request
  BY NoRequestSound DEF NoRequest, Sound
<1> QED BY <1>1, <1>2, BareAged

LEMMA EndsAges == ASSUME TypeOK, NEW a \in Actors, Ends(a) PROVE Ages(a)
BY NoRequestAged DEF Ends, Ages

LEMMA WithoutMatchAges ==
  ASSUME TypeOK, AllAged, NEW a \in Actors, req[a].process \in Processes, WithoutMatch(a)
  PROVE  Ages(a)
<1>1. CASE Ends(a)
  BY <1>1, EndsAges
<1>2. CASE ~Ends(a)
  <2> DEFINE r == [NoRequest EXCEPT !.kind = "discover", !.stage = "roles",
                     !.process = req[a].process, !.refresh = req[a].refresh, !.began = req[a].began]
  <2>1. req[a] \in Request /\ NoRequest \in Request /\ Aged(req[a]) /\ now \in Nat
    BY NumbersHold, NoRequestAged DEF TypeOK, AllAged
  <2>2. /\ r \in Request /\ r.stage = "roles" /\ r.shown = NoRequest.shown
        /\ r.began = req[a].began /\ r.at = NoRequest.at
    BY <2>1 DEF Request, Stages
  <2>3. r.shown = {} /\ r.at = 0 /\ r.began <= now
    BY <2>1, <2>2 DEF NoRequest, Aged
  <2>4. req' = [req EXCEPT ![a] = r]
    BY <1>2 DEF WithoutMatch
  <2> HIDE DEF r
  <2>5. Aged(r)
    BY <2>1, <2>2, <2>3, BareAged
  <2> QED BY <2>2, <2>4, <2>5 DEF Ages
<1> QED BY <1>1, <1>2

\* A request that goes to a stage at which nothing is found yet.
LEMMA GoesAges ==
  ASSUME TypeOK, AllAged, NEW a \in Actors, req[a].stage # "answer",
         NEW r \in Request, r.shown = req[a].shown, r.began = req[a].began, r.at = req[a].at,
         r.stage \notin {"find", "keep", "cached", "store", "answer"},
         req' = [req EXCEPT ![a] = r]
  PROVE  Ages(a)
<1>1. Aged(req[a])
  BY DEF AllAged
<1>2. r.shown = {} /\ r.began <= now /\ r.at <= now
  BY <1>1 DEF Aged
<1>3. Aged(r)
  BY <1>2, BareAged
<1> QED BY <1>3 DEF Ages

LEMMA BeginsAge == ASSUME TypeOK, NEW a \in Actors, Begins(a) PROVE Ages(a)
<1>0. NoRequest \in Request /\ now \in Nat /\ now \in 0..MaxTime
  BY NoRequestAged, NumbersHold DEF TypeOK
<1>1. ASSUME NEW q \in Processes \cup {NoProcess}, NEW request \in Request, Begin(a, q, request),
             request.shown = {}, request.at = 0, request.stage \in {"title", "put", "clear", "entry"}
      PROVE  Ages(a)
  <2> DEFINE r == [request EXCEPT !.process = q, !.began = now]
  <2>1. /\ r \in Request /\ r.shown = {} /\ r.at = 0 /\ r.began = now
        /\ r.stage \in {"title", "put", "clear", "entry"}
    BY <1>0, <1>1 DEF Request
  <2>2. req' = [req EXCEPT ![a] = r]
    BY <1>1 DEF Begin
  <2> HIDE DEF r
  <2>3. Aged(r)
    BY <1>0, <2>1, BareAged
  <2> QED BY <2>1, <2>2, <2>3 DEF Ages
<1>a. NoRequest.shown = {} /\ NoRequest.at = 0
  BY DEF NoRequest
<1>2. ASSUME NEW q \in Processes, NEW refresh \in BOOLEAN, NEW kind \in {"job", "discover"},
             Begin(a, q, [NoRequest EXCEPT !.kind = kind, !.stage = "title", !.refresh = refresh])
      PROVE  Ages(a)
  <2> DEFINE request == [NoRequest EXCEPT !.kind = kind, !.stage = "title", !.refresh = refresh]
  <2>1. /\ request \in Request /\ request.stage = "title"
        /\ request.shown = NoRequest.shown /\ request.at = NoRequest.at
    BY <1>0 DEF Request, Stages
  <2> HIDE DEF request
  <2>2. Begin(a, q, request)
    BY <1>2 DEF request
  <2> QED BY <1>1, <1>a, <2>1, <2>2
<1>3. ASSUME NEW q \in Processes, BeginJob(a, q) PROVE Ages(a)
  <2> DEFINE request == [NoRequest EXCEPT !.kind = "job", !.stage = "title"]
  <2>1. /\ request \in Request /\ request.stage = "title"
        /\ request.shown = NoRequest.shown /\ request.at = NoRequest.at
    BY <1>0 DEF Request, Stages
  <2> HIDE DEF request
  <2>2. Begin(a, q, request)
    BY <1>3 DEF request, BeginJob
  <2> QED BY <1>1, <1>a, <2>1, <2>2
<1>4. ASSUME NEW q \in Processes, BeginDiscover(a, q) PROVE Ages(a)
  BY <1>2, <1>4 DEF BeginDiscover
<1>5. ASSUME NEW q \in Processes, BeginPut(a, q) PROVE Ages(a)
  <2>0. PICK t \in Titles : Begin(a, q, [NoRequest EXCEPT !.kind = "put", !.stage = "put", !.title = t])
    BY <1>5 DEF BeginPut
  <2> DEFINE request == [NoRequest EXCEPT !.kind = "put", !.stage = "put", !.title = t]
  <2>1. /\ request \in Request /\ request.stage = "put"
        /\ request.shown = NoRequest.shown /\ request.at = NoRequest.at
    BY <1>0 DEF Request, Stages
  <2> HIDE DEF request
  <2>2. Begin(a, q, request)
    BY <2>0 DEF request
  <2> QED BY <1>1, <1>a, <2>1, <2>2
<1>6. ASSUME BeginClear(a) PROVE Ages(a)
  <2> DEFINE request == [NoRequest EXCEPT !.kind = "clear", !.stage = "clear", !.todo = {"title", "legacy"}]
  <2>1. /\ request \in Request /\ request.stage = "clear"
        /\ request.shown = NoRequest.shown /\ request.at = NoRequest.at
    BY <1>0 DEF Request, Stages
  <2> HIDE DEF request
  <2>2. Begin(a, NoProcess, request)
    BY <1>6 DEF request, BeginClear
  <2> QED BY <1>1, <1>a, <2>1, <2>2
<1>7. ASSUME BeginSave(a) PROVE Ages(a)
  <2>0. PICK s \in 1..MaxSaved : Begin(a, NoProcess, [NoRequest EXCEPT !.kind = "save", !.stage = "entry", !.saved = s])
    BY <1>7 DEF BeginSave
  <2> DEFINE request == [NoRequest EXCEPT !.kind = "save", !.stage = "entry", !.saved = s]
  <2>a. s \in 0..MaxSaved
    BY NumbersHold
  <2>1. /\ request \in Request /\ request.stage = "entry"
        /\ request.shown = NoRequest.shown /\ request.at = NoRequest.at
    BY <1>0, <2>a DEF Request, Stages
  <2> HIDE DEF request
  <2>2. Begin(a, NoProcess, request)
    BY <2>0 DEF request
  <2> QED BY <1>1, <1>a, <2>1, <2>2
<1> QED BY <1>3, <1>4, <1>5, <1>6, <1>7 DEF Begins

\* The catalog a request has found is as old as said.
LEMMA LoadedAges ==
  ASSUME TypeOK, AllAged, NEW a \in Actors, req[a].process \in Processes, req[a].stage # "answer",
         NEW purpose, NEW catalog \in SUBSET Roles, LiveSince(catalog, req[a].began - Ttl + 1),
         Loaded(a, purpose, catalog)
  PROVE  Ages(a)
<1>1. CASE purpose = "match"
  BY <1>1, WithoutMatchAges DEF Loaded
<1>2. CASE purpose # "match" /\ catalog = {}
  <2>1. Ends(a)
    BY <1>2 DEF Loaded, Ends
  <2> QED BY <2>1, EndsAges
<1>3. CASE purpose # "match" /\ catalog # {}
  <2> DEFINE r == [req[a] EXCEPT !.stage = "cached", !.catalog = catalog]
  <2>1. req[a] \in Request /\ Aged(req[a])
    BY DEF TypeOK, AllAged
  <2>2. /\ r \in Request /\ r.stage = "cached" /\ r.catalog = catalog
        /\ r.shown = req[a].shown /\ r.began = req[a].began /\ r.at = req[a].at
    BY <2>1 DEF Request, Stages
  <2>3. req' = [req EXCEPT ![a] = r]
    BY <1>3 DEF Loaded
  <2> HIDE DEF r
  <2>4. Aged(r)
    BY <2>1, <2>2 DEF Aged
  <2> QED BY <2>2, <2>3, <2>4 DEF Ages
<1> QED BY <1>1, <1>2, <1>3

LEMMA LoadAges ==
  ASSUME TypeOK, AllSound, AllAged, AgedCaches, NEW a \in Actors, Load(a)
  PROVE  Ages(a)
<1> DEFINE q == req[a].process
<1>1. /\ req[a] \in Request /\ q \in Processes /\ Aged(req[a]) /\ req[a].stage \in {"match", "roles"}
      /\ now \in Nat /\ now \in 0..MaxTime /\ Ttl \in Nat
  BY NumbersHold DEF TypeOK, AllSound, AllAged, Sound, Load
<1>2. /\ req[a].began \in Nat /\ req[a].began <= now
      /\ cache[q].at \in Int /\ cache[q].items \in SUBSET Roles
      /\ cache[q].at <= now /\ LiveSince(cache[q].items, cache[q].at)
  BY <1>1, RequestTimes, NumbersHold DEF Aged, AgedCaches, TypeOK
<1>3. CASE req' = [req EXCEPT ![a].stage = "find", ![a].at = now, ![a].loads = req[a].stage]
  <2> DEFINE r == [req[a] EXCEPT !.stage = "find", !.at = now, !.loads = req[a].stage]
  <2>1. /\ r \in Request /\ r.stage = "find" /\ r.at = now
        /\ r.shown = req[a].shown /\ r.began = req[a].began
    BY <1>1 DEF Request, Stages
  <2>2. req' = [req EXCEPT ![a] = r]
    BY <1>3
  <2> HIDE DEF r
  <2>3. Aged(r)
    BY <1>1, <1>2, <2>1 DEF Aged
  <2> QED BY <2>1, <2>2, <2>3 DEF Ages
<1>4. CASE Loaded(a, req[a].stage, cache[q].items) /\ now - cache[q].at < Ttl
  <2>1. req[a].began - Ttl + 1 \in Int /\ req[a].began - Ttl + 1 <= cache[q].at
    BY <1>1, <1>2, <1>4
  <2>2. LiveSince(cache[q].items, req[a].began - Ttl + 1)
    BY <1>2, <2>1, LiveBefore
  <2> QED BY <1>1, <1>2, <1>4, <2>2, LoadedAges
<1> QED BY <1>3, <1>4 DEF Load

LEMMA FindAges ==
  ASSUME TypeOK, AllAged, NEW a \in Actors, Find(a)
  PROVE  Ages(a)
<1> DEFINE r == [req[a] EXCEPT !.stage = "keep", !.catalog = active]
<1>1. req[a] \in Request /\ Aged(req[a]) /\ req[a].stage = "find" /\ active \in SUBSET Roles
  BY DEF TypeOK, AllAged, Find, At
<1>2. /\ r \in Request /\ r.stage = "keep" /\ r.catalog = active
      /\ r.shown = req[a].shown /\ r.began = req[a].began /\ r.at = req[a].at
  BY <1>1 DEF Request, Stages
<1>3. req' = [req EXCEPT ![a] = r]
  BY DEF Find
<1> HIDE DEF r
<1>4. LiveSince(active, r.at)
  BY DEF LiveSince
<1>5. Aged(r)
  BY <1>1, <1>2, <1>4 DEF Aged
<1> QED BY <1>2, <1>3, <1>5 DEF Ages

LEMMA KeepAges ==
  ASSUME TypeOK, AllSound, AllAged, NEW a \in Actors, Keep(a)
  PROVE  Ages(a)
<1>1. req[a] \in Request /\ req[a].process \in Processes /\ Aged(req[a]) /\ req[a].stage = "keep"
  BY DEF TypeOK, AllSound, Sound, AllAged, Keep, At
<1>2. /\ req[a].began \in Nat /\ req[a].at \in Nat /\ req[a].began - Ttl + 1 \in Int
      /\ req[a].began - Ttl + 1 <= req[a].began /\ req[a].catalog \in SUBSET Roles
  BY <1>1, RequestTimes
<1>3. req[a].began <= req[a].at /\ LiveSince(req[a].catalog, req[a].at)
  BY <1>1 DEF Aged
<1>4. req[a].began - Ttl + 1 <= req[a].at
  BY <1>2, <1>3
<1>5. LiveSince(req[a].catalog, req[a].began - Ttl + 1)
  BY <1>2, <1>3, <1>4, LiveBefore
<1>6. Loaded(a, req[a].loads, req[a].catalog)
  BY DEF Keep
<1> QED BY <1>1, <1>2, <1>5, <1>6, LoadedAges

\* The stages after the load keep the catalog.
LEMMA LaterAges ==
  ASSUME TypeOK, AllAged, NEW a \in Actors, req[a].stage \in {"cached", "store"},
         NEW stage \in {"store", "answer"}, NEW picked \in SUBSET Roles,
         req' = [req EXCEPT ![a].stage = stage, ![a].picked = picked]
  PROVE  Ages(a)
<1> DEFINE r == [req[a] EXCEPT !.stage = stage, !.picked = picked]
<1>1. req[a] \in Request /\ Aged(req[a])
  BY DEF TypeOK, AllAged
<1>2. /\ r \in Request /\ r.stage = stage /\ r.catalog = req[a].catalog
      /\ r.shown = req[a].shown /\ r.began = req[a].began /\ r.at = req[a].at
  BY <1>1 DEF Request, Stages
<1>3. req' = [req EXCEPT ![a] = r]
  OBVIOUS
<1> HIDE DEF r
<1>4. Aged(r)
  BY <1>1, <1>2 DEF Aged
<1> QED BY <1>2, <1>3, <1>4 DEF Ages

LEMMA AnswerAges ==
  ASSUME TypeOK, AllAged, NEW a \in Actors, Answer(a)
  PROVE  Ages(a)
<1> DEFINE catalog == req[a].catalog
<1>1. /\ req[a] \in Request /\ Aged(req[a]) /\ req[a].stage = "answer"
      /\ req[a].picked \in SUBSET Roles /\ catalog \in SUBSET Roles
  BY RequestTimes DEF TypeOK, AllAged, Answer, At
<1>2. PICK found \in SUBSET catalog,
           roles \in {Recommended(req[a].picked, catalog)} \cup
                    kSubset(MinOf(Shown, Cardinality(catalog)), Best(catalog, Candidates)) :
        req' = [req EXCEPT ![a].shown = roles \cup found, ![a].picked = {}]
  BY DEF Answer
<1> DEFINE shown == roles \cup found
           r == [req[a] EXCEPT !.shown = shown, !.picked = {}]
<1>3. shown \subseteq catalog /\ Cardinality(shown) >= MinOf(Shown, Cardinality(catalog))
  BY <1>1, <1>2, AnswerCount
<1>4. req' = [req EXCEPT ![a] = r]
  BY <1>2
<1> HIDE DEF shown
<1>5. /\ r \in Request /\ r.stage = "answer" /\ r.catalog = catalog /\ r.shown = shown
      /\ r.began = req[a].began /\ r.at = req[a].at
  BY <1>1, <1>3 DEF Request
<1> HIDE DEF r
<1>6. Aged(r)
  BY <1>1, <1>3, <1>5 DEF Aged
<1> QED BY <1>4, <1>5, <1>6 DEF Ages

\* Marking those who have read the old title changes no age.
LEMMA CrossedAged ==
  ASSUME TypeOK, AllSound, AllAged, NEW b \in Actors
  PROVE  Crossed[b] \in Request /\ Aged(Crossed[b])
<1> DEFINE mark == req[b].crossed \/ At(b, "backfill")
           r == [req[b] EXCEPT !.crossed = mark]
<1>1. req[b] \in Request /\ Aged(req[b])
  BY DEF TypeOK, AllAged
<1>2. Crossed[b] = r
  BY DEF Crossed
<1> HIDE DEF mark
<1>3. /\ r.stage = req[b].stage /\ r.catalog = req[b].catalog /\ r.shown = req[b].shown
      /\ r.began = req[b].began /\ r.at = req[b].at
  BY <1>1 DEF Request
<1> HIDE DEF r
<1>4. Aged(r)
  BY <1>1, <1>3 DEF Aged
<1> QED BY <1>2, <1>4, CrossedSound

\* Every step keeps the ages of the requests.
LEMMA AgedRequests == TypeOK /\ AllSound /\ AllAged /\ AgedCaches /\ [Next]_vars => AllAged'
<1> SUFFICES ASSUME TypeOK, AllSound, AllAged, AgedCaches, [Next]_vars PROVE AllAged'
  OBVIOUS
<1>0. \A a \in Actors : req[a] \in Request /\ Sound(req[a]) /\ Aged(req[a])
  BY DEF TypeOK, AllSound, AllAged
<1>1. ASSUME NEW a \in Actors, Begins(a) PROVE AllAged'
  BY <1>1, BeginsAge, AgesKeeps
<1>2. ASSUME NEW a \in Actors, ReadTitle(a) PROVE Ages(a)
  <2>1. PICK stage \in {"legacy", "match"} : Goes(a, stage)
    BY <1>2 DEF ReadTitle
  <2> DEFINE r == [req[a] EXCEPT !.stage = stage]
  <2>2. /\ r \in Request /\ r.stage = stage /\ r.shown = req[a].shown
        /\ r.began = req[a].began /\ r.at = req[a].at
    BY <1>0 DEF Request, Stages
  <2>3. req' = [req EXCEPT ![a] = r]
    BY <2>1 DEF Goes
  <2> HIDE DEF r
  <2> QED BY <1>2, <2>2, <2>3, GoesAges DEF ReadTitle, At
<1>3. ASSUME NEW a \in Actors, ReadLegacy(a) PROVE Ages(a)
  <2>1. req[a].process \in Processes /\ req[a].stage = "legacy"
    BY <1>0, <1>3 DEF ReadLegacy, At, Sound
  <2>2. CASE legacy = NoTitle
    BY <1>3, <2>1, <2>2, WithoutMatchAges DEF ReadLegacy
  <2>3. CASE legacy # NoTitle
    <3> DEFINE r == [req[a] EXCEPT !.stage = "backfill", !.title = legacy]
    <3>1. legacy \in Titles \cup {Old, NoTitle}
      BY DEF TypeOK
    <3>0. req[a] \in Request
      BY <1>0
    <3>a. r \in Request
      BY <3>0, <3>1 DEF Request, Stages
    <3>2. /\ r.stage = "backfill" /\ r.shown = req[a].shown
          /\ r.began = req[a].began /\ r.at = req[a].at
      BY <1>0 DEF Request
    <3>3. req' = [req EXCEPT ![a] = r]
      BY <1>3, <2>3 DEF ReadLegacy
    <3> HIDE DEF r
    <3> QED BY <2>1, <3>a, <3>2, <3>3, GoesAges
  <2> QED BY <2>2, <2>3
<1>4. ASSUME NEW a \in Actors, Backfill(a) PROVE Ages(a)
  BY <1>0, <1>4, WithoutMatchAges DEF Backfill, At, Sound
<1>5. ASSUME NEW a \in Actors, Put(a) PROVE Ages(a)
  <2> DEFINE r == [req[a] EXCEPT !.stage = "drop"]
  <2>1. /\ r \in Request /\ r.stage = "drop" /\ r.shown = req[a].shown
        /\ r.began = req[a].began /\ r.at = req[a].at
    BY <1>0 DEF Request, Stages
  <2>2. req' = [req EXCEPT ![a] = r]
    BY <1>5 DEF Put, Goes
  <2> HIDE DEF r
  <2> QED BY <1>5, <2>1, <2>2, GoesAges DEF Put, At
<1>6. ASSUME NEW a \in Actors, Drop(a) PROVE AllAged'
  <2> DEFINE r == [Crossed[a] EXCEPT !.stage = "match"]
  <2>1. Crossed[a] \in Request /\ Aged(Crossed[a]) /\ Crossed[a].stage = "drop"
    BY <1>6, CrossedAged, CrossedSound DEF Drop, At
  <2>2. /\ r \in Request /\ r.stage = "match" /\ r.shown = Crossed[a].shown
        /\ r.began = Crossed[a].began /\ r.at = Crossed[a].at
    BY <2>1 DEF Request, Stages
  <2>3. req' = [Crossed EXCEPT ![a] = r]
    BY <1>6 DEF Drop
  <2> HIDE DEF r
  <2>4. Aged(r)
    <3>1. r.shown = {} /\ r.began <= now /\ r.at <= now
      BY <2>1, <2>2 DEF Aged
    <3> QED BY <2>2, <3>1, BareAged
  <2>5. \A b \in Actors : req'[b] = IF b = a THEN r ELSE Crossed[b]
    BY <2>2, <2>3, CrossedSound
  <2> QED BY <2>2, <2>4, <2>5, CrossedAged, AgedStep
<1>7. ASSUME NEW a \in Actors, Clear(a) PROVE AllAged'
  <2>1. /\ req[a].stage = "clear" /\ req' \in [Actors -> Request]
        /\ \A b \in Actors : b # a => req'[b] \in {req[b], Crossed[b]}
    BY <1>7, ClearRequests DEF Clear, At
  <2>2. req'[a] = NoRequest \/ \E todo : req'[a] = [req[a] EXCEPT !.todo = todo]
    <3>1. PICK c \in req[a].todo :
            req' = [(IF req[a].todo = {c} /\ req[a].kind = "clear" THEN Crossed ELSE req) EXCEPT
                      ![a] = IF req[a].todo = {c} THEN NoRequest ELSE [req[a] EXCEPT !.todo = @ \ {c}]]
      BY <1>7 DEF Clear
    <3>2. \A f \in [Actors -> Request] : \A x : [f EXCEPT ![a] = x][a] = x
      OBVIOUS
    <3>3. req \in [Actors -> Request] /\ Crossed \in [Actors -> Request]
      BY CrossedSound DEF TypeOK
    <3>4. req'[a] = IF req[a].todo = {c} THEN NoRequest ELSE [req[a] EXCEPT !.todo = req[a].todo \ {c}]
      BY <3>1, <3>2, <3>3
    <3> QED BY <3>4
  <2>3. \E r \in Request : req'[a] = r /\ Aged(r)
    <3>1. CASE req'[a] = NoRequest
      BY <3>1, NoRequestAged
    <3>2. ASSUME NEW todo, req'[a] = [req[a] EXCEPT !.todo = todo]
          PROVE  \E r \in Request : req'[a] = r /\ Aged(r)
      <4> DEFINE r == [req[a] EXCEPT !.todo = todo]
      <4>1. r.stage = req[a].stage /\ r.shown = req[a].shown /\ r.began = req[a].began /\ r.at = req[a].at
        BY <1>0 DEF Request
      <4>2. r \in Request /\ req'[a] = r
        BY <2>1, <3>2
      <4> HIDE DEF r
      <4>3. r.shown = {} /\ r.began <= now /\ r.at <= now /\ r.stage = "clear"
        BY <1>0, <2>1, <4>1 DEF Aged
      <4> QED BY <4>2, <4>3, BareAged
    <3> QED BY <2>2, <3>1, <3>2
  <2>4. \A b \in Actors : b # a => \E r \in Request : req'[b] = r /\ Aged(r)
    BY <1>0, <2>1, CrossedAged
  <2> QED BY <2>3, <2>4, AgedStep
<1>8. CASE UNCHANGED req
  BY <1>0, <1>8, AgedStep
<1>9. ASSUME NEW a \in Actors, AwaitSeed(a) PROVE AllAged'
  BY <1>8, <1>9, EndsAges, AgesKeeps DEF AwaitSeed
<1>10. ASSUME NEW a \in Actors, ReadStored(a) PROVE Ages(a)
  <2>1. /\ req[a].stage = "cached" /\ req[a].catalog \in SUBSET Roles /\ recs \in SUBSET Roles
        /\ Pick(req[a].catalog) \in SUBSET Roles
    BY <1>0, <1>10, RequestTimes, PickHolds DEF ReadStored, At, TypeOK
  <2>2. CASE req' = [req EXCEPT ![a].stage = "answer", ![a].picked = recs]
    BY <2>1, <2>2, LaterAges
  <2>3. CASE req' = [req EXCEPT ![a].stage = "store", ![a].picked = Pick(req[a].catalog)]
    BY <2>1, <2>3, LaterAges
  <2> QED BY <1>10, <2>2, <2>3 DEF ReadStored
<1>11. ASSUME NEW a \in Actors, StoreRecs(a) PROVE Ages(a)
  <2> DEFINE r == [req[a] EXCEPT !.stage = "answer"]
  <2>1. /\ r \in Request /\ r.stage = "answer" /\ r.catalog = req[a].catalog
        /\ r.shown = req[a].shown /\ r.began = req[a].began /\ r.at = req[a].at
    BY <1>0 DEF Request, Stages
  <2>2. req' = [req EXCEPT ![a] = r] /\ req[a].stage = "store"
    BY <1>11 DEF StoreRecs, Goes, At
  <2> HIDE DEF r
  <2>3. Aged(r)
    BY <1>0, <2>1, <2>2 DEF Aged
  <2> QED BY <2>1, <2>2, <2>3 DEF Ages
<1>12. ASSUME NEW a \in Actors, Send(a) \/ Save(a) PROVE Ages(a)
  BY <1>12, EndsAges DEF Send, Save
<1>13. ASSUME NEW a \in Actors, ReadEntry(a) PROVE Ages(a)
  <2>1. CASE Ends(a)
    BY <2>1, EndsAges
  <2>2. CASE ~Ends(a)
    <3> DEFINE r == [req[a] EXCEPT !.stage = "save", !.found = entry]
    <3>1. entry \in 0..MaxSaved
      BY DEF TypeOK
    <3>0. req[a] \in Request
      BY <1>0
    <3>a. r \in Request
      BY <3>0, <3>1 DEF Request, Stages
    <3>2. /\ r.stage = "save" /\ r.shown = req[a].shown
          /\ r.began = req[a].began /\ r.at = req[a].at
      BY <1>0 DEF Request
    <3>3. req' = [req EXCEPT ![a] = r] /\ req[a].stage = "entry"
      BY <1>13, <2>2 DEF ReadEntry, At
    <3> HIDE DEF r
    <3> QED BY <3>a, <3>2, <3>3, GoesAges
  <2> QED BY <2>1, <2>2
<1>14. ASSUME NEW a \in Actors, Stop(a) PROVE AllAged'
  <2>1. CASE Ends(a)
    BY <2>1, EndsAges, AgesKeeps
  <2>2. CASE ~Ends(a)
    <3>1. PICK c \in req[a].todo :
            req' = [req EXCEPT ![a] = IF @.todo = {c} THEN NoRequest
                      ELSE [req[a] EXCEPT !.kind = "aborted", !.todo = @ \ {c}]]
      BY <1>14, <2>2 DEF Stop
    <3> DEFINE r == [req[a] EXCEPT !.kind = "aborted", !.todo = req[a].todo \ {c}]
    <3>2. req[a].stage = "clear"
      BY <1>14, <2>2 DEF Stop, At
    <3>3. /\ r \in Request /\ r.stage = req[a].stage /\ r.shown = req[a].shown
          /\ r.began = req[a].began /\ r.at = req[a].at
      BY <1>0 DEF Request
    <3>4. req' = [req EXCEPT ![a] = r]
      BY <2>2, <3>1 DEF Ends
    <3> HIDE DEF r
    <3>5. Ages(a)
      BY <3>2, <3>3, <3>4, GoesAges
    <3> QED BY <3>5, AgesKeeps
  <2> QED BY <2>1, <2>2
<1>15. ASSUME NEW q \in Processes, Die(q) PROVE AllAged'
  <2>1. \A b \in Actors : req'[b] = req[b] \/ req'[b] = NoRequest
    BY <1>15 DEF Die
  <2> QED BY <1>0, <2>1, NoRequestAged, AgedStep
<1>16. ASSUME NEW q \in Processes, SeedNext(q) \/ SeedFails(q) PROVE UNCHANGED req
  BY <1>16 DEF SeedNext, UpsertRole, RetireRole, EndCommand, SeedFails
<1>17. CASE EditTitle \/ RemoveEntry \/ ListShortlist \/ Tick \/ UNCHANGED vars
  BY <1>8, <1>17 DEF EditTitle, RemoveEntry, ListShortlist, Tick, vars
<1>18. ASSUME NEW a \in Actors, Load(a) \/ Find(a) \/ Keep(a) \/ Answer(a) PROVE Ages(a)
  BY <1>18, LoadAges, FindAges, KeepAges, AnswerAges
<1>19. ASSUME NEW a \in Actors, Ages(a) PROVE AllAged'
  BY <1>19, AgesKeeps
<1> QED
  BY <1>1, <1>2, <1>3, <1>4, <1>5, <1>6, <1>7, <1>8, <1>9, <1>10, <1>11, <1>12, <1>13, <1>14, <1>15,
     <1>16, <1>17, <1>18, <1>19 DEF Next, Begins

\* And the age of what the processes have cached.
LEMMA AgedCached == TypeOK /\ AllSound /\ AllAged /\ AgedCaches /\ [Next]_vars => AgedCaches'
<1> SUFFICES ASSUME TypeOK, AllSound, AllAged, AgedCaches, [Next]_vars, NEW q \in Processes
             PROVE  cache'[q].at <= now' /\ LiveSince(cache[q].items, cache[q].at)'
  BY DEF AgedCaches
<1> DEFINE Caches == [at : -Ttl..MaxTime, items : SUBSET Roles]
<1>1. ASSUME NEW c \in Caches, cache'[q] = c, c.at <= now, LiveSince(c.items, c.at)
      PROVE  cache'[q].at <= now' /\ LiveSince(cache[q].items, cache[q].at)'
  <2>1. c.at \in Int /\ c.items \in SUBSET Roles
    BY NumbersHold
  <2>2. LiveSince(c.items, c.at)'
    BY <1>1, <2>1, LiveStays
  <2>3. now \in Nat /\ now' \in Nat /\ now <= now'
    BY CatalogMoves
  <2> QED BY <1>1, <2>1, <2>2, <2>3 DEF LiveSince
<1>2. cache[q] \in Caches /\ cache[q].at <= now /\ LiveSince(cache[q].items, cache[q].at)
  BY DEF TypeOK, AgedCaches
<1>3. CASE cache'[q] = cache[q]
  BY <1>1, <1>2, <1>3
<1>4. CASE cache'[q] = NoCache
  <2>1. /\ NoCache \in Caches /\ NoCache.at = -Ttl /\ NoCache.items = {}
        /\ now \in Nat /\ Ttl \in Nat
    BY NumbersHold DEF NoCache, TypeOK
  <2>2. NoCache.at <= now /\ LiveSince(NoCache.items, NoCache.at)
    BY <2>1 DEF LiveSince
  <2> QED BY <1>1, <1>4, <2>1, <2>2
<1>5. ASSUME NEW a \in Actors, Keep(a) PROVE \/ cache'[q] = cache[q]
                                            \/ cache'[q] = [at |-> req[a].at, items |-> req[a].catalog]
  BY <1>5 DEF Keep, TypeOK
<1>6. ASSUME NEW a \in Actors, Keep(a), cache'[q] = [at |-> req[a].at, items |-> req[a].catalog]
      PROVE  cache'[q].at <= now' /\ LiveSince(cache[q].items, cache[q].at)'
  <2>1. req[a] \in Request /\ Aged(req[a]) /\ req[a].stage = "keep"
    BY <1>6 DEF TypeOK, AllAged, Keep, At
  <2> DEFINE c == [at |-> req[a].at, items |-> req[a].catalog]
  <2>2. c \in Caches /\ c.at = req[a].at /\ c.items = req[a].catalog
    BY <2>1, NumbersHold DEF Request
  <2>3. c.at <= now /\ LiveSince(c.items, c.at)
    BY <2>1, <2>2 DEF Aged
  <2> HIDE DEF Caches
  <2> QED BY <1>1, <1>6, <2>2, <2>3
<1>7. ASSUME NEW p \in Processes, EndCommand(p) \/ Die(p)
      PROVE  cache'[q] = cache[q] \/ cache'[q] = NoCache
  BY <1>7 DEF EndCommand, Die, TypeOK
<1>8. CASE cache' = cache
  BY <1>3, <1>8
<1>9. ASSUME NEW a \in Actors, Begins(a) PROVE cache' = cache
  BY <1>9, BeginsBecome DEF procs
<1>10. ASSUME NEW a \in Actors, Asks(a) PROVE cache' = cache
  BY <1>10 DEF Asks, ReadTitle, ReadLegacy, Load, Find, ReadStored, Answer, Send, ReadEntry, procs
<1>11. ASSUME NEW a \in Actors,
              \/ Backfill(a) \/ Put(a) \/ Drop(a) \/ Clear(a) \/ AwaitSeed(a)
              \/ StoreRecs(a) \/ Save(a) \/ Stop(a)
       PROVE  cache' = cache
  BY <1>11 DEF Backfill, Put, Drop, Clear, AwaitSeed, StoreRecs, Save, Stop, procs
<1>12. ASSUME NEW p \in Processes,
              SeedFails(p) \/ \E r \in Roles : UpsertRole(p, r) \/ RetireRole(p, r)
       PROVE  cache' = cache
  BY <1>12 DEF SeedFails, UpsertRole, RetireRole
<1>13. CASE EditTitle \/ RemoveEntry \/ ListShortlist \/ Tick \/ UNCHANGED vars
  BY <1>8, <1>13 DEF EditTitle, RemoveEntry, ListShortlist, Tick, vars, procs
<1> QED
  BY <1>3, <1>4, <1>5, <1>6, <1>7, <1>8, <1>9, <1>10, <1>11, <1>12, <1>13 DEF Next, SeedNext, Begins, Asks

\* getDiscoverRoleRecommendations answers with as many roles as are to be shown, or all
\* of the catalog, however many of the stored ones are gone, and with none that was
\* retired a cache's life before the request began.
THEOREM AnswersStayCurrent == Spec => []AnswersAreCurrent
<1>1. Init => AllAged /\ AgedCaches
  <2> SUFFICES ASSUME Init PROVE AllAged /\ AgedCaches
    OBVIOUS
  <2>1. TypeOK
    BY TypeInit
  <2>2. AllAged
    BY <2>1, NoRequestAged DEF Init, AllAged
  <2>3. NoCache.at <= now /\ LiveSince(NoCache.items, NoCache.at)
    <3>1. NoCache.at = -Ttl /\ NoCache.items = {} /\ now = 0 /\ Ttl \in Nat
      BY NumbersHold DEF NoCache, Init
    <3> QED BY <3>1 DEF LiveSince
  <2>4. AgedCaches
    BY <2>3 DEF Init, AgedCaches
  <2> QED BY <2>2, <2>4
<1>2. TypeOK /\ AllSound /\ AllAged /\ AgedCaches /\ [Next]_vars => AllAged' /\ AgedCaches'
  BY AgedRequests, AgedCached
<1>3. TypeOK /\ AllAged => AnswersAreCurrent
  <2> SUFFICES ASSUME TypeOK, AllAged, NEW a \in Actors, req[a].shown # {}
               PROVE  /\ Cardinality(req[a].shown) >= MinOf(Shown, Cardinality(req[a].catalog))
                      /\ \A r \in req[a].shown : r \in active \/ goneAt[r] > req[a].began - Ttl
    BY DEF AnswersAreCurrent
  <2>1. Aged(req[a]) /\ req[a] \in Request
    BY DEF AllAged, TypeOK
  <2>2. /\ req[a].began \in Nat /\ Ttl \in Nat /\ req[a].shown \in SUBSET Roles
        /\ \A r \in Roles : goneAt[r] \in Int
    BY <2>1, RequestTimes, NumbersHold DEF TypeOK
  <2>3. /\ LiveSince(req[a].catalog, req[a].began - Ttl + 1) /\ req[a].shown \subseteq req[a].catalog
        /\ Cardinality(req[a].shown) >= MinOf(Shown, Cardinality(req[a].catalog))
    BY <2>1 DEF Aged
  <2>4. ASSUME NEW r \in req[a].shown PROVE r \in active \/ goneAt[r] > req[a].began - Ttl
    <3>1. r \in active \/ goneAt[r] >= req[a].began - Ttl + 1
      BY <2>3 DEF LiveSince
    <3>2. goneAt[r] \in Int
      BY <2>2
    <3> QED BY <2>2, <3>1, <3>2
  <2> QED BY <2>3, <2>4
<1>4. IInv => TypeOK /\ AllSound
  BY DEF IInv
<1> QED BY <1>1, <1>2, <1>3, <1>4, Inductive, PTL DEF Spec

=============================================================================
