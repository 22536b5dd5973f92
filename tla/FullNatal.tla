-------------------------------- MODULE FullNatal --------------------------------
(***************************************************************************)
(* The full natal report: GET /full-natal-analysis and its progress, as    *)
(* astrologyShared.ts serves them, the generation of fullNatalAnalysis.ts, *)
(* the attempts of llmGateway.ts and the records of operationProgress.ts.  *)
(*                                                                         *)
(* A report is made once for a profile and kept.  While it is made its     *)
(* promise is in a map of the process, which other requests of the process *)
(* join; the other processes know nothing of it, and the progress that a   *)
(* client polls is a record of the process as well, kept for ten minutes   *)
(* after its last write.  The LLM is asked with a timeout and retries,     *)
(* first one provider and then the other.                                  *)
(*                                                                         *)
(* One premium user is followed; the prompt version is the deployment's.   *)
(* A tick passes only while the market data of a report is fetched or an   *)
(* attempt is waited for; the delay after an attempt counts as part of it. *)
(***************************************************************************)
EXTENDS Integers, FiniteSets

CONSTANTS
  Profiles,      \* birth profile hashes the user's profile takes
  NoProfile,
  Processes,     \* processes that serve the requests
  NoProcess,
  Requests,      \* requests served at the same time
  Nobody,
  Providers,     \* sets of LLM providers a deployment may have
  MaxRetries,    \* OPENAI_MAX_RETRIES
  Timeout,       \* timeoutMs of an attempt and the delay after it, in ticks
  Reading,       \* longest fetch of market data, in ticks
  Ttl,           \* DEFAULT_OPERATION_PROGRESS_TTL_MS, in ticks
  MaxFaults      \* bound: failed commands and deaths

\* The record of a generation outlives its longest stage: six attempts of 32 s and
\* their delays of 30 s at most, and ten minutes.
ASSUME NatalAssumption ==
  /\ NoProfile \notin Profiles /\ NoProcess \notin Processes /\ Nobody \notin Requests
  /\ Providers \subseteq SUBSET {"primary", "backup"}
  /\ {MaxRetries, Timeout, Reading, MaxFaults} \subseteq Nat
  /\ Ttl \in Nat
  /\ Reading < Ttl
  /\ (MaxRetries + 1) * Timeout < Ttl

VARIABLES
  providers,   \* the providers of this deployment
  profile,     \* birth_profiles: the user's profile
  reports,     \* full_natal_career_analysis: the profiles with a report
  inFlight,    \* fullNatalAnalysisInFlight of each process
  progress,    \* operationProgressStore of each process
  req,         \* req[a]: what request a is at
  faults

vars == <<providers, profile, reports, inFlight, progress, req, faults>>

\* age: ticks since the record of a running generation was written; the others expire
\* at some time.  An expired record is one that is absent.
\* Which of the stages it shows is left out.
NoProgress == [status |-> "idle", age |-> 0]
Progress == [status : {"idle", "running", "completed", "failed"}, age : 0..Ttl]

\* "find": the report is looked up; "check": it was not there; "join": another request
\* of the process makes it; "read": the chart and the market data are read; "ask": an
\* LLM attempt is waited for; "store": the report is written; "answer": the notice of
\* the profile's change is read for the answer.
Stages == {"idle", "find", "check", "join", "read", "ask", "store", "answer"}

\* waited: ticks spent at the stage or at the attempt.
Request == [stage : Stages, process : Processes \cup {NoProcess}, hash : Profiles \cup {NoProfile},
            leader : Requests \cup {Nobody}, provider : {"none", "primary", "backup"},
            attempt : 0..(MaxRetries + 1), waited : 0..(Timeout + Reading)]
NoRequest == [stage |-> "idle", process |-> NoProcess, hash |-> NoProfile,
              leader |-> Nobody, provider |-> "none", attempt |-> 0, waited |-> 0]

Init ==
  /\ providers \in Providers
  /\ profile \in Profiles
  /\ reports = {}
  /\ inFlight = [q \in Processes |-> [p \in Profiles |-> Nobody]]
  /\ progress = [q \in Processes |-> [p \in Profiles |-> NoProgress]]
  /\ req = [a \in Requests |-> NoRequest]
  /\ faults = 0

At(a, stage) == req[a].stage = stage
Generates(a) == req[a].stage \in {"read", "ask", "store", "answer"}
Goes(a, stage) == req' = [req EXCEPT ![a].stage = stage, ![a].waited = 0]
Ends(a) == req' = [req EXCEPT ![a] = NoRequest]

\* write: the record of the report request a generates.
Shows(a, status) ==
  progress' = [progress EXCEPT ![req[a].process][req[a].hash] = [status |-> status, age |-> 0]]

-----------------------------------------------------------------------------
(* The request and the promise it shares.                                  *)

\* The profile is read once; what follows belongs to it.
Begin(a, q) ==
  /\ At(a, "idle")
  /\ req' = [req EXCEPT ![a] = [NoRequest EXCEPT !.stage = "find", !.process = q, !.hash = profile]]
  /\ UNCHANGED <<providers, profile, reports, inFlight, progress, faults>>

\* A stored report is answered with the market data of the day and the notice; a
\* request with ?cacheOnly=true ends here in any case.
Find(a, cacheOnly) ==
  /\ At(a, "find")
  /\ IF req[a].hash \in reports \/ cacheOnly THEN Ends(a) ELSE Goes(a, "check")
  /\ UNCHANGED <<providers, profile, reports, inFlight, progress, faults>>

Pending(b, q, p) == Generates(b) /\ req[b].process = q /\ req[b].hash = p

\* serializeFullNatalAnalysisGeneration, and the producer up to its first await.  A promise
\* that has settled, were it still in the map, would answer at once with what it came to.
Check(a) ==
  LET q == req[a].process
      p == req[a].hash
  IN /\ At(a, "check")
     /\ \/ /\ inFlight[q][p] # Nobody
           /\ IF Pending(inFlight[q][p], q, p)
                THEN req' = [req EXCEPT ![a].stage = "join", ![a].leader = inFlight[q][p]]
                ELSE Ends(a)
           /\ UNCHANGED <<inFlight, progress>>
        \/ /\ inFlight[q][p] = Nobody
           /\ inFlight' = [inFlight EXCEPT ![q][p] = a]
           /\ Shows(a, "running")
           /\ Goes(a, "read")
     /\ UNCHANGED <<providers, profile, reports, faults>>

\* Mutant: the promise stays in the map when it failed.
SettleAnswered(a) ==
  /\ inFlight' = [inFlight EXCEPT ![req[a].process][req[a].hash] =
       IF At(a, "answer") THEN Nobody ELSE a]
  /\ req' = [b \in Requests |-> IF b = a \/ (At(b, "join") /\ req[b].leader = a) THEN NoRequest ELSE req[b]]

\* The promise leaves the map and everyone who waits for it is answered.
Settle(a) ==
  /\ inFlight' = [inFlight EXCEPT ![req[a].process][req[a].hash] = Nobody]
  /\ req' = [b \in Requests |-> IF b = a \/ (At(b, "join") /\ req[b].leader = a) THEN NoRequest ELSE req[b]]

\* The producer's catch.
Throws(a) ==
  /\ Shows(a, "failed")
  /\ Settle(a)

-----------------------------------------------------------------------------
(* The generation.                                                         *)

\* The chart may be missing or invalid; otherwise the first provider is asked.
Read(a) ==
  /\ At(a, "read")
  /\ \/ Throws(a)
     \/ /\ providers # {}
        /\ req' = [req EXCEPT ![a].stage = "ask", ![a].attempt = 1, ![a].waited = 0,
             ![a].provider = IF "primary" \in providers THEN "primary" ELSE "backup"]
        /\ Shows(a, "running")
        /\ UNCHANGED inFlight
  /\ UNCHANGED <<providers, profile, reports, faults>>

\* Mutant: the report is announced as soon as it is there.
AnswersEarly(a) ==
  /\ At(a, "ask")
  /\ Shows(a, "completed")
  /\ Goes(a, "store")
  /\ UNCHANGED <<providers, profile, reports, inFlight, faults>>

\* The attempt brings a report that passes normalizeLlmPayload.
Answers(a) ==
  /\ At(a, "ask")
  /\ Shows(a, "running")
  /\ Goes(a, "store")
  /\ UNCHANGED <<providers, profile, reports, inFlight, faults>>

\* The attempt timed out, or failed in a way isRetryableUpstreamStatus allows for.
Retry(a) ==
  /\ At(a, "ask")
  /\ req[a].attempt <= MaxRetries
  /\ req' = [req EXCEPT ![a].attempt = @ + 1, ![a].waited = 0]
  /\ UNCHANGED <<providers, profile, reports, inFlight, progress, faults>>

\* Mutant: the backup works under the stage of the primary.
GiveUpSilently(a) ==
  /\ At(a, "ask")
  /\ \/ /\ req[a].provider = "primary" /\ "backup" \in providers
        /\ req' = [req EXCEPT ![a].provider = "backup", ![a].attempt = 1, ![a].waited = 0]
        /\ UNCHANGED <<inFlight, progress>>
     \/ /\ req[a].provider = "backup" \/ "backup" \notin providers
        /\ Throws(a)
  /\ UNCHANGED <<providers, profile, reports, faults>>

\* Mutant: a backup that failed falls back as well, to the primary.
GiveUpInTurns(a) ==
  /\ At(a, "ask")
  /\ LET other == {"primary", "backup"} \ {req[a].provider}
     IN  \/ /\ other \subseteq providers
            /\ req' = [req EXCEPT ![a].provider = CHOOSE o \in other : TRUE,
                                  ![a].attempt = 1, ![a].waited = 0]
            /\ Shows(a, "running")
            /\ UNCHANGED inFlight
         \/ /\ ~(other \subseteq providers)
            /\ Throws(a)
  /\ UNCHANGED <<providers, profile, reports, faults>>

\* The last attempt failed, any attempt failed for good, or its report is invalid.
GiveUp(a) ==
  /\ At(a, "ask")
  /\ \/ /\ req[a].provider = "primary" /\ "backup" \in providers
        /\ req' = [req EXCEPT ![a].provider = "backup", ![a].attempt = 1, ![a].waited = 0]
        /\ Shows(a, "running")
        /\ UNCHANGED inFlight
     \/ /\ req[a].provider = "backup" \/ "backup" \notin providers
        /\ Throws(a)
  /\ UNCHANGED <<providers, profile, reports, faults>>

\* The report of the profile is written over what another process may have stored.
Store(a) ==
  /\ At(a, "store")
  /\ reports' = reports \cup {req[a].hash}
  /\ Shows(a, "completed")
  /\ Goes(a, "answer")
  /\ UNCHANGED <<providers, profile, inFlight, faults>>

Answer(a) ==
  /\ At(a, "answer")
  /\ Settle(a)
  /\ UNCHANGED <<providers, profile, reports, progress, faults>>

-----------------------------------------------------------------------------
(* The user, the clock and what fails.                                     *)

ChangeProfile ==
  /\ profile' \in Profiles \ {profile}
  /\ UNCHANGED <<providers, reports, inFlight, progress, req, faults>>

\* No attempt and no fetch outlasts its timeout; commands take no time.
Patience(a) == CASE At(a, "read") -> Reading
                 [] At(a, "ask") -> Timeout
                 [] OTHER -> 0
Waits(a) == req[a].stage \in {"read", "ask"}

Tick ==
  /\ \A a \in Requests : req[a].stage \in {"idle", "join"} \/ req[a].waited < Patience(a)
  /\ progress' = [q \in Processes |-> [p \in Profiles |->
       IF progress[q][p].status # "running" THEN progress[q][p]
       ELSE IF progress[q][p].age + 1 = Ttl THEN NoProgress
       ELSE [progress[q][p] EXCEPT !.age = @ + 1]]]
  /\ req' = [a \in Requests |-> IF Waits(a) THEN [req[a] EXCEPT !.waited = @ + 1] ELSE req[a]]
  /\ UNCHANGED <<providers, profile, reports, inFlight, faults>>

Expire(q, p) ==
  /\ progress[q][p].status \in {"completed", "failed"}
  /\ progress' = [progress EXCEPT ![q][p] = NoProgress]
  /\ UNCHANGED <<providers, profile, reports, inFlight, req, faults>>

\* A command fails: the answer's notice too, for a report that is stored by then.
CommandFails(a) ==
  /\ faults < MaxFaults
  /\ faults' = faults + 1
  /\ \/ /\ req[a].stage \in {"find", "check"}
        /\ Ends(a)
        /\ UNCHANGED <<inFlight, progress>>
     \/ Generates(a) /\ Throws(a)
  /\ UNCHANGED <<providers, profile, reports>>

\* A process dies with its requests, its map and its records.
Die(q) ==
  /\ faults < MaxFaults
  /\ faults' = faults + 1
  /\ req' = [a \in Requests |-> IF req[a].process = q THEN NoRequest ELSE req[a]]
  /\ inFlight' = [inFlight EXCEPT ![q] = [p \in Profiles |-> Nobody]]
  /\ progress' = [progress EXCEPT ![q] = [p \in Profiles |-> NoProgress]]
  /\ UNCHANGED <<providers, profile, reports>>

Steps(a) ==
  \/ \E cacheOnly \in BOOLEAN : Find(a, cacheOnly)
  \/ Check(a) \/ Read(a) \/ Answers(a) \/ Retry(a) \/ GiveUp(a) \/ Store(a) \/ Answer(a)

Next ==
  \/ \E a \in Requests, q \in Processes : Begin(a, q)
  \/ \E a \in Requests : Steps(a) \/ CommandFails(a)
  \/ \E q \in Processes : Die(q) \/ \E p \in Profiles : Expire(q, p)
  \/ ChangeProfile
  \/ Tick

Spec == Init /\ [][Next]_vars

\* Commands are answered and attempts time out.
FairSpec == Spec /\ \A a \in Requests : WF_vars(Steps(a))

-----------------------------------------------------------------------------
TypeOK ==
  /\ providers \in SUBSET {"primary", "backup"}
  /\ profile \in Profiles
  /\ reports \subseteq Profiles
  /\ inFlight \in [Processes -> [Profiles -> Requests \cup {Nobody}]]
  /\ progress \in [Processes -> [Profiles -> Progress]]
  /\ req \in [Requests -> Request]
  /\ faults \in 0..MaxFaults

\* The map of a process names exactly the requests that generate a report there, and
\* who joined waits for one of them: a process asks the LLM for a report of a profile
\* once at a time, and nobody waits for a promise that is gone.
InFlightIsLive ==
  \A a \in Requests :
    /\ Generates(a) => inFlight[req[a].process][req[a].hash] = a
    /\ \A q \in Processes, p \in Profiles :
         inFlight[q][p] = a => Generates(a) /\ req[a].process = q /\ req[a].hash = p
    /\ At(a, "join") => inFlight[req[a].process][req[a].hash] = req[a].leader /\ req[a].leader # Nobody

\* A client that polls the process is told that the report is made as long as it is,
\* through every retry and the backup: the record does not expire under it.
GeneratingIsShown ==
  \A a \in Requests : req[a].stage \in {"read", "ask", "store"} =>
    progress[req[a].process][req[a].hash].status = "running"

\* A report a client is told is complete can be fetched, from any process.
CompletedIsStored ==
  \A q \in Processes, p \in Profiles : progress[q][p].status = "completed" => p \in reports

\* Every request is answered, through the retries and the backup, whoever makes the
\* report it waits for.
AnsweredEventually == \A a \in Requests : ~At(a, "idle") ~> At(a, "idle")
=============================================================================
