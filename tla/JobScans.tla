------------------------------- MODULE JobScans -------------------------------
(***************************************************************************)
(* Scans of job postings: analyze, analyze-screenshots and history/import  *)
(* of services/jobs, over the caches of pages, analyses and refused        *)
(* fetches, with the usage limits of services/jobUsageLimits.              *)
(*                                                                         *)
(* One user scans from several clients at once.  A page is named by the    *)
(* content that its hash stands for; caches are keyed as their unique      *)
(* indexes are.  A scan reads and writes in the order of its handler, one  *)
(* command a step.  The features of a page are a function of its content,  *)
(* found or extracted anew: jobs_parsed is left out.                       *)
(***************************************************************************)
EXTENDS Integers, FiniteSets

CONSTANTS
  Scans,         \* requests served at the same time
  Jobs,          \* canonical URLs
  Postings,      \* contents of a posting
  Profiles,      \* hashes of the user's birth profiles
  PageTtl,       \* JOB_CACHE_TTL_DAYS
  NegativeTtls,  \* how long a refused fetch is remembered, by its status
  Legacy,        \* sets of depths whose count an earlier version may have used up
  FullLimit,     \* full analyses a free user may have a day
  MaxTime        \* bound on the clock

None == "none"
Challenge == "challenge"   \* a sign-in or captcha page an earlier version cached
Screenshots == "screenshots"
Pages == Postings \cup {Challenge}
Keys == Jobs \cup {Screenshots}
Depths == {"lite", "full"}

ASSUME JobScansAssumption ==
  /\ None \notin Pages \cup Profiles \cup Keys
  /\ Challenge \notin Postings /\ Screenshots \notin Jobs
  /\ PageTtl \in Nat \ {0} /\ NegativeTtls \subseteq Nat \ {0}
  /\ Legacy \subseteq SUBSET Depths /\ FullLimit \in Nat /\ MaxTime \in Nat

VARIABLES
  now,        \* UTC days
  raw,        \* jobs_raw
  negative,   \* job_fetch_negative_cache: expiresAt, 0 while there is none
  analyses,   \* job_analyses: the URL that wrote it last
  history,    \* job_scan_results: updatedAt, NoEntry while there is none
  profile,    \* birth_profiles: profileHash
  limited,    \* JOB_USAGE_LIMITS_ENABLED
  exhausted,  \* job_usage_limits: depths whose count of day 0 is at its limit
  scans,      \* scans[s]: the request in flight
  given,      \* history: full analyses of URLs the user was answered
  spoiled     \* history: analyses deleted by a scan that looked before a page was stored

caches == <<raw, negative, analyses>>
user == <<profile, limited, exhausted>>
vars == <<now, caches, history, user, scans, given, spoiled>>

NoEntry == -1
NoPage == [page |-> None, expiresAt |-> 0]
Collections == {"raw", "analyses", "negative"}

Idle == [stage |-> "idle", key |-> None, at |-> 0, want |-> "auto", again |-> FALSE,
         page |-> None, depth |-> None, profile |-> None, seen |-> NoEntry,
         due |-> {}, late |-> FALSE]
Stages == {"idle", "delete", "negative", "limit", "fetch", "forbid", "store", "clear", "vision",
           "profile", "cached", "depth", "persist", "count", "record", "write"}

\* A challenge page may be left of an earlier version; so may counts of the day.
Init ==
  /\ now = 0
  /\ raw \in [Jobs -> {NoPage, [page |-> Challenge, expiresAt |-> PageTtl]}]
  /\ negative = [j \in Jobs |-> 0]
  /\ analyses = [p \in Profiles |-> [h \in Pages |-> None]]
  /\ history = [k \in Keys |-> NoEntry]
  /\ profile \in Profiles \cup {None}
  /\ limited \in BOOLEAN
  /\ exhausted \in IF limited THEN {{}} \cup Legacy ELSE {{}}
  /\ scans = [s \in Scans |-> Idle]
  /\ given = {}
  /\ spoiled = {}

At(s, stage) == scans[s].stage = stage
Goes(s, stage) == scans' = [scans EXCEPT ![s].stage = stage]
Ends(s) == scans' = [scans EXCEPT ![s] = Idle]
Valid(expiresAt, at) == expiresAt > at

-----------------------------------------------------------------------------
(* handleJobAnalyze up to the fetch.                                       *)

\* Mutant: a challenge page is worked on like a posting.
LookAnyPage(s, j, want, again) ==
  LET scan == [Idle EXCEPT !.key = j, !.at = now, !.want = want,
                         !.again = again /\ want # "lite"]
  IN  IF Valid(raw[j].expiresAt, now)
        THEN [scan EXCEPT !.stage = "profile", !.page = raw[j].page]
        ELSE [scan EXCEPT !.stage = "negative"]

\* Mutant: regenerate drops the cached page of the URL.
LookAgain(s, j, want, again) ==
  LET scan == [Idle EXCEPT !.key = j, !.at = now, !.want = want,
                         !.again = again /\ want # "lite"]
  IN  IF ~Valid(raw[j].expiresAt, now)
        THEN [scan EXCEPT !.stage = "negative"]
        ELSE IF raw[j].page = Challenge \/ again
          THEN [scan EXCEPT !.stage = "delete", !.due = Collections]
          ELSE [scan EXCEPT !.stage = "profile", !.page = raw[j].page]

\* What a scan makes of the cached page: none or expired, a challenge page to
\* invalidate, or a posting.
Look(s, j, want, again) ==
  LET scan == [Idle EXCEPT !.key = j, !.at = now, !.want = want,
                         !.again = again /\ want # "lite"]
  IN  IF ~Valid(raw[j].expiresAt, now)
        THEN [scan EXCEPT !.stage = "negative"]
        ELSE IF raw[j].page = Challenge
          THEN [scan EXCEPT !.stage = "delete", !.due = Collections]
          ELSE [scan EXCEPT !.stage = "profile", !.page = raw[j].page]

Analyze(s, j, want, again) ==
  /\ At(s, "idle")
  /\ scans' = [scans EXCEPT ![s] = Look(s, j, want, again)]
  /\ UNCHANGED <<now, caches, history, user, given, spoiled>>

\* The deletes of an invalidation, in any order: each names the URL alone.
Deleted(s, what) ==
  scans' = [scans EXCEPT ![s] =
    IF @.due = {what} THEN [scans[s] EXCEPT !.stage = "negative", !.due = {}, !.late = FALSE]
                      ELSE [scans[s] EXCEPT !.due = @ \ {what}]]

DeleteRaw(s) ==
  /\ At(s, "delete") /\ "raw" \in scans[s].due
  /\ raw' = [raw EXCEPT ![scans[s].key] = NoPage]
  /\ Deleted(s, "raw")
  /\ UNCHANGED <<now, negative, analyses, history, user, given, spoiled>>

DeleteAnalyses(s) ==
  /\ At(s, "delete") /\ "analyses" \in scans[s].due
  /\ analyses' = [p \in Profiles |-> [h \in Pages |->
       IF analyses[p][h] = scans[s].key THEN None ELSE analyses[p][h]]]
  /\ spoiled' = IF scans[s].late
       THEN spoiled \cup {a \in Profiles \X Pages : analyses[a[1]][a[2]] = scans[s].key} ELSE spoiled
  /\ Deleted(s, "analyses")
  /\ UNCHANGED <<now, raw, negative, history, user, given>>

DeleteNegative(s) ==
  /\ At(s, "delete") /\ "negative" \in scans[s].due
  /\ negative' = [negative EXCEPT ![scans[s].key] = 0]
  /\ Deleted(s, "negative")
  /\ UNCHANGED <<now, raw, analyses, history, user, given, spoiled>>

\* A refused fetch that is remembered answers the scan.
ReadNegative(s) ==
  /\ At(s, "negative")
  /\ IF Valid(negative[scans[s].key], scans[s].at) THEN Ends(s) ELSE Goes(s, "limit")
  /\ UNCHANGED <<now, caches, history, user, given, spoiled>>

\* getCurrentJobUsageLimitSnapshot: counts of an earlier day count no more.
Remaining(at) == IF limited /\ at = 0 THEN Depths \ exhausted ELSE Depths

\* resolveJobScanDepth.
Depth(want, at) ==
  IF want # "auto" THEN want ELSE IF "full" \in Remaining(at) THEN "full" ELSE "lite"

\* A scan on its way to an answer: what it was asked for matters no more.
Answering(scan, stage, depth) ==
  [scan EXCEPT !.stage = stage, !.depth = depth, !.want = "auto", !.again = FALSE]

\* What follows once the page and the depth are known: a full analysis needs a
\* profile, else 404.
AfterDepth(scan, depth) ==
  CASE depth = "lite" -> Answering(scan, "count", depth)
    [] depth = "full" /\ scan.profile # None -> Answering(scan, "persist", depth)
    [] OTHER -> Idle

\* The limit before a fetch or a vision call: 429 when the depth is used up.
CheckLimit(s) ==
  /\ At(s, "limit")
  /\ LET depth == Depth(scans[s].want, scans[s].at)
     IN  IF depth \notin Remaining(scans[s].at) THEN Ends(s)
         ELSE scans' = [scans EXCEPT ![s].depth = depth,
                ![s].want = IF @ = "lite" THEN "lite" ELSE "auto",
                ![s].stage = IF scans[s].key = Screenshots THEN "vision" ELSE "fetch"]
  /\ UNCHANGED <<now, caches, history, user, given, spoiled>>

-----------------------------------------------------------------------------
(* The fetch and what it stores.                                           *)

\* fetchJobWithProviderFallback: a posting, a refusal, or another failure.  A
\* challenge page is a failure.
Fetch(s) ==
  /\ At(s, "fetch")
  /\ \/ \E h \in Postings : scans' = [scans EXCEPT ![s].stage = "store", ![s].page = h]
     \/ Goes(s, "forbid")
     \/ Ends(s)
  /\ UNCHANGED <<now, caches, history, user, given, spoiled>>

Forbid(s) ==
  /\ At(s, "forbid")
  /\ \E ttl \in NegativeTtls :
       negative' = [negative EXCEPT ![scans[s].key] = scans[s].at + ttl]
  /\ Ends(s)
  /\ UNCHANGED <<now, raw, analyses, history, user, given, spoiled>>

Store(s) ==
  /\ At(s, "store")
  /\ raw' = [raw EXCEPT ![scans[s].key] =
       [page |-> scans[s].page, expiresAt |-> scans[s].at + PageTtl]]
  /\ scans' = [q \in Scans |->
       CASE q = s -> [scans[s] EXCEPT !.stage = "clear"]
         [] q # s /\ At(q, "delete") /\ scans[q].key = scans[s].key -> [scans[q] EXCEPT !.late = TRUE]
         [] OTHER -> scans[q]]
  /\ UNCHANGED <<now, negative, analyses, history, user, given, spoiled>>

ClearNegative(s) ==
  /\ At(s, "clear")
  /\ negative' = [negative EXCEPT ![scans[s].key] = 0]
  /\ Goes(s, "profile")
  /\ UNCHANGED <<now, raw, analyses, history, user, given, spoiled>>

-----------------------------------------------------------------------------
(* The analysis, its count and its place in the history.                   *)

\* With the features of the page at hand the profile is read, unless the scan was
\* asked for lite.
ReadProfile(s) ==
  /\ At(s, "profile")
  /\ scans' = [scans EXCEPT ![s].stage = "cached",
                            ![s].profile = IF scans[s].want = "lite" THEN None ELSE profile]
  /\ UNCHANGED <<now, caches, history, user, given, spoiled>>

\* An analysis of this profile and content is answered again without a count; a
\* scan whose page was cached has not looked at the limits yet.
ReadAnalysis(s) ==
  /\ At(s, "cached")
  /\ LET scan == scans[s]
         hit  == ~scan.again /\ scan.profile # None /\ analyses[scan.profile][scan.page] # None
     IN  scans' = [scans EXCEPT ![s] =
           CASE hit -> Answering(scan, "record", "full")
             [] ~hit /\ scan.depth = None -> [scan EXCEPT !.stage = "depth"]
             [] OTHER -> AfterDepth(scan, scan.depth)]
  /\ UNCHANGED <<now, caches, history, user, given, spoiled>>

ResolveDepth(s) ==
  /\ At(s, "depth")
  /\ LET depth == Depth(scans[s].want, scans[s].at)
     IN  scans' = [scans EXCEPT ![s] = IF depth \in Remaining(scans[s].at) THEN AfterDepth(scans[s], depth) ELSE Idle]
  /\ UNCHANGED <<now, caches, history, user, given, spoiled>>

\* Mutant: the analysis is answered and never stored.
PersistNothing(s) ==
  /\ At(s, "persist")
  /\ Ends(s) \/ Goes(s, "count")
  /\ UNCHANGED <<now, caches, history, user, given, spoiled>>

\* The natal chart of the profile may be missing, else the analysis is stored.
Persist(s) ==
  /\ At(s, "persist")
  /\ \/ Ends(s) /\ UNCHANGED analyses
     \/ /\ analyses' = [analyses EXCEPT ![scans[s].profile][scans[s].page] = scans[s].key]
        /\ Goes(s, "count")
  /\ UNCHANGED <<now, raw, negative, history, user, given, spoiled>>

\* incrementUsageAfterSuccessfulScan: $set and $setOnInsert of its update name
\* the same paths, which MongoDB refuses: the scan ends in a 500, uncounted.
Count(s) ==
  /\ At(s, "count")
  /\ IF limited THEN Ends(s) ELSE Goes(s, "record")
  /\ UNCHANGED <<now, caches, history, user, given, spoiled>>

Given(scan) ==
  IF scan.depth = "full" /\ scan.key \in Jobs THEN given \cup {<<scan.profile, scan.page>>} ELSE given

\* Mutant: a newer entry is not looked at.
ReadHistoryBlindly(s) ==
  /\ At(s, "record")
  /\ scans' = [scans EXCEPT ![s].stage = "write", ![s].seen = history[scans[s].key]]
  /\ UNCHANGED <<now, caches, history, user, given, spoiled>>

\* upsertJobScanHistory: a newer entry is left alone.
ReadHistory(s) ==
  /\ At(s, "record")
  /\ IF history[scans[s].key] > scans[s].at
       THEN Ends(s) /\ given' = Given(scans[s])
       ELSE /\ scans' = [scans EXCEPT ![s].stage = "write", ![s].seen = history[scans[s].key]]
            /\ UNCHANGED given
  /\ UNCHANGED <<now, caches, history, user, spoiled>>

\* The upsert, and the answer of the scan.
WriteHistory(s) ==
  /\ At(s, "write")
  /\ history' = [history EXCEPT ![scans[s].key] = scans[s].at]
  /\ given' = Given(scans[s])
  /\ Ends(s)
  /\ UNCHANGED <<now, caches, user, spoiled>>

-----------------------------------------------------------------------------
(* Other requests.                                                         *)

\* handleJobAnalyzeScreenshots: profile and chart are there, or 404; all
\* screenshots share one key of the history.
AnalyzeScreenshots(s) ==
  /\ At(s, "idle")
  /\ profile # None
  /\ scans' = [scans EXCEPT ![s] =
       [Idle EXCEPT !.stage = "limit", !.key = Screenshots, !.at = now, !.want = "full"]]
  /\ UNCHANGED <<now, caches, history, user, given, spoiled>>

\* parseJobFromScreenshots may fail; no cache is written.
ParseScreenshots(s) ==
  /\ At(s, "vision")
  /\ Ends(s) \/ Goes(s, "count")
  /\ UNCHANGED <<now, caches, history, user, given, spoiled>>

\* syncJobScanHistoryEntries: an entry was saved at any time its client names, one to
\* come included.
Import(s, k, savedAt) ==
  /\ At(s, "idle")
  /\ scans' = [scans EXCEPT ![s] = [Idle EXCEPT !.stage = "record", !.key = k, !.at = savedAt]]
  /\ UNCHANGED <<now, caches, history, user, given, spoiled>>

\* A command throws or the process dies: what was written stays.
Breaks(s) ==
  /\ ~At(s, "idle")
  /\ Ends(s)
  /\ UNCHANGED <<now, caches, history, user, given, spoiled>>

EditProfile ==
  /\ profile' \in Profiles \ {profile}
  /\ UNCHANGED <<now, caches, history, limited, exhausted, scans, given, spoiled>>

\* The TTL indexes.
RemoveExpired ==
  /\ \/ \E j \in Jobs : /\ raw[j].page # None /\ raw[j].expiresAt <= now
                        /\ raw' = [raw EXCEPT ![j] = NoPage]
                        /\ UNCHANGED negative
     \/ \E j \in Jobs : /\ negative[j] \in 1..now
                        /\ negative' = [negative EXCEPT ![j] = 0]
                        /\ UNCHANGED raw
  /\ UNCHANGED <<now, analyses, history, user, scans, given, spoiled>>

Tick ==
  /\ now < MaxTime
  /\ now' = now + 1
  /\ UNCHANGED <<caches, history, user, scans, given, spoiled>>

Step(s) ==
  \/ DeleteRaw(s) \/ DeleteAnalyses(s) \/ DeleteNegative(s)
  \/ ReadNegative(s) \/ CheckLimit(s) \/ Fetch(s) \/ Forbid(s) \/ Store(s) \/ ClearNegative(s)
  \/ ReadProfile(s) \/ ReadAnalysis(s) \/ ResolveDepth(s)
  \/ Persist(s) \/ Count(s) \/ ReadHistory(s) \/ WriteHistory(s) \/ ParseScreenshots(s) \/ Breaks(s)

Next ==
  \/ \E s \in Scans :
       \/ Step(s) \/ AnalyzeScreenshots(s)
       \/ \E j \in Jobs, want \in Depths \cup {"auto"}, again \in BOOLEAN : Analyze(s, j, want, again)
       \/ \E k \in Keys, savedAt \in 0..MaxTime : Import(s, k, savedAt)
  \/ EditProfile \/ RemoveExpired \/ Tick

Spec == Init /\ [][Next]_vars

-----------------------------------------------------------------------------
(* Properties.                                                             *)

Expiries == 0..(MaxTime + PageTtl)
Scan == [stage : Stages, key : Keys \cup {None}, at : 0..MaxTime, want : Depths \cup {"auto"},
         again : BOOLEAN, page : Pages \cup {None}, depth : Depths \cup {None},
         profile : Profiles \cup {None}, seen : NoEntry..MaxTime, due : SUBSET Collections,
         late : BOOLEAN]

\* Every variable stays in its set, and a scan holds what its stage works on.
TypeOK ==
  /\ now \in 0..MaxTime
  /\ raw \in [Jobs -> [page : Pages \cup {None}, expiresAt : Expiries]]
  /\ negative \in [Jobs -> Nat]
  /\ analyses \in [Profiles -> [Pages -> Jobs \cup {None}]]
  /\ history \in [Keys -> NoEntry..MaxTime]
  /\ profile \in Profiles \cup {None}
  /\ limited \in BOOLEAN
  /\ exhausted \subseteq Depths
  /\ scans \in [Scans -> Scan]
  /\ given \subseteq Profiles \X Pages
  /\ spoiled \subseteq Profiles \X Pages
  /\ \A s \in Scans :
       /\ scans[s].stage \in {"store", "clear", "profile", "cached", "persist"}
            => scans[s].key \in Jobs /\ scans[s].page # None
       /\ At(s, "persist") => scans[s].profile # None

\* A challenge page that an earlier version cached is never analysed or answered,
\* however scans that invalidate it overlap scans that fetch.
NoChallengeServed ==
  /\ \A a \in given : a[2] # Challenge
  /\ \A s \in Scans : scans[s].page # Challenge

\* A posting is taken from the cache before it expires only by a scan that looked
\* at a challenge page before the posting was stored.
FreshPageSurvives ==
  [][\A j \in Jobs :
       raw[j].page \in Postings /\ raw[j].expiresAt > now /\ raw'[j].page = None
         => \E s \in Scans : At(s, "delete") /\ scans[s].key = j /\ scans[s].late]_vars

\* A full analysis the user was answered can be reopened without another count,
\* unless a scan that had looked at a challenge page deleted it meanwhile.
GivenIsReopenable ==
  \A a \in given : analyses[a[1]][a[2]] # None \/ a \in spoiled

\* An entry of the history gives way to an older one only when it was stored
\* after the writer of the older one had looked.
HistoryKeepsNewest ==
  [][\A k \in Keys :
       history'[k] < history[k]
         => \E s \in Scans : At(s, "write") /\ scans[s].key = k /\ scans[s].seen # history[k]]_vars

\* "1 Full analysis per UTC day" of a free user (docs/jobs-api-contract.md), here of
\* day 0, before which there is none to reopen.
FullWithinLimit == limited /\ now = 0 => Cardinality(given) <= FullLimit
=============================================================================
