---------------------------- MODULE JobScansProofs ----------------------------
(***************************************************************************)
(* What holds of JobScans for every number of scans, URLs, postings and    *)
(* profiles, and for every TTL: a challenge page an earlier version left   *)
(* behind reaches no analysis, and invalidating it costs the user nothing  *)
(* but what was stored since a scan had looked.                            *)
(***************************************************************************)
EXTENDS JobScans, TLAPS

(***************************************************************************)
(* The inductive invariant.  A URL is touched once a posting of it was     *)
(* stored: from then on its cache holds no challenge page, and whoever     *)
(* still deletes for it had looked before.                                 *)
(***************************************************************************)
UrlStages == {"delete", "negative", "fetch", "forbid", "store", "clear", "profile", "cached", "depth", "persist"}
PageStages == {"store", "clear", "profile", "cached", "depth", "persist"}
Reports(r) == r.stage \in {"count", "record", "write"} /\ r.depth = "full" /\ r.key \in Jobs
Holds(r) == r.page # None /\ r.stage # "store"

\* A scan has what the stages ahead of it read.
Sound(r) ==
  /\ r \in Scan
  /\ r.page # Challenge
  /\ r.stage # "idle" => r.key \in Keys
  /\ r.stage \in UrlStages => r.key \in Jobs
  /\ r.stage \in PageStages => r.page \in Postings
  /\ r.stage = "vision" => r.key = Screenshots
  /\ r.stage = "persist" => r.profile \in Profiles /\ r.depth = "full"
  /\ r.stage = "write" => r.seen <= r.at
  /\ Reports(r) => r.profile \in Profiles /\ r.page \in Postings

Touched(j) ==
  \/ raw[j].page \in Postings
  \/ \E p \in Profiles, h \in Pages : analyses[p][h] = j
  \/ \E s \in Scans : Holds(scans[s]) /\ scans[s].key = j

Kept(p, h) == analyses[p][h] # None \/ <<p, h>> \in spoiled

Fit(r) ==
  /\ Sound(r)
  /\ Holds(r) => Touched(r.key)
  /\ r.stage = "delete" => r.late \/ ~Touched(r.key)
Good(r) == Fit(r) /\ (Reports(r) => Kept(r.profile, r.page))

Clean == \A j \in Jobs : /\ Touched(j) => raw[j].page # Challenge
                         /\ raw[j].page = None => raw[j].expiresAt = 0
Answered == \A p \in Profiles, h \in Pages : <<p, h>> \in given => h # Challenge /\ Kept(p, h)

IInv == TypeOK /\ (\A s \in Scans : Good(scans[s])) /\ Clean /\ Answered

LEMMA NamesDiffer ==
  /\ PageTtl \in Nat \ {0} /\ NegativeTtls \subseteq Nat \ {0} /\ MaxTime \in Nat
  /\ None \notin Pages /\ None \notin Profiles /\ None \notin Keys /\ None \notin Postings
  /\ Challenge \notin Postings /\ Challenge # None /\ Screenshots \notin Jobs /\ Screenshots # None
BY JobScansAssumption DEF Pages, Keys

LEMMA IdleHolds == Idle \in Scan /\ Sound(Idle) /\ ~Holds(Idle) /\ Idle.stage = "idle" /\ Good(Idle)
<1>1. Idle \in Scan
  BY NamesDiffer DEF Idle, Scan, Stages, NoEntry, Depths, Pages
<1> QED
  BY <1>1, NamesDiffer DEF Idle, Sound, Holds, Good, Fit, UrlStages, PageStages, Reports

-----------------------------------------------------------------------------
(* Steps that touch no URL.                                                *)

\* The variables the invariant only types.
RestTyped ==
  /\ now \in 0..MaxTime
  /\ negative \in [Jobs -> Nat]
  /\ history \in [Keys -> NoEntry..MaxTime]
  /\ profile \in Profiles \cup {None}
  /\ limited \in BOOLEAN
  /\ exhausted \subseteq Depths

Emptied ==
  /\ raw' \in [Jobs -> [page : Pages \cup {None}, expiresAt : Expiries]]
  /\ \A j \in Jobs : raw'[j] = raw[j] \/ raw'[j] = NoPage

Noted ==
  /\ analyses' \in [Profiles -> [Pages -> Jobs \cup {None}]]
  /\ spoiled \subseteq spoiled' /\ spoiled' \subseteq Profiles \X Pages
  /\ \A p \in Profiles, h \in Pages :
       \/ analyses'[p][h] = analyses[p][h]
       \/ analyses'[p][h] = None /\ <<p, h>> \in spoiled'
       \/ analyses'[p][h] \in Jobs /\ Touched(analyses'[p][h])

Backed ==
  /\ given' \subseteq Profiles \X Pages
  /\ \A p \in Profiles, h \in Pages :
       <<p, h>> \in given' => <<p, h>> \in given \/ (h # Challenge /\ Kept(p, h))

\* Every scan stays good; the step may empty the cache of pages, delete analyses it notes
\* as spoiled, store one for a URL that is touched, and answer what is kept.
Quiet ==
  /\ scans' \in [Scans -> Scan]
  /\ \A q \in Scans : \E r \in Scan :
       /\ scans'[q] = r
       /\ Good(r) \/ (Fit(r) /\ Kept(r.profile, r.page)')
  /\ Emptied /\ Noted /\ Backed /\ RestTyped'

\* A scan is typed as TypeOK wants it.
LEMMA SoundTyped ==
  ASSUME NEW r, Sound(r)
  PROVE  /\ r.stage \in {"store", "clear", "profile", "cached", "persist"} => r.key \in Jobs /\ r.page # None
         /\ r.stage = "persist" => r.profile # None
BY NamesDiffer DEF Sound, UrlStages, PageStages

LEMMA QuietHolds == ASSUME IInv, Quiet PROVE IInv'
<1>1. \A j \in Jobs : raw'[j].page \in Postings => raw[j].page \in Postings
  BY NamesDiffer DEF Quiet, Emptied, NoPage
<1>2. \A k \in Jobs : Touched(k)' => Touched(k)
  <2>1. ASSUME NEW k \in Jobs, Touched(k)' PROVE Touched(k)
    <3>1. CASE raw'[k].page \in Postings
      BY <1>1, <3>1 DEF Touched
    <3>2. CASE \E p \in Profiles, h \in Pages : analyses'[p][h] = k
      <4>1. PICK p \in Profiles, h \in Pages : analyses'[p][h] = k
        BY <3>2
      <4>2. analyses[p][h] = k \/ Touched(k)
        BY <4>1, NamesDiffer DEF Quiet, Noted, Keys
      <4> QED
        BY <4>2 DEF Touched
    <3>3. CASE \E q \in Scans : Holds(scans'[q]) /\ scans'[q].key = k
      BY <3>3 DEF Touched, Quiet, Good, Fit
    <3> QED
      BY <2>1, <3>1, <3>2, <3>3 DEF Touched, Holds
  <2> QED
    BY <2>1
<1>3. \A p \in Profiles, h \in Pages : Kept(p, h) => Kept(p, h)'
  BY NamesDiffer DEF Quiet, Noted, Kept, Keys
<1>4. ASSUME NEW q \in Scans PROVE Good(scans[q])'
  <2>1. PICK r \in Scan : r = scans'[q] /\ (Good(r) \/ (Fit(r) /\ Kept(r.profile, r.page)'))
    BY DEF Quiet
  <2>2. Sound(r) /\ (Reports(r) => r.profile \in Profiles /\ r.page \in Pages) /\ (r.stage = "delete" => r.key \in Jobs)
    BY <2>1 DEF Good, Fit, Sound, UrlStages, Pages, Keys
  <2>3. Holds(r) => Touched(r.key)'
    BY <2>1 DEF Touched
  <2>4. r.stage = "delete" => r.late \/ ~Touched(r.key)'
    BY <1>2, <2>1, <2>2 DEF Good, Fit
  <2>5. Reports(r) => Kept(r.profile, r.page)'
    BY <1>3, <2>1, <2>2 DEF Good, Fit
  <2>6. Good(r)'
    BY <2>2, <2>3, <2>4, <2>5 DEF Good, Fit
  <2> QED
    BY <2>1, <2>6
<1>5. Clean'
  BY <1>2, NamesDiffer DEF IInv, Clean, Quiet, Emptied, NoPage
<1>6. Answered'
  BY <1>3 DEF IInv, Answered, Quiet, Backed
<1>7. TypeOK'
  <2>1. \A q \in Scans : Sound(scans'[q])
    BY DEF Quiet, Good, Fit
  <2> QED
    BY <2>1, SoundTyped DEF TypeOK, RestTyped, Quiet, Emptied, Noted, Backed, At
<1> QED
  BY <1>4, <1>5, <1>6, <1>7 DEF IInv

\* One scan becomes a good one and the rest stays.
ScanMoves(s) ==
  /\ \E r \in Scan : Good(r) /\ scans' = [scans EXCEPT ![s] = r]
  /\ UNCHANGED <<raw, analyses, given, spoiled>>

LEMMA UnchangedEasy ==
  ASSUME IInv
  PROVE  /\ UNCHANGED raw => Emptied
         /\ UNCHANGED <<analyses, spoiled>> => Noted
         /\ UNCHANGED given => Backed
         /\ UNCHANGED scans => \A q \in Scans : \E r \in Scan : Good(r) /\ scans'[q] = r
<1>1. UNCHANGED raw => Emptied
  BY DEF IInv, TypeOK, Emptied
<1>2. ASSUME UNCHANGED <<analyses, spoiled>> PROVE Noted
  <2>1. analyses' = analyses /\ spoiled' = spoiled
    BY <1>2
  <2>2. analyses \in [Profiles -> [Pages -> Jobs \cup {None}]] /\ spoiled \subseteq Profiles \X Pages
    BY DEF IInv, TypeOK
  <2>3. analyses' \in [Profiles -> [Pages -> Jobs \cup {None}]]
    BY <2>1, <2>2
  <2>4. spoiled \subseteq spoiled' /\ spoiled' \subseteq Profiles \X Pages
    BY <2>1, <2>2
  <2>5. \A p \in Profiles, h \in Pages : analyses'[p][h] = analyses[p][h]
    BY <2>1
  <2> QED
    BY <2>3, <2>4, <2>5 DEF Noted
<1>3. ASSUME UNCHANGED given PROVE Backed
  <2>1. given \subseteq Profiles \X Pages
    BY DEF IInv, TypeOK
  <2>2. given' \subseteq Profiles \X Pages
    BY <1>3, <2>1
  <2>3. \A p \in Profiles, h \in Pages : <<p, h>> \in given' => <<p, h>> \in given
    BY <1>3
  <2> QED
    BY <2>2, <2>3 DEF Backed
<1>4. UNCHANGED scans => \A q \in Scans : \E r \in Scan : Good(r) /\ scans'[q] = r
  BY DEF IInv, TypeOK
<1> QED
  BY <1>1, <1>2, <1>3, <1>4

LEMMA BecomesGood ==
  ASSUME IInv, NEW s \in Scans, NEW r \in Scan, Good(r), scans' = [scans EXCEPT ![s] = r]
  PROVE  /\ scans' \in [Scans -> Scan]
         /\ \A q \in Scans : \E x \in Scan : Good(x) /\ scans'[q] = x
<1>1. /\ scans' \in [Scans -> Scan] /\ scans'[s] = r
      /\ \A q \in Scans : q # s => scans'[q] = scans[q]
  BY DEF IInv, TypeOK
<1>2. \A q \in Scans : scans[q] \in Scan /\ Good(scans[q])
  BY DEF IInv, TypeOK
<1> QED
  BY <1>1, <1>2

LEMMA MovesQuiet == ASSUME IInv, NEW s \in Scans, ScanMoves(s), RestTyped' PROVE Quiet
BY BecomesGood, UnchangedEasy DEF ScanMoves, Quiet

-----------------------------------------------------------------------------
(* Where the steps of a scan lead.                                         *)

LEMMA EndsMoves ==
  ASSUME NEW s \in Scans, Ends(s), UNCHANGED <<raw, analyses, given, spoiled>>
  PROVE  ScanMoves(s)
BY IdleHolds DEF Ends, ScanMoves

\* Scan r is scan s at another stage.
Moved(r, s, stage) ==
  /\ r \in Scan /\ r.stage = stage
  /\ r.key = scans[s].key /\ r.at = scans[s].at /\ r.page = scans[s].page
  /\ r.depth = scans[s].depth /\ r.profile = scans[s].profile /\ r.seen = scans[s].seen

LEMMA GoesMoves ==
  ASSUME IInv, NEW s \in Scans, NEW stage \in Stages, Goes(s, stage)
  PROVE  \E r \in Scan : Moved(r, s, stage) /\ scans' = [scans EXCEPT ![s] = r]
<1> DEFINE r == [scans[s] EXCEPT !.stage = stage]
<1>1. scans[s] \in Scan
  BY DEF IInv, TypeOK
<1>2. Moved(r, s, stage)
  BY <1>1 DEF Moved, Scan
<1>3. scans' = [scans EXCEPT ![s] = r]
  BY DEF Goes
<1> QED
  BY <1>2, <1>3 DEF Moved

LEMMA ScanHolds == ASSUME IInv, NEW s \in Scans PROVE scans[s] \in Scan /\ Good(scans[s]) /\ Sound(scans[s])
BY DEF IInv, TypeOK, Good, Fit

\* A request that begins.
Begun(r, k, stage, page) ==
  /\ r \in Scan /\ r.stage = stage /\ r.key = k /\ r.page = page
  /\ r.depth = None /\ r.late = FALSE

LEMMA BegunGood ==
  ASSUME NEW k \in Keys, NEW stage, NEW page, NEW r, Begun(r, k, stage, page),
         \/ stage = "negative" /\ k \in Jobs /\ page = None
         \/ stage = "delete" /\ k \in Jobs /\ page = None /\ ~Touched(k)
         \/ stage = "profile" /\ k \in Jobs /\ page \in Postings /\ Touched(k)
         \/ stage \in {"limit", "record"} /\ page = None
  PROVE  r \in Scan /\ Good(r)
<1>1. ~Reports(r)
  BY DEF Begun, Reports, None
<1>2. Sound(r)
  BY <1>1, NamesDiffer DEF Begun, Sound, UrlStages, PageStages
<1>3. Holds(r) => Touched(r.key)
  BY NamesDiffer DEF Begun, Holds
<1> QED
  BY <1>1, <1>2, <1>3 DEF Begun, Good, Fit

LEMMA IdleFields ==
  /\ Idle \in Scan /\ Idle.page = None /\ Idle.depth = None /\ Idle.late = FALSE
BY IdleHolds DEF Idle

LEMMA AnalyzeMoves ==
  ASSUME IInv, NEW s \in Scans, NEW j \in Jobs, NEW want \in Depths \cup {"auto"}, NEW again \in BOOLEAN,
         Analyze(s, j, want, again)
  PROVE  ScanMoves(s)
<1> DEFINE r == Look(s, j, want, again)
<1> DEFINE scan == [Idle EXCEPT !.key = j, !.at = now, !.want = want, !.again = again /\ want # "lite"]
<1>1. /\ now \in 0..MaxTime /\ j \in Keys
      /\ raw[j].page \in Pages \cup {None} /\ raw[j].expiresAt \in Nat
      /\ {"negative", "delete", "profile"} \subseteq Stages
      /\ Collections \in SUBSET Collections
  BY NamesDiffer DEF IInv, TypeOK, Keys, Stages, Expiries
<1>2. scan \in Scan /\ scan.key = j /\ scan.page = None /\ scan.depth = None /\ scan.late = FALSE
  BY <1>1, IdleFields DEF Scan
<1>3. \/ r = [scan EXCEPT !.stage = "negative"]
      \/ r = [scan EXCEPT !.stage = "delete", !.due = Collections] /\ raw[j].page = Challenge
      \/ /\ r = [scan EXCEPT !.stage = "profile", !.page = raw[j].page]
         /\ raw[j].page # Challenge /\ raw[j].expiresAt > now
  BY DEF Look, Valid
<1> HIDE DEF scan
<1>4. CASE r = [scan EXCEPT !.stage = "negative"]
  <2>1. Begun(r, j, "negative", None)
    BY <1>1, <1>2, <1>4 DEF Begun, Scan
  <2> QED
    BY <1>1, <2>1, BegunGood DEF Analyze, ScanMoves, caches
<1>5. CASE r = [scan EXCEPT !.stage = "delete", !.due = Collections] /\ raw[j].page = Challenge
  <2>1. Begun(r, j, "delete", None)
    BY <1>1, <1>2, <1>5 DEF Begun, Scan
  <2>2. ~Touched(j)
    BY <1>5 DEF IInv, Clean
  <2> QED
    BY <1>1, <2>1, <2>2, BegunGood DEF Analyze, ScanMoves, caches
<1>6. CASE r = [scan EXCEPT !.stage = "profile", !.page = raw[j].page]
           /\ raw[j].page # Challenge /\ raw[j].expiresAt > now
  <2>1. Begun(r, j, "profile", raw[j].page)
    BY <1>1, <1>2, <1>6 DEF Begun, Scan
  <2>2. raw[j].page # None
    BY <1>1, <1>6 DEF IInv, Clean
  <2>3. raw[j].page \in Postings /\ Touched(j)
    BY <1>1, <1>6, <2>2 DEF Touched, Pages
  <2> QED
    BY <1>1, <2>1, <2>3, BegunGood DEF Analyze, ScanMoves, caches
<1> QED
  BY <1>3, <1>4, <1>5, <1>6

LEMMA OtherBeginsMove ==
  ASSUME IInv, NEW s \in Scans,
         AnalyzeScreenshots(s) \/ \E k \in Keys, savedAt \in 0..MaxTime : Import(s, k, savedAt)
  PROVE  ScanMoves(s)
<1>1. now \in 0..MaxTime /\ {"limit", "record"} \subseteq Stages /\ Screenshots \in Keys
  BY DEF IInv, TypeOK, Stages, Keys
<1>2. CASE AnalyzeScreenshots(s)
  <2> DEFINE r == [Idle EXCEPT !.stage = "limit", !.key = Screenshots, !.at = now, !.want = "full"]
  <2>1. Begun(r, Screenshots, "limit", None)
    BY <1>1, IdleFields DEF Begun, Scan, Depths
  <2>2. r \in Scan /\ Good(r)
    BY <1>1, <2>1, BegunGood
  <2> QED
    BY <1>2, <2>2 DEF AnalyzeScreenshots, ScanMoves, caches
<1>3. ASSUME NEW k \in Keys, NEW savedAt \in 0..MaxTime, Import(s, k, savedAt) PROVE ScanMoves(s)
  <2> DEFINE r == [Idle EXCEPT !.stage = "record", !.key = k, !.at = savedAt]
  <2>1. Begun(r, k, "record", None)
    BY <1>1, IdleFields DEF Begun, Scan
  <2>2. r \in Scan /\ Good(r)
    BY <1>1, <2>1, BegunGood
  <2> QED
    BY <1>3, <2>2 DEF Import, ScanMoves, caches
<1> QED
  BY <1>2, <1>3

LEMMA KinGood ==
  ASSUME IInv, NEW s \in Scans, NEW r, Sound(r), ~At(s, "store"), r.stage # "delete",
         r.key = scans[s].key, r.page = scans[s].page, Reports(r) => Kept(r.profile, r.page)
  PROVE  Good(r)
BY ScanHolds DEF Good, Fit, Holds, At

LEMMA MovedSound ==
  ASSUME IInv, NEW s \in Scans, NEW stage \in Stages, NEW r, Moved(r, s, stage),
         \/ At(s, "negative") /\ stage = "limit"
         \/ At(s, "clear") /\ stage = "profile"
         \/ At(s, "fetch") /\ stage = "forbid"
         \/ At(s, "vision") /\ stage = "count"
         \/ At(s, "persist") /\ stage = "count"
         \/ At(s, "count") /\ stage = "record"
  PROVE  Sound(r)
BY ScanHolds, NamesDiffer DEF Moved, Sound, At, UrlStages, PageStages, Reports

\* The scans that read, fetch, count and look at the limits.
LEMMA AsksMove ==
  ASSUME IInv, NEW s \in Scans,
         \/ ReadNegative(s) \/ CheckLimit(s) \/ Fetch(s) \/ ReadProfile(s)
         \/ Count(s) \/ ParseScreenshots(s) \/ Breaks(s)
  PROVE  ScanMoves(s)
<1>0. scans[s] \in Scan /\ Sound(scans[s]) /\ Good(scans[s])
  BY ScanHolds
<1>1. UNCHANGED <<raw, analyses, given, spoiled>>
  BY DEF ReadNegative, CheckLimit, Fetch, ReadProfile, Count, ParseScreenshots, Breaks, caches
<1>2. ASSUME Ends(s) PROVE ScanMoves(s)
  BY <1>1, <1>2, EndsMoves
<1>3. ASSUME NEW stage \in Stages \ {"delete"}, Goes(s, stage), ~At(s, "store"),
             \A r : Moved(r, s, stage) => Sound(r) /\ (Reports(r) => Kept(r.profile, r.page))
      PROVE  ScanMoves(s)
  <2>1. PICK r \in Scan : Moved(r, s, stage) /\ scans' = [scans EXCEPT ![s] = r]
    BY <1>3, GoesMoves
  <2>2. Good(r)
    BY <1>3, <2>1, KinGood DEF Moved
  <2> QED
    BY <1>1, <2>1, <2>2 DEF ScanMoves
<1>4. CASE ReadNegative(s)
  BY <1>2, <1>3, <1>4, MovedSound DEF ReadNegative, At, Stages, Moved, Reports
<1>5. CASE Count(s)
  <2>1. \A r : Moved(r, s, "record") => Sound(r)
    BY <1>5, MovedSound DEF Count, Stages
  <2>2. \A r : Moved(r, s, "record") /\ Reports(r) => Kept(r.profile, r.page)
    BY <1>0, <1>5 DEF Count, At, Moved, Good, Fit, Reports
  <2> QED
    BY <1>2, <1>3, <1>5, <2>1, <2>2 DEF Count, At, Stages
<1>6. CASE ParseScreenshots(s)
  <2>1. \A r : Moved(r, s, "count") => Sound(r) /\ ~Reports(r)
    BY <1>0, <1>6, MovedSound, NamesDiffer DEF ParseScreenshots, Stages, Moved, Reports, Sound, At
  <2> QED
    BY <1>2, <1>3, <1>6, <2>1 DEF ParseScreenshots, At, Stages
<1>7. CASE Breaks(s)
  BY <1>2, <1>7 DEF Breaks
<1>8. CASE Fetch(s)
  <2>1. ASSUME NEW h \in Postings, scans' = [scans EXCEPT ![s].stage = "store", ![s].page = h]
        PROVE  ScanMoves(s)
    <3> DEFINE r == [scans[s] EXCEPT !.stage = "store", !.page = h]
    <3>1. r \in Scan /\ r.stage = "store" /\ r.page = h /\ r.key = scans[s].key
      BY <1>0 DEF Scan, Stages, Pages
    <3>2. Sound(r)
      BY <1>0, <1>8, <3>1, NamesDiffer DEF Fetch, At, Sound, UrlStages, PageStages, Reports, Keys
    <3>3. Good(r)
      BY <3>1, <3>2 DEF Good, Fit, Holds, Reports
    <3>4. scans' = [scans EXCEPT ![s] = r]
      BY <2>1
    <3> QED
      BY <1>1, <3>1, <3>3, <3>4 DEF ScanMoves
  <2>2. \A r : Moved(r, s, "forbid") => Sound(r) /\ ~Reports(r)
    BY <1>8, MovedSound DEF Fetch, Stages, Moved, Reports
  <2> QED
    BY <1>2, <1>3, <1>8, <2>1, <2>2 DEF Fetch, At, Stages
<1>9. CASE ReadProfile(s)
  <2> DEFINE p == IF scans[s].want = "lite" THEN None ELSE profile
  <2> DEFINE r == [scans[s] EXCEPT !.stage = "cached", !.profile = p]
  <2>1. p \in Profiles \cup {None}
    BY DEF IInv, TypeOK
  <2>2. r \in Scan /\ r.stage = "cached" /\ r.page = scans[s].page /\ r.key = scans[s].key
    BY <1>0, <2>1 DEF Scan, Stages
  <2>3. Sound(r)
    BY <1>0, <1>9, <2>2 DEF ReadProfile, At, Sound, UrlStages, PageStages, Reports
  <2>4. Good(r)
    BY <1>9, <2>2, <2>3, KinGood DEF ReadProfile, At, Reports
  <2>5. scans' = [scans EXCEPT ![s] = r]
    BY <1>9 DEF ReadProfile
  <2> QED
    BY <1>1, <2>2, <2>4, <2>5 DEF ScanMoves
<1>10. CASE CheckLimit(s)
  <2>1. PICK depth : \/ Ends(s)
                     \/ /\ depth \in Depths
                        /\ scans' = [scans EXCEPT ![s].depth = depth,
                             ![s].want = IF @ = "lite" THEN "lite" ELSE "auto",
                             ![s].stage = IF scans[s].key = Screenshots THEN "vision" ELSE "fetch"]
    BY <1>10 DEF CheckLimit, Remaining
  <2>2. CASE ~Ends(s)
    <3> DEFINE want == IF scans[s].want = "lite" THEN "lite" ELSE "auto"
    <3> DEFINE stage == IF scans[s].key = Screenshots THEN "vision" ELSE "fetch"
    <3> DEFINE r == [scans[s] EXCEPT !.depth = depth, !.want = want, !.stage = stage]
    <3>1. /\ depth \in Depths /\ want \in Depths \cup {"auto"}
          /\ stage \in Stages /\ stage \in {"vision", "fetch"}
      BY <2>1, <2>2 DEF Depths, Stages
    <3>2. /\ r \in Scan /\ r.stage = stage /\ r.page = scans[s].page /\ r.key = scans[s].key
      BY <1>0, <3>1 DEF Scan
    <3>3. Sound(r)
      BY <1>0, <1>10, <3>2 DEF CheckLimit, At, Sound, UrlStages, PageStages, Reports, Keys
    <3>4. Good(r)
      BY <1>10, <3>1, <3>2, <3>3, KinGood DEF CheckLimit, At, Reports
    <3>5. scans' = [scans EXCEPT ![s] = r]
      BY <2>1, <2>2
    <3> QED
      BY <1>1, <3>2, <3>4, <3>5 DEF ScanMoves
  <2> QED
    BY <1>2, <2>2
<1> QED
  BY <1>4, <1>5, <1>6, <1>7, <1>8, <1>9, <1>10

\* A scan that goes on to its answer, knowing page and depth.
LEMMA AnsweringGood ==
  ASSUME IInv, NEW s \in Scans, At(s, "cached") \/ At(s, "depth"),
         NEW stage \in {"count", "record", "persist"}, NEW depth \in Depths,
         stage = "persist" => depth = "full" /\ scans[s].profile # None,
         stage # "persist" /\ depth = "full" => scans[s].profile # None /\ Kept(scans[s].profile, scans[s].page),
         NEW r, r = Answering(scans[s], stage, depth)
  PROVE  r \in Scan /\ Good(r)
<1>0. scans[s] \in Scan /\ Sound(scans[s]) /\ Good(scans[s])
  BY ScanHolds
<1>1. /\ r \in Scan /\ r.stage = stage /\ r.depth = depth /\ r.key = scans[s].key
      /\ r.page = scans[s].page /\ r.profile = scans[s].profile
  BY <1>0 DEF Answering, Scan, Stages
<1>2. scans[s].key \in Jobs /\ scans[s].page \in Postings
  BY <1>0 DEF Sound, At, UrlStages, PageStages
<1>3. scans[s].profile # None => scans[s].profile \in Profiles
  BY <1>0 DEF Scan
<1>4. Sound(r)
  BY <1>1, <1>2, <1>3, NamesDiffer DEF Sound, UrlStages, PageStages, Reports, Keys
<1> QED
  BY <1>1, <1>4, KinGood DEF At, Reports

LEMMA AfterDepthMoves ==
  ASSUME IInv, NEW s \in Scans, At(s, "cached") \/ At(s, "depth"), NEW depth \in Depths,
         scans' = [scans EXCEPT ![s] = AfterDepth(scans[s], depth)],
         UNCHANGED <<raw, analyses, given, spoiled>>
  PROVE  ScanMoves(s)
<1>1. CASE depth = "lite"
  <2> DEFINE r == Answering(scans[s], "count", depth)
  <2>1. r \in Scan /\ Good(r)
    BY <1>1, AnsweringGood
  <2>2. scans' = [scans EXCEPT ![s] = r]
    BY <1>1 DEF AfterDepth
  <2> QED
    BY <2>1, <2>2 DEF ScanMoves
<1>2. CASE depth = "full" /\ scans[s].profile # None
  <2> DEFINE r == Answering(scans[s], "persist", depth)
  <2>1. r \in Scan /\ Good(r)
    BY <1>2, AnsweringGood
  <2>2. scans' = [scans EXCEPT ![s] = r]
    BY <1>2 DEF AfterDepth
  <2> QED
    BY <2>1, <2>2 DEF ScanMoves
<1>3. CASE depth = "full" /\ scans[s].profile = None
  <2>1. Ends(s)
    BY <1>3 DEF AfterDepth, Ends
  <2> QED
    BY <2>1, EndsMoves
<1> QED
  BY <1>1, <1>2, <1>3 DEF Depths

LEMMA DecidesMove ==
  ASSUME IInv, NEW s \in Scans, ReadAnalysis(s) \/ ResolveDepth(s)
  PROVE  ScanMoves(s)
<1>0. scans[s] \in Scan /\ Sound(scans[s]) /\ Good(scans[s])
  BY ScanHolds
<1>1. UNCHANGED <<raw, analyses, given, spoiled>> /\ (At(s, "cached") \/ At(s, "depth"))
  BY DEF ReadAnalysis, ResolveDepth, caches
<1>2. CASE ResolveDepth(s)
  <2> DEFINE depth == Depth(scans[s].want, scans[s].at)
  <2>1. \/ Ends(s)
        \/ depth \in Depths /\ scans' = [scans EXCEPT ![s] = AfterDepth(scans[s], depth)]
    BY <1>2 DEF ResolveDepth, Remaining, Ends
  <2> QED
    BY <1>1, <2>1, EndsMoves, AfterDepthMoves
<1>3. CASE ReadAnalysis(s)
  <2> DEFINE hit == /\ ~scans[s].again /\ scans[s].profile # None
                    /\ analyses[scans[s].profile][scans[s].page] # None
  <2>1. CASE hit
    <3> DEFINE r == Answering(scans[s], "record", "full")
    <3>1. r \in Scan /\ Good(r)
      BY <1>3, <2>1, AnsweringGood DEF ReadAnalysis, Kept, Depths
    <3>2. scans' = [scans EXCEPT ![s] = r]
      BY <1>3, <2>1 DEF ReadAnalysis
    <3> QED
      BY <1>1, <3>1, <3>2 DEF ScanMoves
  <2>2. CASE ~hit /\ scans[s].depth = None
    <3> DEFINE r == [scans[s] EXCEPT !.stage = "depth"]
    <3>1. r \in Scan /\ r.stage = "depth" /\ r.key = scans[s].key /\ r.page = scans[s].page
      BY <1>0 DEF Scan, Stages
    <3>2. Sound(r)
      BY <1>0, <1>3, <3>1 DEF ReadAnalysis, At, Sound, UrlStages, PageStages, Reports
    <3>3. Good(r)
      BY <1>3, <3>1, <3>2, KinGood DEF ReadAnalysis, At, Reports
    <3>4. scans' = [scans EXCEPT ![s] = r]
      BY <1>3, <2>2 DEF ReadAnalysis
    <3> QED
      BY <1>1, <3>1, <3>3, <3>4 DEF ScanMoves
  <2>3. CASE ~hit /\ scans[s].depth # None
    <3>1. scans' = [scans EXCEPT ![s] = AfterDepth(scans[s], scans[s].depth)]
      BY <1>3, <2>3 DEF ReadAnalysis
    <3>2. scans[s].depth \in Depths
      BY <1>0, <2>3 DEF Scan
    <3> QED
      BY <1>1, <3>1, <3>2, AfterDepthMoves
  <2> QED
    BY <2>1, <2>2, <2>3
<1> QED
  BY <1>2, <1>3

-----------------------------------------------------------------------------
(* The steps that invalidate, store and answer.                            *)

\* After one of its deletes an invalidation goes on or is over.
LEMMA DeletedGood ==
  ASSUME IInv, NEW s \in Scans, At(s, "delete"), NEW what, Deleted(s, what)
  PROVE  \E r \in Scan : Good(r) /\ scans' = [scans EXCEPT ![s] = r]
<1>0. scans[s] \in Scan /\ Sound(scans[s]) /\ Good(scans[s])
  BY ScanHolds
<1>1. CASE scans[s].due = {what}
  <2> DEFINE r == [scans[s] EXCEPT !.stage = "negative", !.due = {}, !.late = FALSE]
  <2>1. r \in Scan /\ r.stage = "negative" /\ r.key = scans[s].key /\ r.page = scans[s].page
    BY <1>0 DEF Scan, Stages
  <2>2. Sound(r)
    BY <1>0, <2>1 DEF At, Sound, UrlStages, PageStages, Reports
  <2>3. Good(r)
    BY <2>1, <2>2, KinGood DEF At, Reports
  <2>4. scans' = [scans EXCEPT ![s] = r]
    BY <1>1 DEF Deleted
  <2> QED
    BY <2>1, <2>3, <2>4
<1>2. CASE scans[s].due # {what}
  <2> DEFINE r == [scans[s] EXCEPT !.due = scans[s].due \ {what}]
  <2>0. scans[s].due \ {what} \in SUBSET Collections
    BY <1>0 DEF Scan
  <2>1. /\ r \in Scan /\ r.stage = "delete" /\ r.key = scans[s].key /\ r.page = scans[s].page
        /\ r.late = scans[s].late
    BY <1>0, <2>0 DEF Scan, At
  <2>2. Sound(r)
    BY <1>0, <2>1 DEF At, Sound, UrlStages, PageStages, Reports
  <2>3. Good(r)
    BY <1>0, <2>1, <2>2 DEF At, Good, Fit, Holds, Reports
  <2>4. scans' = [scans EXCEPT ![s] = r]
    BY <1>2 DEF Deleted
  <2> QED
    BY <2>1, <2>3, <2>4
<1> QED
  BY <1>1, <1>2

LEMMA RestHolds == ASSUME IInv PROVE RestTyped
BY DEF IInv, TypeOK, RestTyped

LEMMA InvalidatesQuiet ==
  ASSUME IInv, NEW s \in Scans, DeleteRaw(s) \/ DeleteAnalyses(s) \/ DeleteNegative(s)
  PROVE  Quiet
<1>0. scans[s] \in Scan /\ Sound(scans[s]) /\ Good(scans[s]) /\ At(s, "delete") /\ scans[s].key \in Jobs
  BY ScanHolds DEF DeleteRaw, DeleteAnalyses, DeleteNegative, Sound, At, UrlStages
<1>1. PICK r \in Scan : Good(r) /\ scans' = [scans EXCEPT ![s] = r]
  BY <1>0, DeletedGood DEF DeleteRaw, DeleteAnalyses, DeleteNegative
<1>2. /\ scans' \in [Scans -> Scan]
      /\ \A q \in Scans : \E x \in Scan : Good(x) /\ scans'[q] = x
  BY <1>1, BecomesGood
<1>3. RestTyped'
  BY RestHolds DEF RestTyped, DeleteRaw, DeleteAnalyses, DeleteNegative, user
<1>4. CASE DeleteRaw(s)
  <2>1. raw \in [Jobs -> [page : Pages \cup {None}, expiresAt : Expiries]] /\ 0 \in Expiries
    BY NamesDiffer DEF IInv, TypeOK, Expiries
  <2>2. Emptied
    BY <1>0, <1>4, <2>1 DEF DeleteRaw, Emptied, NoPage
  <2>3. Noted /\ Backed
    BY <1>4, UnchangedEasy DEF DeleteRaw
  <2> QED
    BY <1>2, <1>3, <2>2, <2>3 DEF Quiet
<1>5. CASE DeleteNegative(s)
  BY <1>2, <1>3, <1>5, UnchangedEasy DEF DeleteNegative, Quiet
<1>6. CASE DeleteAnalyses(s)
  <2> DEFINE k == scans[s].key
  <2>1. /\ analyses \in [Profiles -> [Pages -> Jobs \cup {None}]]
        /\ spoiled \subseteq Profiles \X Pages
    BY DEF IInv, TypeOK
  <2>2. /\ analyses' \in [Profiles -> [Pages -> Jobs \cup {None}]]
        /\ \A p \in Profiles, h \in Pages :
             analyses'[p][h] = IF analyses[p][h] = k THEN None ELSE analyses[p][h]
    BY <1>6, <2>1 DEF DeleteAnalyses
  <2>3. spoiled \subseteq spoiled' /\ spoiled' \subseteq Profiles \X Pages
    BY <1>6, <2>1 DEF DeleteAnalyses
  <2>4. ASSUME NEW p \in Profiles, NEW h \in Pages, analyses[p][h] = k PROVE <<p, h>> \in spoiled'
    <3>1. scans[s].late
      BY <1>0, <2>4 DEF Good, Fit, At, Touched
    <3> QED
      BY <1>6, <2>4, <3>1 DEF DeleteAnalyses
  <2>5. Noted
    BY <2>2, <2>3, <2>4 DEF Noted
  <2>6. Emptied /\ Backed
    BY <1>6, UnchangedEasy DEF DeleteAnalyses
  <2> QED
    BY <1>2, <1>3, <2>5, <2>6 DEF Quiet
<1> QED
  BY <1>4, <1>5, <1>6

\* A refusal that is remembered, and one that is forgotten.
LEMMA NegativeQuiet == ASSUME IInv, NEW s \in Scans, Forbid(s) \/ ClearNegative(s) PROVE Quiet
<1>0. /\ scans[s] \in Scan /\ Sound(scans[s]) /\ scans[s].key \in Jobs /\ scans[s].at \in Nat
      /\ negative \in [Jobs -> Nat]
  BY ScanHolds, NamesDiffer DEF Forbid, ClearNegative, Sound, At, UrlStages, Scan, IInv, TypeOK
<1>1. CASE Forbid(s)
  <2>1. ScanMoves(s)
    BY <1>1, EndsMoves DEF Forbid
  <2>2. negative' \in [Jobs -> Nat]
    BY <1>0, <1>1, NamesDiffer DEF Forbid
  <2>3. RestTyped'
    BY <1>1, <2>2, RestHolds DEF Forbid, RestTyped, user
  <2> QED
    BY <2>1, <2>3, MovesQuiet
<1>2. CASE ClearNegative(s)
  <2>1. PICK r \in Scan : Moved(r, s, "profile") /\ scans' = [scans EXCEPT ![s] = r]
    BY <1>2, GoesMoves DEF ClearNegative, Stages
  <2>2. Sound(r)
    BY <1>2, <2>1, MovedSound DEF ClearNegative, Stages
  <2>3. Good(r)
    BY <1>2, <2>1, <2>2, KinGood DEF ClearNegative, At, Moved, Reports
  <2>4. ScanMoves(s)
    BY <1>2, <2>1, <2>3 DEF ClearNegative, ScanMoves
  <2>5. RestTyped'
    BY <1>0, <1>2, RestHolds DEF ClearNegative, RestTyped, user
  <2> QED
    BY <2>4, <2>5, MovesQuiet
<1> QED
  BY <1>1, <1>2

\* An analysis that is stored is one of a URL that is touched.
LEMMA PersistQuiet == ASSUME IInv, NEW s \in Scans, Persist(s) PROVE Quiet
<1>0. /\ scans[s] \in Scan /\ Sound(scans[s]) /\ Good(scans[s]) /\ At(s, "persist")
      /\ scans[s].key \in Jobs /\ scans[s].profile \in Profiles /\ scans[s].page \in Postings
  BY ScanHolds DEF Persist, Sound, At, UrlStages, PageStages
<1>1. RestTyped'
  BY RestHolds DEF Persist, RestTyped, user
<1>2. CASE Ends(s) /\ UNCHANGED analyses
  <2>1. ScanMoves(s)
    BY <1>2, EndsMoves DEF Persist
  <2> QED
    BY <1>1, <2>1, MovesQuiet
<1>3. CASE /\ analyses' = [analyses EXCEPT ![scans[s].profile][scans[s].page] = scans[s].key]
           /\ Goes(s, "count")
  <2> DEFINE k == scans[s].key
  <2>1. PICK r \in Scan : Moved(r, s, "count") /\ scans' = [scans EXCEPT ![s] = r]
    BY <1>3, GoesMoves DEF Stages
  <2>2. Touched(k)
    BY <1>0, NamesDiffer DEF Touched, Holds, At
  <2>3. Sound(r)
    BY <1>0, <2>1, MovedSound DEF Stages
  <2>4. Fit(r)
    BY <2>1, <2>2, <2>3 DEF Fit, Moved
  <2>5. /\ analyses' \in [Profiles -> [Pages -> Jobs \cup {None}]]
        /\ analyses'[scans[s].profile][scans[s].page] = k
        /\ \A p \in Profiles, h \in Pages : analyses'[p][h] = analyses[p][h] \/ analyses'[p][h] = k
    BY <1>0, <1>3 DEF IInv, TypeOK, Pages
  <2>6. Kept(r.profile, r.page)'
    BY <1>0, <2>1, <2>5, NamesDiffer DEF Kept, Moved, Keys
  <2>7. /\ scans' \in [Scans -> Scan] /\ scans'[s] = r
        /\ \A q \in Scans : q # s => scans'[q] = scans[q]
    BY <2>1 DEF IInv, TypeOK
  <2>8. \A q \in Scans : \E x \in Scan :
          /\ scans'[q] = x
          /\ Good(x) \/ (Fit(x) /\ Kept(x.profile, x.page)')
    BY <2>4, <2>6, <2>7 DEF IInv, TypeOK
  <2>9. Noted
    <3>1. spoiled' = spoiled /\ spoiled \subseteq Profiles \X Pages
      BY DEF Persist, IInv, TypeOK
    <3> QED
      BY <1>0, <2>2, <2>5, <3>1 DEF Noted
  <2>10. Emptied /\ Backed
    BY UnchangedEasy DEF Persist
  <2> QED
    BY <1>1, <2>7, <2>8, <2>9, <2>10 DEF Quiet
<1> QED
  BY <1>2, <1>3 DEF Persist

\* A newer entry of the history keeps its place; else this one is written.
LEMMA AnswersQuiet == ASSUME IInv, NEW s \in Scans, ReadHistory(s) \/ WriteHistory(s) PROVE Quiet
<1>0. /\ scans[s] \in Scan /\ Sound(scans[s]) /\ Good(scans[s])
      /\ scans[s].key \in Keys /\ scans[s].at \in 0..MaxTime
      /\ At(s, "record") \/ At(s, "write")
      /\ history \in [Keys -> NoEntry..MaxTime]
  BY ScanHolds DEF ReadHistory, WriteHistory, Sound, At, Scan, IInv, TypeOK
<1>1. ASSUME given' = Given(scans[s]) PROVE Backed
  <2>1. given \subseteq Profiles \X Pages
    BY DEF IInv, TypeOK
  <2>2. CASE ~Reports(scans[s])
    <3>1. given' = given
      BY <1>0, <1>1, <2>2 DEF Given, Reports, At
    <3> QED
      BY <3>1, UnchangedEasy
  <2>3. CASE Reports(scans[s])
    <3>1. /\ scans[s].profile \in Profiles /\ scans[s].page \in Pages /\ scans[s].page # Challenge
          /\ Kept(scans[s].profile, scans[s].page)
      BY <1>0, <2>3, NamesDiffer DEF Sound, Good, Pages
    <3>2. given' \subseteq given \cup {<<scans[s].profile, scans[s].page>>}
      BY <1>1 DEF Given
    <3> QED
      BY <2>1, <3>1, <3>2 DEF Backed
  <2> QED
    BY <2>2, <2>3
<1>2. CASE Ends(s) /\ given' = Given(scans[s]) /\ UNCHANGED <<raw, analyses, spoiled>> /\ RestTyped'
  <2>1. scans' = [scans EXCEPT ![s] = Idle]
    BY <1>2 DEF Ends
  <2> QED
    BY <1>1, <1>2, <2>1, IdleHolds, BecomesGood, UnchangedEasy DEF Quiet
<1>3. CASE WriteHistory(s)
  <2>1. history' \in [Keys -> NoEntry..MaxTime]
    BY <1>0, <1>3, NamesDiffer DEF WriteHistory, NoEntry
  <2> QED
    BY <1>2, <1>3, <2>1, RestHolds DEF WriteHistory, RestTyped, user, caches
<1>4. CASE ReadHistory(s) /\ history[scans[s].key] > scans[s].at
  BY <1>2, <1>4, RestHolds DEF ReadHistory, RestTyped, user, caches
<1>5. CASE ReadHistory(s) /\ ~(history[scans[s].key] > scans[s].at)
  <2> DEFINE seen == history[scans[s].key]
  <2> DEFINE r == [scans[s] EXCEPT !.stage = "write", !.seen = seen]
  <2>1. seen \in NoEntry..MaxTime /\ seen <= scans[s].at
    BY <1>0, <1>5, NamesDiffer DEF NoEntry
  <2>2. /\ r \in Scan /\ r.stage = "write" /\ r.seen = seen
        /\ r.key = scans[s].key /\ r.page = scans[s].page /\ r.at = scans[s].at
        /\ r.depth = scans[s].depth /\ r.profile = scans[s].profile
    BY <1>0, <2>1 DEF Scan, Stages
  <2>3. Reports(r) => Reports(scans[s])
    BY <1>5, <2>2 DEF ReadHistory, At, Reports
  <2>4. Sound(r)
    BY <1>0, <1>5, <2>1, <2>2, <2>3 DEF ReadHistory, At, Sound, UrlStages, PageStages
  <2>5. Good(r)
    BY <1>0, <1>5, <2>2, <2>3, <2>4, KinGood DEF ReadHistory, At, Good
  <2>6. scans' = [scans EXCEPT ![s] = r]
    BY <1>5 DEF ReadHistory
  <2>7. ScanMoves(s)
    BY <1>5, <2>2, <2>5, <2>6 DEF ReadHistory, ScanMoves, caches
  <2> QED
    BY <1>5, <2>7, MovesQuiet, RestHolds DEF ReadHistory, RestTyped, user, caches
<1> QED
  BY <1>3, <1>4, <1>5

\* Steps of nobody's scan.
LEMMA WorldQuiet == ASSUME IInv, EditProfile \/ RemoveExpired \/ Tick \/ UNCHANGED vars PROVE Quiet
<1>0. scans \in [Scans -> Scan] /\ \A j \in Jobs : raw[j] \in [page : Pages \cup {None}, expiresAt : Expiries]
  BY DEF IInv, TypeOK
<1>1. UNCHANGED <<scans, analyses, given, spoiled>>
  BY DEF EditProfile, RemoveExpired, Tick, vars, caches
<1>2. Emptied
  <2>1. CASE UNCHANGED raw
    BY <2>1, UnchangedEasy
  <2>2. ASSUME NEW j \in Jobs, raw' = [raw EXCEPT ![j] = NoPage] PROVE Emptied
    <3>1. NoPage \in [page : Pages \cup {None}, expiresAt : Expiries]
      BY NamesDiffer DEF NoPage, Expiries
    <3>2. raw \in [Jobs -> [page : Pages \cup {None}, expiresAt : Expiries]]
      BY DEF IInv, TypeOK
    <3> QED
      BY <2>2, <3>1, <3>2 DEF Emptied
  <2> QED
    BY <2>1, <2>2 DEF EditProfile, RemoveExpired, Tick, vars, caches
<1>3. RestTyped'
  <2>1. CASE EditProfile \/ UNCHANGED vars
    BY <2>1, RestHolds DEF EditProfile, vars, RestTyped, user, caches
  <2>2. CASE Tick
    BY <2>2, RestHolds, NamesDiffer DEF Tick, RestTyped, user, caches
  <2>3. CASE RemoveExpired
    BY <2>3, RestHolds DEF RemoveExpired, RestTyped, user
  <2> QED
    BY <2>1, <2>2, <2>3
<1>4. Noted /\ Backed /\ \A q \in Scans : \E r \in Scan : Good(r) /\ scans'[q] = r
  BY <1>1, UnchangedEasy
<1>5. scans' \in [Scans -> Scan]
  BY <1>0, <1>1
<1> QED
  BY <1>2, <1>3, <1>4, <1>5 DEF Quiet

\* A posting that is stored touches its URL: every other scan that deletes for it is late.
LEMMA StoreHolds == ASSUME IInv, NEW s \in Scans, Store(s) PROVE IInv'
<1> DEFINE k == scans[s].key
<1>0. /\ scans[s] \in Scan /\ Sound(scans[s]) /\ Good(scans[s]) /\ At(s, "store")
      /\ k \in Jobs /\ scans[s].page \in Postings /\ scans[s].at \in 0..MaxTime
      /\ scans \in [Scans -> Scan]
      /\ raw \in [Jobs -> [page : Pages \cup {None}, expiresAt : Expiries]]
  BY ScanHolds DEF Store, Sound, At, UrlStages, PageStages, Scan, IInv, TypeOK
<1>1. UNCHANGED <<now, negative, analyses, history, user, given, spoiled>>
  BY DEF Store
<1>2. /\ raw' \in [Jobs -> [page : Pages \cup {None}, expiresAt : Expiries]]
      /\ raw'[k].page = scans[s].page
      /\ \A j \in Jobs : j # k => raw'[j] = raw[j]
  <2>1. scans[s].at + PageTtl \in Expiries
    BY <1>0, NamesDiffer DEF Expiries
  <2> QED
    BY <1>0, <2>1 DEF Store, Pages
<1>3. PICK r \in Scan : r = scans'[s] /\ Moved(r, s, "clear")
  <2> DEFINE r == [scans[s] EXCEPT !.stage = "clear"]
  <2>1. r \in Scan /\ Moved(r, s, "clear")
    BY <1>0 DEF Scan, Stages, Moved
  <2>2. scans'[s] = r
    BY DEF Store
  <2> QED
    BY <2>1, <2>2
<1>4. Sound(r)
  BY <1>0, <1>3 DEF Moved, At, Sound, UrlStages, PageStages, Reports
<1>5. ASSUME NEW q \in Scans, q # s
      PROVE  \E x \in Scan : /\ x = scans'[q] /\ Sound(x) /\ x.key = scans[q].key /\ x.stage = scans[q].stage
                             /\ x.page = scans[q].page /\ x.profile = scans[q].profile
                             /\ x.depth = scans[q].depth
                             /\ x.late = (scans[q].late \/ (At(q, "delete") /\ scans[q].key = k))
  <2>1. scans[q] \in Scan /\ Sound(scans[q])
    BY ScanHolds
  <2>2. CASE At(q, "delete") /\ scans[q].key = k
    <3> DEFINE x == [scans[q] EXCEPT !.late = TRUE]
    <3>1. /\ x \in Scan /\ x.key = scans[q].key /\ x.stage = scans[q].stage /\ x.at = scans[q].at
          /\ x.page = scans[q].page /\ x.profile = scans[q].profile /\ x.depth = scans[q].depth
          /\ x.seen = scans[q].seen /\ x.late = TRUE
      BY <2>1 DEF Scan
    <3>2. Sound(x)
      BY <2>1, <3>1 DEF Sound, Reports
    <3>3. scans'[q] = x
      BY <1>5, <2>2 DEF Store
    <3> QED
      BY <2>2, <3>1, <3>2, <3>3
  <2>3. CASE ~(At(q, "delete") /\ scans[q].key = k)
    <3>1. scans'[q] = scans[q] /\ scans[q].late \in BOOLEAN
      BY <1>5, <2>1, <2>3 DEF Store, Scan
    <3> QED
      BY <2>1, <2>3, <3>1
  <2> QED
    BY <2>2, <2>3
<1>6. \A q \in Scans : \E x \in Scan : x = scans'[q] /\ Sound(x)
  BY <1>3, <1>4, <1>5
<1>7. scans' \in [Scans -> Scan]
  BY <1>6 DEF Store
<1>8. \A j \in Jobs : j # k /\ Touched(j)' => Touched(j)
  <2>1. ASSUME NEW j \in Jobs, j # k, NEW q \in Scans, Holds(scans'[q]), scans'[q].key = j PROVE Touched(j)
    <3>1. q # s
      BY <1>3, <2>1 DEF Moved
    <3>2. Holds(scans[q]) /\ scans[q].key = j
      BY <1>5, <2>1, <3>1 DEF Holds
    <3> QED
      BY <3>2 DEF Touched
  <2> QED
    BY <1>1, <1>2, <2>1 DEF Touched, Holds
<1>9. ASSUME NEW q \in Scans PROVE Good(scans[q])'
  <2>1. PICK x \in Scan : x = scans'[q] /\ Sound(x)
    BY <1>6
  <2>2. Holds(x) => Touched(x.key)'
    BY <2>1 DEF Touched
  <2>3. CASE q = s
    BY <1>3, <2>1, <2>2, <2>3 DEF Good, Fit, Moved, Reports
  <2>4. CASE q # s
    <3>1. x.stage = "delete" => x.late \/ ~Touched(x.key)'
      <4> SUFFICES ASSUME x.stage = "delete", ~x.late PROVE ~Touched(x.key)'
        OBVIOUS
      <4>1. /\ scans[q].stage = "delete" /\ x.key = scans[q].key
            /\ ~scans[q].late /\ scans[q].key # k
        BY <1>5, <2>1, <2>4 DEF At
      <4>2. Good(scans[q]) /\ scans[q].key \in Jobs
        BY <4>1, ScanHolds DEF Sound, UrlStages
      <4>3. ~Touched(scans[q].key)
        BY <4>1, <4>2 DEF Good, Fit
      <4>4. x.key \in Jobs /\ x.key # k /\ ~Touched(x.key)
        BY <4>1, <4>2, <4>3
      <4> QED
        BY <1>8, <4>4
    <3>2. Reports(x) => Kept(x.profile, x.page)'
      BY <1>1, <1>5, <2>1, <2>4, ScanHolds DEF Good, Kept, Reports
    <3>3. Good(x)'
      BY <2>1, <2>2, <3>1, <3>2 DEF Good, Fit
    <3> QED
      BY <2>1, <3>3
  <2> QED
    BY <2>3, <2>4
<1>10. Clean'
  BY <1>0, <1>2, <1>8, NamesDiffer DEF IInv, Clean
<1>11. Answered'
  BY <1>1 DEF IInv, Answered, Kept
<1>12. TypeOK'
  BY <1>1, <1>2, <1>6, <1>7, SoundTyped DEF IInv, TypeOK, user, At
<1> QED
  BY <1>9, <1>10, <1>11, <1>12 DEF IInv

-----------------------------------------------------------------------------
(* The theorems.                                                           *)

LEMMA InitHolds == Init => IInv
<1> SUFFICES ASSUME Init PROVE IInv
  OBVIOUS
<1>1. \A s \in Scans : scans[s] = Idle
  BY DEF Init
<1>2. \A s \in Scans : Good(scans[s])
  BY <1>1, IdleHolds
<1>3. \A j \in Jobs : raw[j] = NoPage \/ raw[j] = [page |-> Challenge, expiresAt |-> PageTtl]
  BY DEF Init
<1>4. \A j \in Jobs : ~Touched(j)
  <2>1. \A j \in Jobs : raw[j].page \notin Postings
    BY <1>3, NamesDiffer DEF NoPage
  <2>2. \A j \in Jobs, p \in Profiles, h \in Pages : analyses[p][h] # j
    BY NamesDiffer DEF Init, Keys
  <2> QED
    BY <1>1, <2>1, <2>2, IdleHolds DEF Touched
<1>5. Clean
  BY <1>3, <1>4, NamesDiffer DEF Clean, NoPage
<1>6. Answered
  BY DEF Init, Answered
<1>7. TypeOK
  <2>1. raw \in [Jobs -> [page : Pages \cup {None}, expiresAt : Expiries]]
    BY NamesDiffer DEF Init, NoPage, Pages, Expiries
  <2>2. scans \in [Scans -> Scan] /\ Idle.stage = "idle"
    BY IdleHolds DEF Init
  <2>3. exhausted \subseteq Depths
    BY JobScansAssumption DEF Init
  <2>4. history \in [Keys -> NoEntry..MaxTime] /\ negative \in [Jobs -> Nat] /\ now \in 0..MaxTime
    BY NamesDiffer DEF Init, NoEntry
  <2> QED
    BY <1>1, <2>1, <2>2, <2>3, <2>4 DEF Init, TypeOK, At
<1> QED
  BY <1>2, <1>5, <1>6, <1>7 DEF IInv

LEMMA NextHolds == IInv /\ [Next]_vars => IInv'
<1> SUFFICES ASSUME IInv, [Next]_vars PROVE IInv'
  OBVIOUS
<1>1. ASSUME NEW s \in Scans, ScanMoves(s), UNCHANGED <<now, negative, history, user>> PROVE IInv'
  <2>1. RestTyped'
    BY <1>1, RestHolds DEF RestTyped, user
  <2> QED
    BY <1>1, <2>1, MovesQuiet, QuietHolds
<1>2. ASSUME NEW s \in Scans, Step(s) PROVE IInv'
  <2>1. CASE \/ ReadNegative(s) \/ CheckLimit(s) \/ Fetch(s) \/ ReadProfile(s)
             \/ Count(s) \/ ParseScreenshots(s) \/ Breaks(s)
    <3>1. UNCHANGED <<now, negative, history, user>>
      BY <2>1 DEF ReadNegative, CheckLimit, Fetch, ReadProfile, Count, ParseScreenshots, Breaks, caches
    <3> QED
      BY <1>1, <2>1, <3>1, AsksMove
  <2>2. CASE ReadAnalysis(s) \/ ResolveDepth(s)
    <3>1. UNCHANGED <<now, negative, history, user>>
      BY <2>2 DEF ReadAnalysis, ResolveDepth, caches
    <3> QED
      BY <1>1, <2>2, <3>1, DecidesMove
  <2>3. CASE DeleteRaw(s) \/ DeleteAnalyses(s) \/ DeleteNegative(s)
    BY <2>3, InvalidatesQuiet, QuietHolds
  <2>4. CASE Forbid(s) \/ ClearNegative(s)
    BY <2>4, NegativeQuiet, QuietHolds
  <2>5. CASE Persist(s)
    BY <2>5, PersistQuiet, QuietHolds
  <2>6. CASE ReadHistory(s) \/ WriteHistory(s)
    BY <2>6, AnswersQuiet, QuietHolds
  <2>7. CASE Store(s)
    BY <2>7, StoreHolds
  <2> QED
    BY <1>2, <2>1, <2>2, <2>3, <2>4, <2>5, <2>6, <2>7 DEF Step
<1>3. ASSUME NEW s \in Scans,
             \/ AnalyzeScreenshots(s)
             \/ \E k \in Keys, savedAt \in 0..MaxTime : Import(s, k, savedAt)
      PROVE  IInv'
  BY <1>1, <1>3, OtherBeginsMove DEF AnalyzeScreenshots, Import, caches
<1>4. ASSUME NEW s \in Scans, NEW j \in Jobs, NEW want \in Depths \cup {"auto"}, NEW again \in BOOLEAN,
             Analyze(s, j, want, again)
      PROVE  IInv'
  BY <1>1, <1>4, AnalyzeMoves DEF Analyze, caches
<1>5. CASE EditProfile \/ RemoveExpired \/ Tick \/ UNCHANGED vars
  BY <1>5, WorldQuiet, QuietHolds
<1> QED
  BY <1>2, <1>3, <1>4, <1>5 DEF Next

LEMMA Inductive == Spec => []IInv
BY InitHolds, NextHolds, PTL DEF Spec

\* The variables of the scans and of their caches stay in their sets, and a scan holds
\* what its stage works on.
THEOREM TypeCorrect == Spec => []TypeOK
<1>1. IInv => TypeOK
  BY DEF IInv
<1> QED
  BY <1>1, Inductive, PTL

\* A challenge page an earlier version cached is never analysed or answered.
THEOREM NoChallengeIsServed == Spec => []NoChallengeServed
<1>1. IInv => NoChallengeServed
  <2> SUFFICES ASSUME IInv PROVE NoChallengeServed
    OBVIOUS
  <2>1. \A a \in given : a \in Profiles \X Pages /\ a = <<a[1], a[2]>>
    BY DEF IInv, TypeOK
  <2>2. \A a \in given : a[2] # Challenge
    BY <2>1 DEF IInv, Answered
  <2> QED
    BY <2>2, ScanHolds DEF NoChallengeServed, Sound
<1> QED
  BY <1>1, Inductive, PTL

\* A full analysis that was answered can be reopened, unless a scan that had looked at a
\* challenge page deleted it.
THEOREM GivenCanBeReopened == Spec => []GivenIsReopenable
<1>1. IInv => GivenIsReopenable
  <2> SUFFICES ASSUME IInv, NEW a \in given PROVE analyses[a[1]][a[2]] # None \/ a \in spoiled
    BY DEF GivenIsReopenable
  <2>1. a \in Profiles \X Pages /\ a = <<a[1], a[2]>>
    BY DEF IInv, TypeOK
  <2> QED
    BY <2>1 DEF IInv, Answered, Kept
<1> QED
  BY <1>1, Inductive, PTL

\* A posting leaves the cache before it expires only through a scan that looked at a
\* challenge page before the posting was stored.
THEOREM FreshPagesSurvive == Spec => FreshPageSurvives
<1> DEFINE Lost(j) == raw[j].page \in Postings /\ raw[j].expiresAt > now /\ raw'[j].page = None
<1>1. ASSUME IInv, Next, NEW j \in Jobs, Lost(j)
      PROVE  \E s \in Scans : At(s, "delete") /\ scans[s].key = j /\ scans[s].late
  <2>0. raw \in [Jobs -> [page : Pages \cup {None}, expiresAt : Expiries]] /\ now \in Nat
        /\ raw[j].expiresAt \in Nat /\ raw' # raw
    BY <1>1, NamesDiffer DEF IInv, TypeOK, Expiries
  <2>1. ASSUME NEW s \in Scans, DeleteRaw(s) PROVE At(s, "delete") /\ scans[s].key = j /\ scans[s].late
    <3>1. scans[s].key = j
      BY <1>1, <2>0, <2>1, NamesDiffer DEF DeleteRaw
    <3> QED
      BY <1>1, <2>1, <3>1, ScanHolds DEF DeleteRaw, At, Good, Fit, Touched
  <2>2. ASSUME NEW s \in Scans, Store(s) PROVE FALSE
    <3>1. scans[s].page \in Postings
      BY <1>1, <2>2, ScanHolds DEF Store, At, Sound, PageStages
    <3> QED
      BY <1>1, <2>0, <2>2, <3>1, NamesDiffer DEF Store
  <2>3. ~RemoveExpired
    <3>1. ASSUME NEW i \in Jobs, raw[i].expiresAt <= now, raw' = [raw EXCEPT ![i] = NoPage] PROVE FALSE
      BY <1>1, <2>0, <3>1, NamesDiffer
    <3> QED
      BY <2>0, <3>1 DEF RemoveExpired
  <2>4. ASSUME NEW s \in Scans, Step(s), ~DeleteRaw(s), ~Store(s) PROVE FALSE
    BY <2>0, <2>4 DEF Step, DeleteAnalyses, DeleteNegative, ReadNegative, CheckLimit, Fetch, Forbid,
       ClearNegative, ReadProfile, ReadAnalysis, ResolveDepth, Persist, Count, ReadHistory, WriteHistory,
       ParseScreenshots, Breaks, caches
  <2>5. ~(EditProfile \/ Tick)
    BY <2>0 DEF EditProfile, Tick, caches
  <2>6. ASSUME NEW s \in Scans, AnalyzeScreenshots(s) PROVE FALSE
    BY <2>0, <2>6 DEF AnalyzeScreenshots, caches
  <2>7. ASSUME NEW s \in Scans, NEW k \in Keys, NEW savedAt \in 0..MaxTime, Import(s, k, savedAt) PROVE FALSE
    BY <2>0, <2>7 DEF Import, caches
  <2>8. ASSUME NEW s \in Scans, NEW i \in Jobs, NEW want, NEW again, Analyze(s, i, want, again) PROVE FALSE
    BY <2>0, <2>8 DEF Analyze, caches
  <2> QED
    BY <1>1, <2>1, <2>2, <2>3, <2>4, <2>5, <2>6, <2>7, <2>8 DEF Next
<1>2. IInv /\ [Next]_vars =>
        [\A j \in Jobs : Lost(j) => \E s \in Scans : At(s, "delete") /\ scans[s].key = j /\ scans[s].late]_vars
  BY <1>1
<1> QED
  BY <1>2, Inductive, PTL DEF Spec, FreshPageSurvives

\* An entry of the history gives way to an older one only when it was stored after the
\* writer of the older one had looked.
THEOREM NewestIsKept == Spec => HistoryKeepsNewest
<1>1. ASSUME IInv, Next, NEW k \in Keys, history'[k] < history[k]
      PROVE  \E s \in Scans : At(s, "write") /\ scans[s].key = k /\ scans[s].seen # history[k]
  <2>0. history \in [Keys -> NoEntry..MaxTime] /\ history[k] \in Int
    BY <1>1, NamesDiffer DEF IInv, TypeOK, NoEntry
  <2>1. history' # history
    BY <1>1, <2>0
  <2>2. ASSUME NEW s \in Scans, ~WriteHistory(s) PROVE ~Step(s)
    BY <2>1, <2>2 DEF Step, DeleteRaw, DeleteAnalyses, DeleteNegative, ReadNegative, CheckLimit, Fetch, Forbid,
       Store, ClearNegative, ReadProfile, ReadAnalysis, ResolveDepth, Persist, Count, ReadHistory,
       ParseScreenshots, Breaks, caches
  <2>3. ~(EditProfile \/ RemoveExpired \/ Tick)
    BY <2>1 DEF EditProfile, RemoveExpired, Tick
  <2>4. ASSUME NEW s \in Scans, AnalyzeScreenshots(s) PROVE FALSE
    BY <2>1, <2>4 DEF AnalyzeScreenshots
  <2>5. ASSUME NEW s \in Scans, NEW key \in Keys, NEW savedAt \in 0..MaxTime, Import(s, key, savedAt) PROVE FALSE
    BY <2>1, <2>5 DEF Import
  <2>6. ASSUME NEW s \in Scans, NEW i \in Jobs, NEW want, NEW again, Analyze(s, i, want, again) PROVE FALSE
    BY <2>1, <2>6 DEF Analyze
  <2>7. PICK s \in Scans : WriteHistory(s)
    BY <1>1, <2>2, <2>3, <2>4, <2>5, <2>6 DEF Next
  <2>8. /\ scans[s].key = k /\ history'[k] = scans[s].at
    BY <1>1, <2>0, <2>7 DEF WriteHistory
  <2>9. scans[s].seen <= scans[s].at /\ scans[s].seen \in Int /\ scans[s].at \in Int /\ At(s, "write")
    BY <1>1, <2>7, ScanHolds, NamesDiffer DEF WriteHistory, At, Sound, Scan, NoEntry
  <2> QED
    BY <1>1, <2>0, <2>8, <2>9
<1>2. IInv /\ [Next]_vars =>
        [\A k \in Keys : history'[k] < history[k] =>
           \E s \in Scans : At(s, "write") /\ scans[s].key = k /\ scans[s].seen # history[k]]_vars
  BY <1>1
<1> QED
  BY <1>2, Inductive, PTL DEF Spec, HistoryKeepsNewest

=============================================================================
