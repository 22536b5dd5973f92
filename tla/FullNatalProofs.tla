---------------------------- MODULE FullNatalProofs ----------------------------
(***************************************************************************)
(* What holds of FullNatal for every number of processes, requests,        *)
(* profiles, retries and faults, and for every timing NatalAssumption      *)
(* allows: a process makes a report once at a time, a client that polls it *)
(* sees the generation as long as it lasts, and a report that is announced *)
(* is there.                                                               *)
(***************************************************************************)
EXTENDS FullNatal, TLAPS

(***************************************************************************)
(* The inductive invariant.  A request that works has a process and a      *)
(* profile.  The record of a generation is no older than what its stage    *)
(* has taken so far: the fetch, or the attempts before this one and this   *)
(* one; NatalAssumption keeps that below the record's life.                *)
(***************************************************************************)
Placed == \A a \in Requests : ~At(a, "idle") => req[a].process \in Processes /\ req[a].hash \in Profiles

Young == \A q \in Processes, p \in Profiles : progress[q][p].age < Ttl

Record(a) == progress[req[a].process][req[a].hash]

\* What the attempts before attempt k may have taken.
Spent(k) == (k - 1) * Timeout

PacedAt(a) ==
  /\ At(a, "read") => Record(a).age <= req[a].waited /\ req[a].waited <= Reading
  /\ At(a, "ask") => /\ req[a].attempt \in 1..(MaxRetries + 1)
                     /\ req[a].waited <= Timeout
                     /\ Record(a).age <= Spent(req[a].attempt) + req[a].waited
Paced == \A a \in Requests : PacedAt(a)

LEMMA SpentFacts ==
  /\ Spent(1) = 0
  /\ \A k \in 1..(MaxRetries + 1) : /\ Spent(k) \in Nat
                                    /\ Spent(k) + Timeout < Ttl
                                    /\ Spent(k + 1) = Spent(k) + Timeout
<1>1. MaxRetries \in Nat /\ Timeout \in Nat /\ Ttl \in Nat /\ (MaxRetries + 1) * Timeout < Ttl
  BY NatalAssumption
<1>2. ASSUME NEW k \in 1..(MaxRetries + 1)
      PROVE  /\ Spent(k) \in Nat
             /\ Spent(k) + Timeout < Ttl
             /\ Spent(k + 1) = Spent(k) + Timeout
  <2>1. k - 1 \in Nat /\ MaxRetries + 1 - k \in Nat
    BY <1>1
  <2>2. (k - 1) * Timeout \in Nat /\ (MaxRetries + 1 - k) * Timeout \in Nat
    BY <1>1, <2>1
  <2>3. (k - 1) * Timeout + Timeout + (MaxRetries + 1 - k) * Timeout = (MaxRetries + 1) * Timeout
    BY <1>1, <2>1
  <2>4. ((k + 1) - 1) * Timeout = (k - 1) * Timeout + Timeout
    BY <1>1
  <2> QED
    BY <1>1, <2>2, <2>3, <2>4 DEF Spent
<1> QED
  BY <1>1, <1>2 DEF Spent

LEMMA NumbersHold ==
  /\ MaxRetries \in Nat /\ Timeout \in Nat /\ Reading \in Nat /\ Ttl \in Nat \ {0} /\ MaxFaults \in Nat
  /\ Reading < Ttl
BY NatalAssumption

-----------------------------------------------------------------------------
(* Types and places.                                                       *)

LEMMA NoRequestHolds ==
  /\ NoRequest \in Request
  /\ NoRequest.stage = "idle"
  /\ NoProgress \in Progress /\ NoProgress.age = 0 /\ NoProgress.status = "idle"
BY NumbersHold DEF NoRequest, Request, Stages, NoProgress, Progress

\* What a record becomes.
LEMMA ShowsRecord ==
  ASSUME TypeOK, Young, Placed, NEW a \in Requests, ~At(a, "idle"),
         NEW status \in {"running", "completed", "failed"}, Shows(a, status)
  PROVE  /\ progress' \in [Processes -> [Profiles -> Progress]]
         /\ Young'
         /\ \A q \in Processes, p \in Profiles :
              progress'[q][p] = IF q = req[a].process /\ p = req[a].hash
                                THEN [status |-> status, age |-> 0] ELSE progress[q][p]
<1>1. progress \in [Processes -> [Profiles -> Progress]]
      /\ req[a].process \in Processes /\ req[a].hash \in Profiles
  BY DEF TypeOK, Placed
<1>2. [status |-> status, age |-> 0] \in Progress
  BY NumbersHold DEF Progress
<1>3. \A q \in Processes, p \in Profiles :
        progress'[q][p] = IF q = req[a].process /\ p = req[a].hash
                          THEN [status |-> status, age |-> 0] ELSE progress[q][p]
  BY <1>1 DEF Shows
<1>4. progress' \in [Processes -> [Profiles -> Progress]]
  BY <1>1, <1>2 DEF Shows
<1>5. Young'
  BY <1>3, NumbersHold DEF Young
<1> QED
  BY <1>3, <1>4, <1>5

\* A generation that ends, and one that fails.
LEMMA SettleType ==
  ASSUME TypeOK, Placed, NEW a \in Requests, ~At(a, "idle"), Settle(a)
  PROVE  /\ inFlight' \in [Processes -> [Profiles -> Requests \cup {Nobody}]]
         /\ req' \in [Requests -> Request]
         /\ Placed'
<1>1. req' \in [Requests -> Request] /\ \A b \in Requests : req'[b] = req[b] \/ req'[b] = NoRequest
  BY NoRequestHolds DEF Settle, TypeOK
<1>2. Placed'
  BY <1>1, NoRequestHolds DEF Placed, At
<1> QED
  BY <1>1, <1>2 DEF Settle, TypeOK

LEMMA ThrowsType ==
  ASSUME TypeOK, Young, Placed, NEW a \in Requests, ~At(a, "idle"), Throws(a),
         UNCHANGED <<providers, profile, reports>>, faults' \in 0..MaxFaults
  PROVE  TypeOK' /\ Young' /\ Placed'
<1>1. progress' \in [Processes -> [Profiles -> Progress]] /\ Young'
  BY ShowsRecord DEF Throws
<1> QED
  BY <1>1, SettleType DEF Throws, TypeOK

\* A request that moves to a stage, with what its record may become, keeps its place.
Moved(a, stage) ==
  /\ req' \in [Requests -> Request]
  /\ Placed'
  /\ req'[a].stage = stage /\ req'[a].process = req[a].process /\ req'[a].hash = req[a].hash
  /\ \A b \in Requests : b # a => req'[b] = req[b]

LEMMA MovesTo ==
  ASSUME TypeOK, Placed, NEW a \in Requests, ~At(a, "idle"), NEW stage \in Stages,
         NEW r \in Request, r.stage = stage, r.process = req[a].process, r.hash = req[a].hash,
         req' = [req EXCEPT ![a] = r]
  PROVE  Moved(a, stage)
<1>1. req' \in [Requests -> Request] /\ req'[a] = r /\ \A b \in Requests : b # a => req'[b] = req[b]
  BY DEF TypeOK
<1> QED
  BY <1>1 DEF Placed, At, Moved

LEMMA GoesMoves ==
  ASSUME TypeOK, Placed, NEW a \in Requests, ~At(a, "idle"), NEW stage \in Stages, Goes(a, stage)
  PROVE  Moved(a, stage) /\ req'[a].waited = 0 /\ req'[a].attempt = req[a].attempt
<1> DEFINE r == [req[a] EXCEPT !.stage = stage, !.waited = 0]
<1>1. req \in [Requests -> Request] /\ req[a] \in Request /\ 0 \in 0..(Timeout + Reading)
  BY NumbersHold DEF TypeOK
<1>2. /\ r \in Request
      /\ r.stage = stage /\ r.process = req[a].process /\ r.hash = req[a].hash
      /\ r.waited = 0 /\ r.attempt = req[a].attempt
  BY <1>1 DEF Request
<1>3. req' = [req EXCEPT ![a] = r]
  BY DEF Goes
<1> HIDE DEF r
<1>4. req'[a] = r
  BY <1>1, <1>3
<1> QED
  BY <1>2, <1>3, <1>4, MovesTo

LEMMA JoinMoves ==
  ASSUME TypeOK, Placed, NEW a \in Requests, ~At(a, "idle"), NEW leader \in Requests,
         req' = [req EXCEPT ![a].stage = "join", ![a].leader = leader]
  PROVE  Moved(a, "join") /\ req'[a].leader = leader
<1> DEFINE r == [req[a] EXCEPT !.stage = "join", !.leader = leader]
<1>1. req \in [Requests -> Request] /\ req[a] \in Request /\ "join" \in Stages
  BY DEF TypeOK, Stages
<1>2. r \in Request /\ r.stage = "join" /\ r.process = req[a].process /\ r.hash = req[a].hash /\ r.leader = leader
  BY <1>1 DEF Request
<1>3. req' = [req EXCEPT ![a] = r]
  OBVIOUS
<1> HIDE DEF r
<1>4. req'[a] = r
  BY <1>1, <1>3
<1> QED
  BY <1>1, <1>2, <1>3, <1>4, MovesTo

LEMMA FirstAttemptMoves ==
  ASSUME TypeOK, Placed, NEW a \in Requests, ~At(a, "idle"), NEW provider \in {"primary", "backup"},
         \/ req' = [req EXCEPT ![a].stage = "ask", ![a].attempt = 1, ![a].waited = 0, ![a].provider = provider]
         \/ At(a, "ask") /\ req' = [req EXCEPT ![a].provider = provider, ![a].attempt = 1, ![a].waited = 0]
  PROVE  Moved(a, "ask") /\ req'[a].waited = 0 /\ req'[a].attempt = 1
<1>1. /\ req \in [Requests -> Request] /\ req[a] \in Request /\ "ask" \in Stages
      /\ 0 \in 0..(Timeout + Reading) /\ 1 \in 0..(MaxRetries + 1)
  BY NumbersHold DEF TypeOK, Stages
<1>2. PICK r \in Request : /\ req' = [req EXCEPT ![a] = r]
                           /\ r.stage = "ask" /\ r.process = req[a].process /\ r.hash = req[a].hash
                           /\ r.waited = 0 /\ r.attempt = 1
  <2>1. CASE req' = [req EXCEPT ![a].stage = "ask", ![a].attempt = 1, ![a].waited = 0, ![a].provider = provider]
    <3> DEFINE r == [req[a] EXCEPT !.stage = "ask", !.attempt = 1, !.waited = 0, !.provider = provider]
    <3>1. /\ r \in Request /\ r.stage = "ask" /\ r.process = req[a].process /\ r.hash = req[a].hash
          /\ r.waited = 0 /\ r.attempt = 1
      BY <1>1 DEF Request
    <3>2. req' = [req EXCEPT ![a] = r]
      BY <2>1
    <3> QED
      BY <3>1, <3>2
  <2>2. CASE At(a, "ask") /\ req' = [req EXCEPT ![a].provider = provider, ![a].attempt = 1, ![a].waited = 0]
    <3> DEFINE r == [req[a] EXCEPT !.provider = provider, !.attempt = 1, !.waited = 0]
    <3>1. /\ r \in Request /\ r.stage = "ask" /\ r.process = req[a].process /\ r.hash = req[a].hash
          /\ r.waited = 0 /\ r.attempt = 1
      BY <1>1, <2>2 DEF Request, At
    <3>2. req' = [req EXCEPT ![a] = r]
      BY <2>2
    <3> QED
      BY <3>1, <3>2
  <2> QED
    BY <2>1, <2>2
<1>3. req'[a] = r
  BY <1>1, <1>2
<1> QED
  BY <1>1, <1>2, <1>3, MovesTo

LEMMA RetryMoves ==
  ASSUME TypeOK, Placed, NEW a \in Requests, Retry(a)
  PROVE  Moved(a, "ask") /\ req'[a].waited = 0 /\ req'[a].attempt = req[a].attempt + 1
<1> DEFINE r == [req[a] EXCEPT !.attempt = req[a].attempt + 1, !.waited = 0]
<1>1. /\ req \in [Requests -> Request] /\ req[a] \in Request /\ "ask" \in Stages /\ At(a, "ask")
      /\ 0 \in 0..(Timeout + Reading)
  BY NumbersHold DEF TypeOK, Retry, Stages
<1>2. req[a].attempt + 1 \in 0..(MaxRetries + 1)
  BY <1>1, NumbersHold DEF Retry, Request
<1>3. /\ r \in Request /\ r.stage = "ask" /\ r.process = req[a].process /\ r.hash = req[a].hash
      /\ r.waited = 0 /\ r.attempt = req[a].attempt + 1
  BY <1>1, <1>2 DEF Request, At
<1>4. req' = [req EXCEPT ![a] = r]
  BY DEF Retry
<1> HIDE DEF r
<1>5. req'[a] = r
  BY <1>1, <1>4
<1> QED
  BY <1>1, <1>3, <1>4, <1>5, MovesTo DEF At

LEMMA TypeStep == TypeOK /\ Young /\ Placed /\ [Next]_vars => TypeOK' /\ Young' /\ Placed'
<1> SUFFICES ASSUME TypeOK, Young, Placed, [Next]_vars PROVE TypeOK' /\ Young' /\ Placed'
  OBVIOUS
<1> USE NumbersHold
<1>0. /\ req \in [Requests -> Request] /\ \A a \in Requests : req[a] \in Request
      /\ inFlight \in [Processes -> [Profiles -> Requests \cup {Nobody}]]
      /\ progress \in [Processes -> [Profiles -> Progress]]
  BY DEF TypeOK
<1>1. ASSUME NEW a \in Requests, NEW q \in Processes, Begin(a, q) PROVE TypeOK' /\ Young' /\ Placed'
  <2>1. [NoRequest EXCEPT !.stage = "find", !.process = q, !.hash = profile] \in Request
    BY NoRequestHolds DEF TypeOK, Request, Stages
  <2>2. req' \in [Requests -> Request] /\ req'[a].process = q /\ req'[a].hash = profile
        /\ \A b \in Requests : b # a => req'[b] = req[b]
    BY <1>0, <1>1, <2>1, NoRequestHolds DEF Begin, Request
  <2>3. Placed'
    BY <1>1, <2>2 DEF Placed, At, TypeOK
  <2> QED
    BY <1>1, <2>2, <2>3 DEF Begin, TypeOK, Young
<1>2. ASSUME NEW a \in Requests, NEW cacheOnly \in BOOLEAN, Find(a, cacheOnly) PROVE TypeOK' /\ Young' /\ Placed'
  <2>1. CASE Goes(a, "check")
    <3>1. Moved(a, "check")
      BY <1>2, <2>1, GoesMoves DEF Find, At, Stages
    <3> QED
      BY <1>2, <3>1 DEF Find, Moved, TypeOK, Young
  <2>2. CASE Ends(a)
    <3>1. req' \in [Requests -> Request] /\ \A b \in Requests : req'[b] = req[b] \/ req'[b] = NoRequest
      BY <1>0, <2>2, NoRequestHolds DEF Ends
    <3>2. Placed'
      BY <3>1, NoRequestHolds DEF Placed, At
    <3> QED
      BY <1>2, <3>1, <3>2 DEF Find, TypeOK, Young
  <2> QED
    BY <1>2, <2>1, <2>2 DEF Find
<1>3. ASSUME NEW a \in Requests, Check(a) PROVE TypeOK' /\ Young' /\ Placed'
  <2>0. ~At(a, "idle") /\ req[a].process \in Processes /\ req[a].hash \in Profiles
    BY <1>3 DEF Check, At, Placed
  <2>1. CASE /\ req' = [req EXCEPT ![a].stage = "join", ![a].leader = inFlight[req[a].process][req[a].hash]]
             /\ inFlight[req[a].process][req[a].hash] # Nobody /\ UNCHANGED <<inFlight, progress>>
    <3>0. PICK leader \in Requests : req' = [req EXCEPT ![a].stage = "join", ![a].leader = leader]
      <4>1. inFlight[req[a].process][req[a].hash] \in Requests
        BY <1>0, <2>0, <2>1
      <4> QED
        BY <2>1, <4>1
    <3>1. Moved(a, "join")
      BY <2>0, <3>0, JoinMoves
    <3> QED
      BY <1>3, <2>1, <3>1 DEF Check, Moved, TypeOK, Young
  <2>2. CASE /\ inFlight' = [inFlight EXCEPT ![req[a].process][req[a].hash] = a]
             /\ Shows(a, "running") /\ Goes(a, "read")
    <3>2. Moved(a, "read")
      BY <2>0, <2>2, GoesMoves DEF Stages
    <3>3. progress' \in [Processes -> [Profiles -> Progress]] /\ Young'
      BY <2>0, <2>2, ShowsRecord
    <3> QED
      BY <1>0, <1>3, <2>0, <2>2, <3>2, <3>3 DEF Check, Moved, TypeOK
  <2>3. CASE Ends(a) /\ UNCHANGED <<inFlight, progress>>
    <3>1. req' \in [Requests -> Request] /\ \A b \in Requests : req'[b] = req[b] \/ req'[b] = NoRequest
      BY <1>0, <2>3, NoRequestHolds DEF Ends
    <3>2. Placed'
      BY <3>1, NoRequestHolds DEF Placed, At
    <3> QED
      BY <1>3, <2>3, <3>1, <3>2 DEF Check, TypeOK, Young
  <2> QED
    BY <1>3, <2>1, <2>2, <2>3 DEF Check
<1>4. ASSUME NEW a \in Requests, Read(a) PROVE TypeOK' /\ Young' /\ Placed'
  <2>0. ~At(a, "idle")
    BY <1>4 DEF Read, At
  <2>1. CASE Throws(a)
    BY <1>4, <2>0, <2>1, ThrowsType DEF Read, TypeOK
  <2>2. CASE ~Throws(a)
    <3>1. PICK provider \in {"primary", "backup"} :
            req' = [req EXCEPT ![a].stage = "ask", ![a].attempt = 1, ![a].waited = 0, ![a].provider = provider]
      BY <1>4, <2>2 DEF Read
    <3>3. Moved(a, "ask")
      BY <2>0, <3>1, FirstAttemptMoves
    <3>4. progress' \in [Processes -> [Profiles -> Progress]] /\ Young'
      BY <1>4, <2>0, <2>2, ShowsRecord DEF Read
    <3> QED
      BY <1>4, <2>2, <3>3, <3>4 DEF Read, Moved, TypeOK
  <2> QED
    BY <2>1, <2>2
<1>5. ASSUME NEW a \in Requests, Answers(a) \/ Store(a) PROVE TypeOK' /\ Young' /\ Placed'
  <2>0. ~At(a, "idle") /\ req[a].hash \in Profiles
    BY <1>5 DEF Answers, Store, At, Placed
  <2>1. PICK stage \in {"store", "answer"} : Goes(a, stage)
    BY <1>5 DEF Answers, Store
  <2>3. Moved(a, stage)
    BY <2>0, <2>1, GoesMoves DEF Stages
  <2>4. progress' \in [Processes -> [Profiles -> Progress]] /\ Young'
    BY <1>5, <2>0, ShowsRecord DEF Answers, Store
  <2> QED
    BY <1>5, <2>0, <2>3, <2>4 DEF Answers, Store, Moved, TypeOK
<1>6. ASSUME NEW a \in Requests, Retry(a) PROVE TypeOK' /\ Young' /\ Placed'
  BY <1>6, RetryMoves DEF Retry, Moved, TypeOK, Young
<1>7. ASSUME NEW a \in Requests, GiveUp(a) PROVE TypeOK' /\ Young' /\ Placed'
  <2>0. ~At(a, "idle")
    BY <1>7 DEF GiveUp, At
  <2>1. CASE Throws(a)
    BY <1>7, <2>0, <2>1, ThrowsType DEF GiveUp, TypeOK
  <2>2. CASE ~Throws(a)
    <3>2. Moved(a, "ask")
      BY <1>7, <2>0, <2>2, FirstAttemptMoves DEF GiveUp
    <3>3. progress' \in [Processes -> [Profiles -> Progress]] /\ Young'
      BY <1>7, <2>0, <2>2, ShowsRecord DEF GiveUp
    <3> QED
      BY <1>7, <2>2, <3>2, <3>3 DEF GiveUp, Moved, TypeOK
  <2> QED
    BY <2>1, <2>2
<1>8. ASSUME NEW a \in Requests, Answer(a) PROVE TypeOK' /\ Young' /\ Placed'
  <2>1. ~At(a, "idle")
    BY <1>8 DEF Answer, At
  <2> QED
    BY <1>8, <2>1, SettleType DEF Answer, TypeOK, Young
<1>9. ASSUME NEW a \in Requests, CommandFails(a) PROVE TypeOK' /\ Young' /\ Placed'
  <2>0. ~At(a, "idle") /\ faults' \in 0..MaxFaults
    BY <1>9 DEF CommandFails, At, Generates, TypeOK
  <2>1. CASE Throws(a)
    BY <1>9, <2>0, <2>1, ThrowsType DEF CommandFails
  <2>2. CASE Ends(a) /\ UNCHANGED <<inFlight, progress>>
    <3>1. req' \in [Requests -> Request] /\ \A b \in Requests : req'[b] = req[b] \/ req'[b] = NoRequest
      BY <1>0, <2>2, NoRequestHolds DEF Ends
    <3>2. Placed'
      BY <3>1, NoRequestHolds DEF Placed, At
    <3> QED
      BY <1>9, <2>0, <2>2, <3>1, <3>2 DEF CommandFails, TypeOK, Young
  <2> QED
    BY <1>9, <2>1, <2>2 DEF CommandFails
<1>10. ASSUME NEW q \in Processes, Die(q) PROVE TypeOK' /\ Young' /\ Placed'
  <2>1. req' \in [Requests -> Request] /\ \A b \in Requests : req'[b] = req[b] \/ req'[b] = NoRequest
    BY <1>0, <1>10, NoRequestHolds DEF Die
  <2>2. Placed'
    BY <2>1, NoRequestHolds DEF Placed, At
  <2>3. progress' \in [Processes -> [Profiles -> Progress]]
        /\ \A p \in Processes, h \in Profiles : progress'[p][h] = IF p = q THEN NoProgress ELSE progress[p][h]
    BY <1>0, <1>10, NoRequestHolds DEF Die
  <2>4. Young'
    BY <2>3, NoRequestHolds DEF Young
  <2> QED
    BY <1>0, <1>10, <2>1, <2>2, <2>3, <2>4 DEF Die, TypeOK
<1>11. ASSUME NEW q \in Processes, NEW p \in Profiles, Expire(q, p) PROVE TypeOK' /\ Young' /\ Placed'
  <2>1. progress' \in [Processes -> [Profiles -> Progress]]
        /\ \A r \in Processes, h \in Profiles : progress'[r][h] = NoProgress \/ progress'[r][h] = progress[r][h]
    BY <1>0, <1>11, NoRequestHolds DEF Expire
  <2>2. Young'
    BY <2>1, NoRequestHolds DEF Young
  <2> QED
    BY <1>11, <2>1, <2>2 DEF Expire, TypeOK, Placed, At
<1>12. CASE ChangeProfile
  BY <1>12 DEF ChangeProfile, TypeOK, Young, Placed, At
<1>13. CASE Tick
  <2>1. ASSUME NEW q \in Processes, NEW p \in Profiles
        PROVE  progress'[q][p] \in Progress /\ progress'[q][p].age < Ttl
    <3>1. progress'[q][p] = IF progress[q][p].status # "running" THEN progress[q][p]
                            ELSE IF progress[q][p].age + 1 = Ttl THEN NoProgress
                            ELSE [progress[q][p] EXCEPT !.age = progress[q][p].age + 1]
      BY <1>13 DEF Tick
    <3>2. progress[q][p] \in Progress /\ progress[q][p].age < Ttl
      BY <1>0 DEF Young
    <3> QED
      BY <3>1, <3>2, NoRequestHolds DEF Progress
  <2>2. progress' \in [Processes -> [Profiles -> Progress]] /\ Young'
    BY <1>13, <2>1 DEF Tick, Young
  <2>3. ASSUME NEW a \in Requests
        PROVE  /\ req'[a] \in Request
               /\ req'[a].stage = req[a].stage /\ req'[a].process = req[a].process /\ req'[a].hash = req[a].hash
    <3>1. Waits(a) => req[a].waited + 1 \in 0..(Timeout + Reading)
      BY <1>0, <1>13 DEF Tick, Patience, At, Waits, Request
    <3>2. req'[a] = IF Waits(a) THEN [req[a] EXCEPT !.waited = req[a].waited + 1] ELSE req[a]
      BY <1>13 DEF Tick
    <3> QED
      BY <1>0, <3>1, <3>2 DEF Request
  <2>4. req' \in [Requests -> Request] /\ Placed'
    BY <1>13, <2>3 DEF Tick, Placed, At
  <2> QED
    BY <1>13, <2>2, <2>4 DEF Tick, TypeOK
<1>14. CASE UNCHANGED vars
  BY <1>14 DEF vars, TypeOK, Young, Placed, At
<1> QED
  BY <1>1, <1>2, <1>3, <1>4, <1>5, <1>6, <1>7, <1>8, <1>9, <1>10, <1>11, <1>12, <1>13, <1>14 DEF Next, Steps

-----------------------------------------------------------------------------
(* The map of what is being made.                                          *)

\* The map stays and so do the requests it names.
LEMMA StaysLive ==
  ASSUME InFlightIsLive, inFlight' = inFlight,
         \A b \in Requests :
           /\ Generates(b)' <=> Generates(b)
           /\ Generates(b) => req'[b].process = req[b].process /\ req'[b].hash = req[b].hash
           /\ At(b, "join")' => /\ inFlight[req'[b].process][req'[b].hash] = req'[b].leader
                               /\ req'[b].leader # Nobody
  PROVE  InFlightIsLive'
BY DEF InFlightIsLive

\* A request that moves among the stages of a generation, or before it.
LEMMA MovedLive ==
  ASSUME InFlightIsLive, NEW a \in Requests, NEW stage \in Stages \ {"join"}, Moved(a, stage),
         Generates(a) <=> stage \in {"read", "ask", "store", "answer"},
         inFlight' = inFlight
  PROVE  InFlightIsLive'
<1>1. ASSUME NEW b \in Requests
      PROVE  /\ Generates(b)' <=> Generates(b)
             /\ Generates(b) => req'[b].process = req[b].process /\ req'[b].hash = req[b].hash
             /\ At(b, "join")' => /\ inFlight[req'[b].process][req'[b].hash] = req'[b].leader
                                 /\ req'[b].leader # Nobody
  <2>1. CASE b = a
    BY <2>1 DEF Moved, Generates, At
  <2>2. CASE b # a
    BY <2>2 DEF Moved, Generates, At, InFlightIsLive
  <2> QED
    BY <2>1, <2>2
<1> QED
  BY <1>1, StaysLive

\* A request that does not generate ends.
LEMMA EndsLive ==
  ASSUME TypeOK, InFlightIsLive, NEW a \in Requests, ~Generates(a), Ends(a), inFlight' = inFlight
  PROVE  InFlightIsLive'
<1>1. req'[a] = NoRequest /\ \A b \in Requests : b # a => req'[b] = req[b]
  BY DEF TypeOK, Ends
<1>2. ASSUME NEW b \in Requests
      PROVE  /\ Generates(b)' <=> Generates(b)
             /\ Generates(b) => req'[b].process = req[b].process /\ req'[b].hash = req[b].hash
             /\ At(b, "join")' => /\ inFlight[req'[b].process][req'[b].hash] = req'[b].leader
                                 /\ req'[b].leader # Nobody
  <2>1. CASE b = a
    BY <1>1, <2>1, NoRequestHolds DEF Generates, At
  <2>2. CASE b # a
    BY <1>1, <2>2 DEF Generates, At, InFlightIsLive
  <2> QED
    BY <2>1, <2>2
<1> QED
  BY <1>2, StaysLive

\* A generation ends, with everyone who waits for it.
LEMMA SettleLive ==
  ASSUME TypeOK, Placed, InFlightIsLive, NEW a \in Requests, Generates(a), Settle(a)
  PROVE  InFlightIsLive'
<1>0. /\ ~At(a, "idle") /\ req[a].process \in Processes /\ req[a].hash \in Profiles
      /\ inFlight \in [Processes -> [Profiles -> Requests \cup {Nobody}]]
      /\ a # Nobody
  BY NatalAssumption DEF TypeOK, Placed, At, Generates
<1>1. \A q \in Processes, p \in Profiles :
        inFlight'[q][p] = IF q = req[a].process /\ p = req[a].hash THEN Nobody ELSE inFlight[q][p]
  BY <1>0 DEF Settle
<1>2. \A b \in Requests : req'[b] = IF b = a \/ (At(b, "join") /\ req[b].leader = a) THEN NoRequest ELSE req[b]
  BY DEF Settle
<1>3. SUFFICES ASSUME NEW b \in Requests
      PROVE  /\ Generates(b)' => inFlight'[req'[b].process][req'[b].hash] = b
             /\ \A q \in Processes, p \in Profiles :
                  inFlight'[q][p] = b => Generates(b)' /\ req'[b].process = q /\ req'[b].hash = p
             /\ At(b, "join")' => inFlight'[req'[b].process][req'[b].hash] = req'[b].leader /\ req'[b].leader # Nobody
  BY DEF InFlightIsLive
<1>4. CASE b = a \/ (At(b, "join") /\ req[b].leader = a)
  <2>1. req'[b] = NoRequest
    BY <1>2, <1>4
  <2>2. ~Generates(b)' /\ ~At(b, "join")'
    BY <2>1, NoRequestHolds DEF Generates, At
  <2>3. ASSUME NEW q \in Processes, NEW p \in Profiles, inFlight'[q][p] = b PROVE FALSE
    <3>1. inFlight[q][p] = b /\ ~(q = req[a].process /\ p = req[a].hash)
      BY <1>0, <1>1, <2>3, NatalAssumption
    <3>2. b = a
      BY <1>4, <3>1 DEF InFlightIsLive, Generates, At
    <3> QED
      BY <3>1, <3>2 DEF InFlightIsLive
  <2> QED
    BY <2>2, <2>3
<1>5. CASE b # a /\ ~(At(b, "join") /\ req[b].leader = a)
  <2>1. req'[b] = req[b]
    BY <1>2, <1>5
  <2>2. Generates(b) => inFlight'[req[b].process][req[b].hash] = b
    <3>1. Generates(b) => req[b].process \in Processes /\ req[b].hash \in Profiles
      BY DEF Placed, At, Generates
    <3> QED
      BY <1>1, <1>5, <3>1 DEF InFlightIsLive
  <2>3. \A q \in Processes, p \in Profiles :
          inFlight'[q][p] = b => Generates(b) /\ req[b].process = q /\ req[b].hash = p
    BY <1>1, NatalAssumption DEF InFlightIsLive
  <2>4. At(b, "join") => inFlight'[req[b].process][req[b].hash] = req[b].leader /\ req[b].leader # Nobody
    <3>1. At(b, "join") => req[b].process \in Processes /\ req[b].hash \in Profiles
      BY DEF Placed, At
    <3> QED
      BY <1>1, <1>5, <3>1 DEF InFlightIsLive
  <2> QED
    BY <2>1, <2>2, <2>3, <2>4 DEF Generates, At
<1> QED
  BY <1>4, <1>5

\* A process dies with its requests and its map.
LEMMA DieLive ==
  ASSUME TypeOK, Placed, InFlightIsLive, NEW d \in Processes, Die(d)
  PROVE  InFlightIsLive'
<1>1. \A q \in Processes, p \in Profiles : inFlight'[q][p] = IF q = d THEN Nobody ELSE inFlight[q][p]
  BY DEF Die, TypeOK
<1>2. \A b \in Requests : req'[b] = IF req[b].process = d THEN NoRequest ELSE req[b]
  BY DEF Die
<1>3. SUFFICES ASSUME NEW b \in Requests
      PROVE  /\ Generates(b)' => inFlight'[req'[b].process][req'[b].hash] = b
             /\ \A q \in Processes, p \in Profiles :
                  inFlight'[q][p] = b => Generates(b)' /\ req'[b].process = q /\ req'[b].hash = p
             /\ At(b, "join")' => inFlight'[req'[b].process][req'[b].hash] = req'[b].leader /\ req'[b].leader # Nobody
  BY DEF InFlightIsLive
<1>4. CASE req[b].process = d
  <2>1. req'[b] = NoRequest
    BY <1>2, <1>4
  <2>2. ~Generates(b)' /\ ~At(b, "join")'
    BY <2>1, NoRequestHolds DEF Generates, At
  <2>3. \A q \in Processes, p \in Profiles : inFlight'[q][p] # b
    BY <1>1, <1>4, NatalAssumption DEF InFlightIsLive
  <2> QED
    BY <2>2, <2>3
<1>5. CASE req[b].process # d
  <2>1. req'[b] = req[b]
    BY <1>2, <1>5
  <2>2. ~At(b, "idle") => req[b].process \in Processes /\ req[b].hash \in Profiles
    BY DEF Placed
  <2>3. Generates(b) => inFlight'[req[b].process][req[b].hash] = b
    BY <1>1, <1>5, <2>2 DEF InFlightIsLive, Generates, At
  <2>4. \A q \in Processes, p \in Profiles :
          inFlight'[q][p] = b => Generates(b) /\ req[b].process = q /\ req[b].hash = p
    BY <1>1, NatalAssumption DEF InFlightIsLive
  <2>5. At(b, "join") => inFlight'[req[b].process][req[b].hash] = req[b].leader /\ req[b].leader # Nobody
    BY <1>1, <1>5, <2>2 DEF InFlightIsLive, At
  <2> QED
    BY <2>1, <2>3, <2>4, <2>5 DEF Generates, At
<1> QED
  BY <1>4, <1>5

\* A request takes the place of the promise that was not there.
LEMMA LeadsLive ==
  ASSUME TypeOK, Placed, InFlightIsLive, NEW a \in Requests, At(a, "check"), Moved(a, "read"),
         inFlight[req[a].process][req[a].hash] = Nobody,
         inFlight' = [inFlight EXCEPT ![req[a].process][req[a].hash] = a]
  PROVE  InFlightIsLive'
<1>0. /\ req[a].process \in Processes /\ req[a].hash \in Profiles
      /\ inFlight \in [Processes -> [Profiles -> Requests \cup {Nobody}]]
  BY DEF TypeOK, Placed, At
<1>1. \A q \in Processes, p \in Profiles :
        inFlight'[q][p] = IF q = req[a].process /\ p = req[a].hash THEN a ELSE inFlight[q][p]
  BY <1>0
<1>2. SUFFICES ASSUME NEW b \in Requests
      PROVE  /\ Generates(b)' => inFlight'[req'[b].process][req'[b].hash] = b
             /\ \A q \in Processes, p \in Profiles :
                  inFlight'[q][p] = b => Generates(b)' /\ req'[b].process = q /\ req'[b].hash = p
             /\ At(b, "join")' => inFlight'[req'[b].process][req'[b].hash] = req'[b].leader /\ req'[b].leader # Nobody
  BY DEF InFlightIsLive
<1>3. CASE b = a
  <2>1. Generates(b)' /\ ~At(b, "join")' /\ req'[b].process = req[a].process /\ req'[b].hash = req[a].hash
    BY <1>3 DEF Moved, Generates, At
  <2>2. \A q \in Processes, p \in Profiles : inFlight[q][p] # a
    BY DEF InFlightIsLive, Generates, At
  <2> QED
    BY <1>0, <1>1, <1>3, <2>1, <2>2
<1>4. CASE b # a
  <2>1. req'[b] = req[b]
    BY <1>4 DEF Moved
  <2>2. ~At(b, "idle") => req[b].process \in Processes /\ req[b].hash \in Profiles
    BY DEF Placed
  <2>3. Generates(b) => inFlight'[req[b].process][req[b].hash] = b
    BY <1>1, <1>4, <2>2, NatalAssumption DEF InFlightIsLive, Generates, At
  <2>4. \A q \in Processes, p \in Profiles :
          inFlight'[q][p] = b => Generates(b) /\ req[b].process = q /\ req[b].hash = p
    BY <1>1, <1>4 DEF InFlightIsLive
  <2>5. At(b, "join") => inFlight'[req[b].process][req[b].hash] = req[b].leader /\ req[b].leader # Nobody
    BY <1>1, <1>4, <2>2 DEF InFlightIsLive, At
  <2> QED
    BY <2>1, <2>3, <2>4, <2>5 DEF Generates, At
<1> QED
  BY <1>3, <1>4

LEMMA LiveStep == TypeOK /\ Placed /\ InFlightIsLive /\ [Next]_vars => InFlightIsLive'
<1> SUFFICES ASSUME TypeOK, Placed, InFlightIsLive, [Next]_vars PROVE InFlightIsLive'
  OBVIOUS
<1>1. ASSUME NEW a \in Requests, NEW q \in Processes, Begin(a, q) PROVE InFlightIsLive'
  <2>1. req'[a].stage = "find" /\ \A b \in Requests : b # a => req'[b] = req[b]
    BY <1>1 DEF Begin, TypeOK, NoRequest
  <2>2. ASSUME NEW b \in Requests
        PROVE  /\ Generates(b)' <=> Generates(b)
               /\ Generates(b) => req'[b].process = req[b].process /\ req'[b].hash = req[b].hash
               /\ At(b, "join")' => /\ inFlight[req'[b].process][req'[b].hash] = req'[b].leader
                                   /\ req'[b].leader # Nobody
    <3>1. CASE b = a
      BY <1>1, <2>1, <3>1 DEF Begin, Generates, At
    <3>2. CASE b # a
      BY <2>1, <3>2 DEF Generates, At, InFlightIsLive
    <3> QED
      BY <3>1, <3>2
  <2> QED
    BY <1>1, <2>2, StaysLive DEF Begin
<1>2. ASSUME NEW a \in Requests, NEW cacheOnly \in BOOLEAN, Find(a, cacheOnly) PROVE InFlightIsLive'
  <2>1. ~Generates(a) /\ ~At(a, "idle") /\ inFlight' = inFlight /\ (Ends(a) \/ Goes(a, "check"))
    BY <1>2 DEF Find, Generates, At
  <2> QED
    BY <2>1, EndsLive, GoesMoves, MovedLive DEF Stages
<1>3. ASSUME NEW a \in Requests, Check(a) PROVE InFlightIsLive'
  <2>0. /\ ~At(a, "idle") /\ At(a, "check") /\ ~Generates(a)
        /\ req[a].process \in Processes /\ req[a].hash \in Profiles
    BY <1>3 DEF Check, At, Placed, Generates
  <2>1. CASE inFlight[req[a].process][req[a].hash] = Nobody
    BY <1>3, <2>0, <2>1, GoesMoves, LeadsLive DEF Check, Stages
  <2>2. CASE inFlight[req[a].process][req[a].hash] # Nobody
    <3>0. PICK leader \in Requests : /\ leader = inFlight[req[a].process][req[a].hash]
                                     /\ req' = [req EXCEPT ![a].stage = "join", ![a].leader = leader]
      <4>1. inFlight[req[a].process][req[a].hash] \in Requests
        BY <2>0, <2>2 DEF TypeOK
      <4>2. Pending(inFlight[req[a].process][req[a].hash], req[a].process, req[a].hash)
        BY <2>0, <4>1 DEF InFlightIsLive, Pending
      <4> QED
        BY <1>3, <2>2, <4>1, <4>2 DEF Check
    <3>1. Moved(a, "join") /\ req'[a].leader = leader
      BY <2>0, <3>0, JoinMoves
    <3>2. inFlight' = inFlight
      BY <1>3, <2>2 DEF Check
    <3>3. ASSUME NEW b \in Requests
          PROVE  /\ Generates(b)' <=> Generates(b)
                 /\ Generates(b) => req'[b].process = req[b].process /\ req'[b].hash = req[b].hash
                 /\ At(b, "join")' => /\ inFlight[req'[b].process][req'[b].hash] = req'[b].leader
                                     /\ req'[b].leader # Nobody
      <4>1. CASE b = a
        BY <2>0, <2>2, <3>0, <3>1, <4>1 DEF Moved, Generates, At
      <4>2. CASE b # a
        BY <3>1, <4>2 DEF Moved, Generates, At, InFlightIsLive
      <4> QED
        BY <4>1, <4>2
    <3> QED
      BY <3>2, <3>3, StaysLive
  <2> QED
    BY <2>1, <2>2
<1>4. ASSUME NEW a \in Requests, Read(a) \/ GiveUp(a) PROVE InFlightIsLive'
  <2>0. ~At(a, "idle") /\ Generates(a)
    BY <1>4 DEF Read, GiveUp, Generates, At
  <2>1. CASE Throws(a)
    BY <2>0, <2>1, SettleLive DEF Throws
  <2>2. CASE ~Throws(a)
    <3>1. Moved(a, "ask") /\ inFlight' = inFlight
      BY <1>4, <2>0, <2>2, FirstAttemptMoves DEF Read, GiveUp
    <3> QED
      BY <2>0, <3>1, MovedLive DEF Stages
  <2> QED
    BY <2>1, <2>2
<1>5. ASSUME NEW a \in Requests, Answers(a) \/ Store(a) PROVE InFlightIsLive'
  <2>1. ~At(a, "idle") /\ Generates(a) /\ inFlight' = inFlight
    BY <1>5 DEF Answers, Store, Generates, At
  <2>2. PICK stage \in {"store", "answer"} : Goes(a, stage)
    BY <1>5 DEF Answers, Store
  <2>3. Moved(a, stage)
    BY <2>1, <2>2, GoesMoves DEF Stages
  <2> QED
    BY <2>1, <2>3, MovedLive DEF Stages
<1>6. ASSUME NEW a \in Requests, Retry(a) PROVE InFlightIsLive'
  <2>1. Moved(a, "ask") /\ Generates(a) /\ inFlight' = inFlight
    BY <1>6, RetryMoves DEF Retry, Generates, At
  <2> QED
    BY <2>1, MovedLive DEF Stages
<1>7. ASSUME NEW a \in Requests, Answer(a) PROVE InFlightIsLive'
  BY <1>7, SettleLive DEF Answer, Generates, At
<1>8. ASSUME NEW a \in Requests, CommandFails(a) PROVE InFlightIsLive'
  <2>1. CASE Generates(a) /\ Throws(a)
    BY <2>1, SettleLive DEF Throws
  <2>2. CASE ~(Generates(a) /\ Throws(a))
    BY <1>8, <2>2, EndsLive DEF CommandFails, Generates
  <2> QED
    BY <2>1, <2>2
<1>9. ASSUME NEW q \in Processes, Die(q) PROVE InFlightIsLive'
  BY <1>9, DieLive
<1>10. CASE Tick
  <2>1. ASSUME NEW b \in Requests
        PROVE  /\ req'[b].stage = req[b].stage /\ req'[b].process = req[b].process
               /\ req'[b].hash = req[b].hash /\ req'[b].leader = req[b].leader
    <3>1. req[b] \in Request /\ req'[b] = IF Waits(b) THEN [req[b] EXCEPT !.waited = req[b].waited + 1] ELSE req[b]
      BY <1>10 DEF Tick, TypeOK
    <3> QED
      BY <3>1 DEF Request
  <2> QED
    BY <1>10, <2>1 DEF Tick, InFlightIsLive, Generates, At
<1>11. CASE ChangeProfile \/ UNCHANGED vars \/ \E q \in Processes, p \in Profiles : Expire(q, p)
  BY <1>11 DEF ChangeProfile, Expire, vars, InFlightIsLive, Generates, At
<1> QED
  BY <1>1, <1>2, <1>3, <1>4, <1>5, <1>6, <1>7, <1>8, <1>9, <1>10, <1>11 DEF Next, Steps

-----------------------------------------------------------------------------
(* The record a client polls.                                              *)

Works(b) == req[b].stage \in {"read", "ask", "store"}
Shown(b) == PacedAt(b) /\ (Works(b) => Record(b).status = "running")
AllShown == \A b \in Requests : Shown(b)

\* No other request generates a report where request a does, or is about to.
Apart(a) == \A b \in Requests : b # a /\ Generates(b) =>
              ~(req[b].process = req[a].process /\ req[b].hash = req[a].hash)

LEMMA GeneratesApart ==
  ASSUME InFlightIsLive, NEW a \in Requests, Generates(a)
  PROVE  Apart(a)
BY DEF InFlightIsLive, Apart

\* A request that does not work needs no record; one that stays as it is keeps its own.
LEMMA IdleShown == ASSUME NEW b \in Requests, ~Works(b)' PROVE Shown(b)'
BY DEF Shown, Works, PacedAt, At

LEMMA SameShown ==
  ASSUME AllShown, NEW b \in Requests, req'[b] = req[b] \/ req'[b] = NoRequest,
         Works(b) => progress'[req[b].process][req[b].hash] = Record(b)
  PROVE  Shown(b)'
<1>1. CASE req'[b] = NoRequest
  BY <1>1, IdleShown, NoRequestHolds DEF Works
<1>2. CASE req'[b] = req[b] /\ Works(b)
  BY <1>2 DEF AllShown, Shown, Works, PacedAt, At, Record
<1>3. CASE req'[b] = req[b] /\ ~Works(b)
  BY <1>3, IdleShown DEF Works
<1> QED
  BY <1>1, <1>2, <1>3

LEMMA OthersShown ==
  ASSUME TypeOK, Young, Placed, AllShown, NEW a \in Requests, ~At(a, "idle"), Apart(a),
         NEW status \in {"running", "completed", "failed"}, Shows(a, status),
         NEW b \in Requests, b # a, req'[b] = req[b] \/ req'[b] = NoRequest
  PROVE  Shown(b)'
<1>1. ASSUME Works(b) PROVE progress'[req[b].process][req[b].hash] = Record(b)
  <2>1. /\ req[b].process \in Processes /\ req[b].hash \in Profiles
        /\ ~(req[b].process = req[a].process /\ req[b].hash = req[a].hash)
    BY <1>1 DEF Placed, At, Works, Apart, Generates
  <2> QED
    BY <2>1, ShowsRecord DEF Record
<1> QED
  BY <1>1, SameShown

\* A request moves to a stage and writes its record.
LEMMA WritesShown ==
  ASSUME TypeOK, Young, Placed, AllShown, NEW a \in Requests, ~At(a, "idle"), Apart(a),
         NEW stage \in Stages, Moved(a, stage), Shows(a, "running"),
         stage \in {"read", "ask"} => req'[a].waited = 0,
         stage = "ask" => req'[a].attempt = 1
  PROVE  AllShown'
<1>1. ASSUME NEW b \in Requests, b # a PROVE Shown(b)'
  BY <1>1, OthersShown DEF Moved
<1>2. Record(a)' = [status |-> "running", age |-> 0]
  BY ShowsRecord DEF Record, Moved, Placed
<1>3. Record(a)'.status = "running" /\ Record(a)'.age = 0 /\ req'[a].stage = stage
  BY <1>2 DEF Moved
<1>4. At(a, "read")' => Record(a)'.age <= req'[a].waited /\ req'[a].waited <= Reading
  BY <1>3, NumbersHold DEF At
<1>5. At(a, "ask")' => /\ req'[a].attempt \in 1..(MaxRetries + 1)
                      /\ req'[a].waited <= Timeout
                      /\ Record(a)'.age <= Spent(req'[a].attempt) + req'[a].waited
  BY <1>3, NumbersHold, SpentFacts DEF At
<1>6. Shown(a)'
  BY <1>3, <1>4, <1>5 DEF Shown, PacedAt
<1> QED
  BY <1>1, <1>6 DEF AllShown

\* A generation ends, or writes that it has ended.
LEMMA EndsShown ==
  ASSUME TypeOK, Young, Placed, AllShown, NEW a \in Requests, ~At(a, "idle"), Apart(a),
         NEW status \in {"completed", "failed"}, Shows(a, status) \/ progress' = progress,
         ~Works(a)', \A b \in Requests : b # a => req'[b] = req[b] \/ req'[b] = NoRequest
  PROVE  AllShown'
<1>1. ASSUME NEW b \in Requests, b # a PROVE Shown(b)'
  <2>1. CASE Shows(a, status)
    BY <1>1, <2>1, OthersShown
  <2>2. CASE progress' = progress
    BY <1>1, <2>2, SameShown DEF Record
  <2> QED
    BY <2>1, <2>2
<1> QED
  BY <1>1, IdleShown DEF AllShown

\* A request that does not write a record, and does not work on one.
LEMMA AsideShown ==
  ASSUME AllShown, NEW a \in Requests, progress' = progress, ~Works(a)',
         \A b \in Requests : b # a => req'[b] = req[b] \/ req'[b] = NoRequest
  PROVE  AllShown'
<1>1. ASSUME NEW b \in Requests, b # a PROVE Shown(b)'
  BY <1>1, SameShown DEF Record
<1> QED
  BY <1>1, IdleShown DEF AllShown

LEMMA SettleRequests ==
  ASSUME NEW a \in Requests, Settle(a)
  PROVE  ~Works(a)' /\ \A b \in Requests : req'[b] = req[b] \/ req'[b] = NoRequest
BY NoRequestHolds DEF Settle, Works

LEMMA ThrowsShown ==
  ASSUME TypeOK, Young, Placed, InFlightIsLive, AllShown, NEW a \in Requests, Generates(a), Throws(a)
  PROVE  AllShown'
<1>1. ~At(a, "idle") /\ Apart(a) /\ Shows(a, "failed")
  BY GeneratesApart DEF Generates, At, Throws
<1>2. ~Works(a)' /\ \A b \in Requests : req'[b] = req[b] \/ req'[b] = NoRequest
  BY SettleRequests DEF Throws
<1> QED
  BY <1>1, <1>2, EndsShown

LEMMA TickShown == ASSUME TypeOK, Young, Placed, AllShown, Tick PROVE AllShown'
<1> SUFFICES ASSUME NEW b \in Requests PROVE Shown(b)'
  BY DEF AllShown
<1>1. /\ req[b] \in Request
      /\ req'[b] = IF Waits(b) THEN [req[b] EXCEPT !.waited = req[b].waited + 1] ELSE req[b]
  BY DEF Tick, TypeOK
<1>2. req'[b].stage = req[b].stage
  BY <1>1 DEF Request
<1>3. CASE ~Works(b)
  BY <1>2, <1>3, IdleShown DEF Works
<1>4. CASE Works(b)
  <2>1. req[b].waited \in Nat /\ req[b].waited < Patience(b) /\ ~At(b, "store") /\ Waits(b)
    BY <1>1, <1>4, NumbersHold DEF Tick, Works, Patience, At, Request, Waits
  <2>2. /\ req'[b].waited = req[b].waited + 1 /\ req'[b].attempt = req[b].attempt
        /\ req'[b].process = req[b].process /\ req'[b].hash = req[b].hash
    BY <1>1, <2>1 DEF Request
  <2>3. req[b].process \in Processes /\ req[b].hash \in Profiles
    BY <1>4 DEF Placed, At, Works
  <2>4. Record(b) \in Progress /\ Record(b).status = "running"
    BY <1>4, <2>3 DEF TypeOK, Record, AllShown, Shown
  <2>5. Record(b).age + 1 < Ttl
    <3>1. CASE At(b, "read")
      BY <2>1, <2>4, <3>1, NumbersHold DEF AllShown, Shown, PacedAt, Patience, At, Progress
    <3>2. CASE At(b, "ask")
      <4>1. /\ req[b].attempt \in 1..(MaxRetries + 1)
            /\ Record(b).age <= Spent(req[b].attempt) + req[b].waited
            /\ req[b].waited < Timeout
        BY <2>1, <3>2 DEF AllShown, Shown, PacedAt, Patience, At
      <4> QED
        BY <2>1, <2>4, <4>1, SpentFacts, NumbersHold DEF Progress
    <3> QED
      BY <1>4, <2>1, <3>1, <3>2 DEF Works, At
  <2>6. Record(b)' = [Record(b) EXCEPT !.age = Record(b).age + 1]
    <3>1. \A q \in Processes, p \in Profiles :
            progress'[q][p] = IF progress[q][p].status # "running" THEN progress[q][p]
                              ELSE IF progress[q][p].age + 1 = Ttl THEN NoProgress
                              ELSE [progress[q][p] EXCEPT !.age = progress[q][p].age + 1]
      BY DEF Tick
    <3>2. Record(b)' = progress'[req[b].process][req[b].hash]
      BY <2>2 DEF Record
    <3>3. Record(b).age + 1 # Ttl
      BY <2>4, <2>5, NumbersHold DEF Progress
    <3> QED
      BY <2>3, <2>4, <3>1, <3>2, <3>3 DEF Record
  <2>7. Record(b)'.status = "running" /\ Record(b)'.age = Record(b).age + 1
    BY <2>4, <2>6 DEF Progress
  <2>8. At(b, "read")' => Record(b)'.age <= req'[b].waited /\ req'[b].waited <= Reading
    <3> SUFFICES ASSUME At(b, "read") PROVE Record(b)'.age <= req'[b].waited /\ req'[b].waited <= Reading
      BY <1>2 DEF At
    <3>1. Record(b).age <= req[b].waited /\ req[b].waited < Reading
      BY <2>1 DEF AllShown, Shown, PacedAt, Patience, At
    <3>2. Record(b).age \in Nat
      BY <2>4, NumbersHold DEF Progress
    <3> QED
      BY <2>1, <2>2, <2>7, <3>1, <3>2, NumbersHold
  <2>9. At(b, "ask")' => /\ req'[b].attempt \in 1..(MaxRetries + 1)
                        /\ req'[b].waited <= Timeout
                        /\ Record(b)'.age <= Spent(req'[b].attempt) + req'[b].waited
    <3> SUFFICES ASSUME At(b, "ask")
                 PROVE  /\ req'[b].attempt \in 1..(MaxRetries + 1)
                        /\ req'[b].waited <= Timeout
                        /\ Record(b)'.age <= Spent(req'[b].attempt) + req'[b].waited
      BY <1>2 DEF At
    <3>1. /\ req[b].attempt \in 1..(MaxRetries + 1)
          /\ Record(b).age <= Spent(req[b].attempt) + req[b].waited
          /\ req[b].waited < Timeout
      BY <2>1 DEF AllShown, Shown, PacedAt, Patience, At
    <3>2. Spent(req[b].attempt) \in Nat /\ Record(b).age \in Nat
      BY <2>4, <3>1, SpentFacts, NumbersHold DEF Progress
    <3>3. Spent(req'[b].attempt) = Spent(req[b].attempt)
      BY <2>2
    <3>4. req[b].waited + 1 <= Timeout
      BY <2>1, <3>1, NumbersHold
    <3>5. Record(b).age + 1 <= Spent(req[b].attempt) + (req[b].waited + 1)
      BY <2>1, <3>1, <3>2
    <3> QED
      BY <2>2, <2>7, <3>1, <3>3, <3>4, <3>5
  <2> QED
    BY <2>7, <2>8, <2>9 DEF Shown, PacedAt
<1> QED
  BY <1>3, <1>4

LEMMA ShownStep == TypeOK /\ Young /\ Placed /\ InFlightIsLive /\ AllShown /\ [Next]_vars => AllShown'
<1> SUFFICES ASSUME TypeOK, Young, Placed, InFlightIsLive, AllShown, [Next]_vars PROVE AllShown'
  OBVIOUS
<1>0. req \in [Requests -> Request] /\ \A a \in Requests : req[a] \in Request
  BY DEF TypeOK
<1>1. ASSUME NEW a \in Requests, NEW q \in Processes, Begin(a, q) PROVE AllShown'
  <2>1. req'[a].stage = "find" /\ \A b \in Requests : b # a => req'[b] = req[b]
    BY <1>0, <1>1 DEF Begin, NoRequest
  <2> QED
    BY <1>1, <2>1, AsideShown DEF Begin, Works
<1>2. ASSUME NEW a \in Requests, NEW cacheOnly \in BOOLEAN, Find(a, cacheOnly) PROVE AllShown'
  <2>1. ~Works(a)' /\ \A b \in Requests : b # a => req'[b] = req[b]
    <3>1. CASE Ends(a)
      BY <1>0, <3>1, NoRequestHolds DEF Ends, Works
    <3>2. CASE Goes(a, "check")
      BY <1>2, <3>2, GoesMoves DEF Find, At, Works, Moved, Stages
    <3> QED
      BY <1>2, <3>1, <3>2 DEF Find
  <2> QED
    BY <1>2, <2>1, AsideShown DEF Find
<1>3. ASSUME NEW a \in Requests, Check(a) PROVE AllShown'
  <2>0. /\ ~At(a, "idle") /\ At(a, "check")
        /\ req[a].process \in Processes /\ req[a].hash \in Profiles
    BY <1>3 DEF Check, At, Placed
  <2>1. CASE inFlight[req[a].process][req[a].hash] = Nobody
    <3>1. Apart(a)
      BY <2>1, NatalAssumption DEF Apart, InFlightIsLive
    <3>2. Goes(a, "read") /\ Shows(a, "running")
      BY <1>3, <2>1 DEF Check
    <3>3. Moved(a, "read") /\ req'[a].waited = 0
      BY <2>0, <3>2, GoesMoves DEF Stages
    <3> QED
      BY <2>0, <3>1, <3>2, <3>3, WritesShown DEF Stages
  <2>2. CASE inFlight[req[a].process][req[a].hash] # Nobody
    <3>0. PICK leader \in Requests : req' = [req EXCEPT ![a].stage = "join", ![a].leader = leader]
      <4>1. inFlight[req[a].process][req[a].hash] \in Requests
        BY <2>0, <2>2 DEF TypeOK
      <4>2. Pending(inFlight[req[a].process][req[a].hash], req[a].process, req[a].hash)
        BY <2>0, <4>1 DEF InFlightIsLive, Pending
      <4> QED
        BY <1>3, <2>2, <4>1, <4>2 DEF Check
    <3>1. Moved(a, "join")
      BY <2>0, <3>0, JoinMoves
    <3> QED
      BY <1>3, <2>2, <3>1, AsideShown DEF Check, Moved, Works
  <2> QED
    BY <2>1, <2>2
<1>4. ASSUME NEW a \in Requests, Read(a) \/ GiveUp(a) PROVE AllShown'
  <2>0. ~At(a, "idle") /\ Generates(a) /\ Apart(a)
    BY <1>4, GeneratesApart DEF Read, GiveUp, Generates, At
  <2>1. CASE Throws(a)
    BY <2>0, <2>1, ThrowsShown
  <2>2. CASE ~Throws(a)
    <3>1. Moved(a, "ask") /\ req'[a].waited = 0 /\ req'[a].attempt = 1 /\ Shows(a, "running")
      BY <1>4, <2>0, <2>2, FirstAttemptMoves DEF Read, GiveUp
    <3> QED
      BY <2>0, <3>1, WritesShown DEF Stages
  <2> QED
    BY <2>1, <2>2
<1>5. ASSUME NEW a \in Requests, Answers(a) PROVE AllShown'
  <2>1. ~At(a, "idle") /\ Apart(a) /\ Shows(a, "running") /\ Goes(a, "store")
    BY <1>5, GeneratesApart DEF Answers, Generates, At
  <2>2. Moved(a, "store")
    BY <2>1, GoesMoves DEF Stages
  <2> QED
    BY <2>1, <2>2, WritesShown DEF Stages
<1>6. ASSUME NEW a \in Requests, Store(a) PROVE AllShown'
  <2>1. ~At(a, "idle") /\ Apart(a) /\ Shows(a, "completed") /\ Goes(a, "answer")
    BY <1>6, GeneratesApart DEF Store, Generates, At
  <2>2. Moved(a, "answer")
    BY <2>1, GoesMoves DEF Stages
  <2> QED
    BY <2>1, <2>2, EndsShown DEF Moved, Works
<1>7. ASSUME NEW a \in Requests, Retry(a) PROVE AllShown'
  <2>1. /\ Moved(a, "ask") /\ req'[a].waited = 0 /\ req'[a].attempt = req[a].attempt + 1
        /\ progress' = progress /\ At(a, "ask") /\ req[a].attempt <= MaxRetries
    BY <1>7, RetryMoves DEF Retry
  <2>2. ASSUME NEW b \in Requests, b # a PROVE Shown(b)'
    BY <2>1, <2>2, SameShown DEF Moved, Record
  <2>3. Record(a)' = Record(a) /\ Record(a).status = "running"
    BY <2>1 DEF Moved, Record, AllShown, Shown, Works, At
  <2>4. /\ req[a].attempt \in 1..(MaxRetries + 1) /\ req[a].waited <= Timeout
        /\ Record(a).age <= Spent(req[a].attempt) + req[a].waited
    BY <2>1 DEF AllShown, Shown, PacedAt
  <2>5. Record(a).age \in Nat /\ req[a].waited \in Nat
    <3>1. req[a].process \in Processes /\ req[a].hash \in Profiles
      BY <2>1 DEF Placed, At
    <3> QED
      BY <1>0, <3>1, NumbersHold DEF TypeOK, Record, Progress, Request
  <2>6. Record(a).age <= Spent(req[a].attempt + 1) + 0 /\ req[a].attempt + 1 \in 1..(MaxRetries + 1)
    BY <2>1, <2>4, <2>5, SpentFacts, NumbersHold
  <2>7. Shown(a)'
    BY <2>1, <2>3, <2>6, NumbersHold DEF Shown, PacedAt, Moved, At
  <2> QED
    BY <2>2, <2>7 DEF AllShown
<1>8. ASSUME NEW a \in Requests, Answer(a) PROVE AllShown'
  BY <1>8, SettleRequests, AsideShown DEF Answer
<1>9. ASSUME NEW a \in Requests, CommandFails(a) PROVE AllShown'
  <2>1. CASE Generates(a) /\ Throws(a)
    BY <2>1, ThrowsShown
  <2>2. CASE ~(Generates(a) /\ Throws(a))
    <3>1. ~Works(a)' /\ progress' = progress /\ \A b \in Requests : b # a => req'[b] = req[b]
      BY <1>0, <1>9, <2>2, NoRequestHolds DEF CommandFails, Ends, Works
    <3> QED
      BY <3>1, AsideShown
  <2> QED
    BY <2>1, <2>2
<1>10. ASSUME NEW q \in Processes, Die(q) PROVE AllShown'
  <2> SUFFICES ASSUME NEW b \in Requests PROVE Shown(b)'
    BY DEF AllShown
  <2>1. CASE req[b].process = q
    BY <1>10, <2>1, IdleShown, NoRequestHolds DEF Die, Works
  <2>2. CASE req[b].process # q
    <3>1. Works(b) => req[b].process \in Processes /\ req[b].hash \in Profiles
      BY DEF Placed, At, Works
    <3> QED
      BY <1>10, <2>2, <3>1, SameShown DEF Die, TypeOK, Record
  <2> QED
    BY <2>1, <2>2
<1>11. ASSUME NEW q \in Processes, NEW p \in Profiles, Expire(q, p) PROVE AllShown'
  <2> SUFFICES ASSUME NEW b \in Requests PROVE Shown(b)'
    BY DEF AllShown
  <2>1. ASSUME Works(b) PROVE progress'[req[b].process][req[b].hash] = Record(b)
    <3>1. ~(req[b].process = q /\ req[b].hash = p)
      BY <1>11, <2>1 DEF Expire, AllShown, Shown, Record
    <3>2. req[b].process \in Processes /\ req[b].hash \in Profiles
      BY <2>1 DEF Placed, At, Works
    <3> QED
      BY <1>11, <3>1, <3>2 DEF Expire, TypeOK, Record
  <2> QED
    BY <1>11, <2>1, SameShown DEF Expire
<1>12. CASE Tick
  BY <1>12, TickShown
<1>13. CASE ChangeProfile \/ UNCHANGED vars
  <2>1. req' = req /\ progress' = progress
    BY <1>13 DEF ChangeProfile, vars
  <2> QED
    BY <2>1, SameShown DEF AllShown, Record
<1> QED
  BY <1>1, <1>2, <1>3, <1>4, <1>5, <1>6, <1>7, <1>8, <1>9, <1>10, <1>11, <1>12, <1>13 DEF Next, Steps

-----------------------------------------------------------------------------
(* What is announced.                                                      *)

LEMMA StoredStep ==
  TypeOK /\ Young /\ Placed /\ CompletedIsStored /\ [Next]_vars => CompletedIsStored'
<1> SUFFICES ASSUME TypeOK, Young, Placed, CompletedIsStored, [Next]_vars,
                    NEW q \in Processes, NEW p \in Profiles, progress'[q][p].status = "completed"
             PROVE  p \in reports'
  BY DEF CompletedIsStored
<1>1. reports \subseteq reports'
  BY DEF Next, Steps, Begin, Find, Check, Read, Answers, Retry, GiveUp, Store, Answer, CommandFails, Die,
         Expire, ChangeProfile, Tick, vars
<1>2. CASE progress'[q][p].status = progress[q][p].status
  BY <1>1, <1>2 DEF CompletedIsStored
<1>3. CASE progress' = progress
  BY <1>2, <1>3
<1>4. ASSUME NEW a \in Requests, ~At(a, "idle"), NEW status \in {"running", "failed"}, Shows(a, status)
      PROVE  p \in reports'
  <2>1. progress'[q][p] = [status |-> status, age |-> 0] \/ progress'[q][p] = progress[q][p]
    BY <1>4, ShowsRecord
  <2> QED
    BY <1>2, <1>4, <2>1
<1>5. ASSUME NEW a \in Requests, Store(a) PROVE p \in reports'
  <2>1. ~At(a, "idle") /\ Shows(a, "completed") /\ req[a].hash \in reports'
    BY <1>5 DEF Store, At
  <2>2. p = req[a].hash \/ progress'[q][p] = progress[q][p]
    BY <2>1, ShowsRecord
  <2> QED
    BY <1>2, <2>1, <2>2
<1>6. ASSUME NEW a \in Requests, Check(a) \/ Read(a) \/ Answers(a) \/ GiveUp(a) \/ CommandFails(a)
      PROVE  p \in reports'
  <2>1. ~At(a, "idle")
    BY <1>6 DEF Check, Read, Answers, GiveUp, CommandFails, Generates, At
  <2>2. progress' = progress \/ Shows(a, "running") \/ Shows(a, "failed")
    BY <1>6 DEF Check, Read, Answers, GiveUp, CommandFails, Throws
  <2> QED
    BY <1>3, <1>4, <2>1, <2>2
<1>7. ASSUME NEW d \in Processes, Die(d) PROVE p \in reports'
  <2>1. progress'[q][p] = NoProgress \/ progress'[q][p] = progress[q][p]
    BY <1>7 DEF Die, TypeOK
  <2> QED
    BY <1>2, <2>1, NoRequestHolds
<1>8. ASSUME NEW d \in Processes, NEW h \in Profiles, Expire(d, h) PROVE p \in reports'
  <2>1. progress'[q][p] = NoProgress \/ progress'[q][p] = progress[q][p]
    BY <1>8 DEF Expire, TypeOK
  <2> QED
    BY <1>2, <2>1, NoRequestHolds
<1>9. CASE Tick
  <2>1. progress'[q][p] = IF progress[q][p].status # "running" THEN progress[q][p]
                          ELSE IF progress[q][p].age + 1 = Ttl THEN NoProgress
                          ELSE [progress[q][p] EXCEPT !.age = progress[q][p].age + 1]
    BY <1>9 DEF Tick
  <2>2. progress[q][p] \in Progress
    BY DEF TypeOK
  <2>3. progress'[q][p] = NoProgress \/ progress'[q][p].status = progress[q][p].status
    BY <2>1, <2>2 DEF Progress
  <2> QED
    BY <1>2, <2>3, NoRequestHolds
<1>10. CASE \/ \E a \in Requests, d \in Processes : Begin(a, d)
            \/ \E a \in Requests : Retry(a) \/ Answer(a) \/ \E cacheOnly \in BOOLEAN : Find(a, cacheOnly)
            \/ ChangeProfile \/ UNCHANGED vars
  BY <1>3, <1>10 DEF Begin, Retry, Answer, Find, ChangeProfile, vars
<1> QED
  BY <1>5, <1>6, <1>7, <1>8, <1>9, <1>10 DEF Next, Steps

-----------------------------------------------------------------------------
(* The theorems.                                                           *)

IInv == TypeOK /\ Young /\ Placed /\ InFlightIsLive /\ AllShown /\ CompletedIsStored

LEMMA Inductive == Spec => []IInv
<1>1. Init => IInv
  <2> SUFFICES ASSUME Init PROVE IInv
    OBVIOUS
  <2>1. TypeOK /\ Young
    BY NoRequestHolds, NumbersHold, NatalAssumption DEF Init, TypeOK, Young
  <2>2. \A a \in Requests : req[a] = NoRequest
    BY DEF Init
  <2>3. Placed /\ AllShown
    BY <2>2, NoRequestHolds DEF Placed, AllShown, Shown, PacedAt, Works, At
  <2>4. InFlightIsLive
    BY <2>2, NoRequestHolds, NatalAssumption DEF Init, InFlightIsLive, Generates, At
  <2>5. CompletedIsStored
    BY NoRequestHolds DEF Init, CompletedIsStored
  <2> QED
    BY <2>1, <2>3, <2>4, <2>5 DEF IInv
<1>2. IInv /\ [Next]_vars => IInv'
  BY TypeStep, LiveStep, ShownStep, StoredStep DEF IInv
<1> QED
  BY <1>1, <1>2, PTL DEF Spec

\* The type invariant of reports, records and requests.
THEOREM TypeCorrect == Spec => []TypeOK
<1>1. IInv => TypeOK
  BY DEF IInv
<1> QED
  BY <1>1, Inductive, PTL

\* In each process one request at most makes the report of a profile, and everyone who
\* waits there waits for that one.
THEOREM OneGenerationPerProcess == Spec => []InFlightIsLive
<1>1. IInv => InFlightIsLive
  BY DEF IInv
<1> QED
  BY <1>1, Inductive, PTL

\* The record a client polls says that the report is made for as long as it is: no stage
\* outlasts it, however many attempts it takes.
THEOREM RecordOutlivesStages == Spec => []GeneratingIsShown
<1>1. IInv => GeneratingIsShown
  BY DEF IInv, AllShown, Shown, Works, Record, GeneratingIsShown
<1> QED
  BY <1>1, Inductive, PTL

\* A report announced as complete is stored.
THEOREM AnnouncedIsStored == Spec => []CompletedIsStored
<1>1. IInv => CompletedIsStored
  BY DEF IInv
<1> QED
  BY <1>1, Inductive, PTL

=============================================================================
