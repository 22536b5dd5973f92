---------------------------- MODULE SessionsProofs ----------------------------
(***************************************************************************)
(* What holds of Sessions for every number of users, requests and tokens:  *)
(* a session that was revoked stays revoked, an Apple identity has one     *)
(* owner, refreshing locks no client out, and the limiter bounds the       *)
(* anonymous starts of every stretch of time.                              *)
(***************************************************************************)
EXTENDS Sessions, FiniteSetTheorems, TLAPS

(***************************************************************************)
(* The inductive invariant.  A request that is served works for a user and *)
(* has drawn a pair when it is about to answer one.  A user who has no     *)
(* session yet is worked on by the request that creates it alone: nothing  *)
(* can be revoked before the session is stored, and the stored session     *)
(* overwrites none.  The pair of a stored session is held or on its way,   *)
(* whether or not the client was answered before.                          *)
(***************************************************************************)
Working ==
  \A r \in Requests : requests[r].stage # "idle" =>
    /\ requests[r].user \in Users
    /\ requests[r].stage \in {"touch", "answer"} => requests[r].pair # NoPair

Untouched(u) == sessions[u] = NoSession /\ held[u] = {}

Unknown == \A u \in Users : users[u].kind = "none" =>
             Untouched(u) /\ \A r \in Requests : requests[r].user # u

Inserting == \A r \in Requests : requests[r].stage = "insert" =>
               /\ Untouched(requests[r].user)
               /\ users[requests[r].user].kind # "none"
               /\ \A q \in Requests \ {r} : requests[q].user # requests[r].user

OnItsWay(u, pair) == \E r \in Requests :
  requests[r].user = u /\ requests[r].stage \in {"touch", "answer"} /\ requests[r].pair = pair

Reaches(u) ==
  /\ sessions[u].pair = NoPair =>
       held[u] = {} /\ \A r \in Requests : requests[r].user = u => requests[r].stage = "insert"
  /\ sessions[u].pair # NoPair => sessions[u].pair \in held[u] \/ OnItsWay(u, sessions[u].pair)

PairKnown == \A u \in Users : u \notin cut => Reaches(u)

IInv == TypeOK /\ Working /\ Unknown /\ Inserting /\ PairKnown

-----------------------------------------------------------------------------
(* Types.                                                                  *)

\* A fresh request record is well typed.
LEMMA RequestTypes ==
  ASSUME TypeOK
  PROVE  /\ Idle \in RequestType
         /\ \A stage \in Stages, u \in Users : Request(stage, u, now) \in RequestType
<1>1. now \in 0..MaxTime /\ 0 \in 0..MaxTime /\ 0 \in 0..issued
  BY SessionAssumption DEF TypeOK
<1> QED
  BY <1>1 DEF Idle, Request, RequestType, Stages, NoPair

\* Drawing a pair widens the types, and the pair fits the wider ones.
LEMMA TypesGrow ==
  ASSUME TypeOK, issued' = issued + 1
  PROVE  /\ issued' \in 0..issued'
         /\ \A p \in 0..issued : p \in 0..issued'
         /\ \A p \in 1..issued : p \in 1..issued'
         /\ Session \subseteq Session'
         /\ RequestType \subseteq RequestType'
<1>1. issued \in Nat
  BY SessionAssumption DEF TypeOK
<1>2. /\ issued' \in 0..issued'
      /\ \A p \in 0..issued : p \in 0..issued'
      /\ \A p \in 1..issued : p \in 1..issued'
  BY <1>1
<1>3. Session \subseteq Session'
  BY <1>2 DEF Session
<1>4. RequestType \subseteq RequestType'
  BY <1>2 DEF RequestType
<1> QED
  BY <1>2, <1>3, <1>4

\* What a step does to a request record keeps its type.
LEMMA RequestEdits ==
  ASSUME NEW q \in RequestType, NEW stage \in Stages
  PROVE  /\ [q EXCEPT !.stage = stage] \in RequestType
         /\ \A p \in 0..issued : [q EXCEPT !.stage = stage, !.pair = p] \in RequestType
         /\ \A sub \in AppleSubs : [q EXCEPT !.stage = stage, !.sub = sub] \in RequestType
<1>1. q.stage \in Stages /\ q.user \in Users \cup {Nobody} /\ q.at \in 0..MaxTime
      /\ q.pair \in 0..issued /\ q.sub \in AppleSubs \cup {NoSub}
      /\ q = [stage |-> q.stage, user |-> q.user, at |-> q.at, pair |-> q.pair, sub |-> q.sub]
  BY DEF RequestType
<1> QED
  BY <1>1 DEF RequestType

\* The type invariant and its companion hold at the start.
LEMMA TypeInit == Init => TypeOK /\ Working
<1> SUFFICES ASSUME Init PROVE TypeOK /\ Working
  OBVIOUS
<1> USE SessionAssumption DEF Init
<1>1. NoUser \in User /\ NoSession \in Session
  BY DEF NoUser, NoSession, NoPair, User, Session
<1>2. Idle \in RequestType
  BY DEF Idle, Request, RequestType, Stages, NoPair
<1>3. limiter \in [count : 0..StartMax, resetAt : Nat]
  OBVIOUS
<1>4. TypeOK
  BY <1>1, <1>2, <1>3 DEF TypeOK
<1>5. Working
  BY DEF Working, Idle, Request
<1> QED
  BY <1>4, <1>5

\* Every step keeps the types, and a request keeps to its user.
LEMMA TypeStep == TypeOK /\ Working /\ [Next]_vars => TypeOK' /\ Working'
<1> SUFFICES ASSUME TypeOK, Working, [Next]_vars PROVE TypeOK' /\ Working'
  OBVIOUS
<1> USE SessionAssumption
<1> USE DEF TypeOK
<1>0. Idle \in RequestType /\ Idle.stage = "idle"
  BY RequestTypes DEF Idle, Request
<1>1. ASSUME NEW r \in Requests, NEW u \in Users, StartAnonymous(r, u)
      PROVE  TypeOK' /\ Working'
  <2>1. limiter' \in [count : 0..StartMax, resetAt : Nat]
    <3>1. limiter.count \in 0..StartMax /\ limiter.resetAt \in Nat /\ now \in Nat
      OBVIOUS
    <3>2. CASE limiter.resetAt <= now
      BY <1>1, <3>1, <3>2 DEF StartAnonymous, Admit
    <3>3. CASE ~(limiter.resetAt <= now)
      <4>1. limiter' = [limiter EXCEPT !.count = limiter.count + 1] /\ limiter.count < StartMax
        BY <1>1, <3>3 DEF StartAnonymous, Admit
      <4>2. limiter.count + 1 \in 0..StartMax
        BY <3>1, <4>1
      <4> QED
        BY <4>1, <4>2
    <3> QED
      BY <3>2, <3>3
  <2>2. requests' \in [Requests -> RequestType] /\ users' \in [Users -> User]
    BY <1>1, RequestTypes DEF StartAnonymous, User, Stages
  <2>3. starts' \in Seq(0..MaxTime)
    BY <1>1 DEF StartAnonymous
  <2>4. Working'
    BY <1>1 DEF StartAnonymous, Working, Request
  <2> QED
    BY <1>1, <2>1, <2>2, <2>3, <2>4 DEF StartAnonymous, RequestType, Session
<1>2. ASSUME NEW r \in Requests, InsertSession(r) PROVE TypeOK' /\ Working'
  <2>1. issued' = issued + 1 /\ issued' \in 0..MaxPairs /\ issued' # NoPair
    BY <1>2 DEF InsertSession, NoPair
  <2>2. NewSession(issued') \in Session'
    BY <2>1, TypesGrow DEF NewSession, Session
  <2>3. sessions' \in [Users -> Session']
    <3>1. \A u \in Users : sessions[u] \in Session'
      BY <2>1, TypesGrow
    <3>2. sessions' = [sessions EXCEPT ![requests[r].user] = NewSession(issued')]
      BY <1>2, <2>1 DEF InsertSession
    <3> QED
      BY <2>2, <3>1, <3>2
  <2>4. [requests[r] EXCEPT !.stage = "answer", !.pair = issued'] \in RequestType'
    <3>1. requests[r] \in RequestType' /\ issued' \in 0..issued' /\ "answer" \in Stages
      BY <2>1, TypesGrow DEF Stages
    <3> QED
      BY <3>1 DEF RequestType
  <2>5. requests' = [requests EXCEPT ![r] = [requests[r] EXCEPT !.stage = "answer", !.pair = issued']]
    BY <1>2, <2>1 DEF InsertSession
  <2>6. requests' \in [Requests -> RequestType']
    BY <2>1, <2>4, <2>5, TypesGrow
  <2>7. held' \in [Users -> SUBSET (1..issued')]
    BY <1>2, <2>1, TypesGrow DEF InsertSession
  <2>8. Working'
    BY <1>2, <2>1, <2>5 DEF InsertSession, At, Working, RequestType
  <2> QED
    BY <1>2, <2>1, <2>3, <2>6, <2>7, <2>8 DEF InsertSession, User
<1>3. ASSUME NEW r \in Requests, RefreshWrite(r) PROVE TypeOK' /\ Working'
  <2>1. issued' = issued + 1 /\ issued' \in 0..MaxPairs /\ issued' # NoPair
    BY <1>3 DEF RefreshWrite, NoPair
  <2>2. requests[r].user \in Users
    BY <1>3 DEF RefreshWrite, At, Working
  <2>3. Rotate(sessions[requests[r].user], issued') \in Session'
    <3>1. sessions[requests[r].user] \in Session' /\ issued' \in 0..issued'
      BY <2>1, <2>2, TypesGrow
    <3>2. now + AccessTtl \in Nat /\ now + RefreshTtl \in Nat
      OBVIOUS
    <3> QED
      BY <3>1, <3>2 DEF Rotate, Session
  <2>4. sessions' \in [Users -> Session']
    <3>1. \A u \in Users : sessions[u] \in Session'
      BY <2>1, TypesGrow
    <3>2. \/ sessions' = sessions
          \/ sessions' = [sessions EXCEPT ![requests[r].user] =
                            Rotate(sessions[requests[r].user], issued')]
      BY <1>3, <2>1 DEF RefreshWrite
    <3> QED
      BY <2>3, <3>1, <3>2
  <2>5. [requests[r] EXCEPT !.stage = "touch", !.pair = issued'] \in RequestType'
    <3>1. requests[r] \in RequestType' /\ issued' \in 0..issued' /\ "touch" \in Stages
      BY <2>1, TypesGrow DEF Stages
    <3> QED
      BY <3>1 DEF RequestType
  <2>6. requests' = [requests EXCEPT ![r] = [requests[r] EXCEPT !.stage = "touch", !.pair = issued']]
    BY <1>3, <2>1 DEF RefreshWrite
  <2>7. requests' \in [Requests -> RequestType']
    BY <2>1, <2>5, <2>6, TypesGrow
  <2>8. held' \in [Users -> SUBSET (1..issued')]
    BY <1>3, <2>1, TypesGrow DEF RefreshWrite
  <2>9. Working'
    BY <1>3, <2>1, <2>6 DEF RefreshWrite, At, Working, RequestType
  <2> QED
    BY <1>3, <2>1, <2>4, <2>7, <2>8, <2>9 DEF RefreshWrite, User
<1>4. ASSUME NEW r \in Requests, RefreshTouch(r) \/ AuthTouch(r) \/ LinkCheck(r) \/ LinkWrite(r)
      PROVE  TypeOK' /\ Working'
  <2>1. requests[r].user \in Users /\ requests[r].stage # "idle" /\ requests[r] \in RequestType
    BY <1>4 DEF RefreshTouch, AuthTouch, LinkCheck, LinkWrite, At, Working
  <2>2. users' \in [Users -> User]
    <3>1. requests[r].at \in 0..MaxTime /\ requests[r].sub \in AppleSubs \cup {NoSub}
      BY <2>1 DEF RequestType
    <3>2. [users[requests[r].user] EXCEPT !.lastSeenAt = requests[r].at] \in User
      <4>1. users[requests[r].user] \in User
        BY <2>1
      <4> QED
        BY <3>1, <4>1 DEF User
    <3>3. [kind |-> "registered", sub |-> requests[r].sub, lastSeenAt |-> requests[r].at] \in User
      BY <3>1 DEF User
    <3>4. \/ users' = users
          \/ users' = [users EXCEPT ![requests[r].user] =
                         [users[requests[r].user] EXCEPT !.lastSeenAt = requests[r].at]]
          \/ users' = [users EXCEPT ![requests[r].user] =
               [kind |-> "registered", sub |-> requests[r].sub, lastSeenAt |-> requests[r].at]]
      BY <1>4 DEF RefreshTouch, AuthTouch, LinkCheck, LinkWrite
    <3> QED
      BY <3>2, <3>3, <3>4
  <2>3. \/ requests' = [requests EXCEPT ![r] = Idle]
        \/ \E stage \in {"answer", "link"} : requests' = [requests EXCEPT ![r].stage = stage]
                                              /\ (stage = "answer" => requests[r].stage = "touch")
        \/ \E sub \in AppleSubs : requests' = [requests EXCEPT ![r].stage = "check", ![r].sub = sub]
    BY <1>4 DEF RefreshTouch, AuthTouch, LinkCheck, LinkWrite, Ends, Goes, At
  <2>4. \A stage \in {"answer", "link"} : [requests[r] EXCEPT !.stage = stage] \in RequestType
    BY <2>1, RequestEdits DEF Stages
  <2>5. \A sub \in AppleSubs : [requests[r] EXCEPT !.stage = "check", !.sub = sub] \in RequestType
    BY <2>1, RequestEdits DEF Stages
  <2>6. requests' \in [Requests -> RequestType]
    BY <1>0, <2>3, <2>4, <2>5
  <2>7. requests'[r].stage # "idle" =>
          /\ requests'[r].user = requests[r].user
          /\ requests'[r].stage \in {"touch", "answer"} =>
               requests'[r].pair = requests[r].pair /\ requests[r].stage = "touch"
    BY <1>0, <2>1, <2>3 DEF RequestType
  <2>8. \A q \in Requests \ {r} : requests'[q] = requests[q]
    BY <2>3
  <2>9. Working'
    BY <2>1, <2>7, <2>8 DEF Working
  <2> QED
    BY <1>4, <2>2, <2>6, <2>9 DEF RefreshTouch, AuthTouch, LinkCheck, LinkWrite, RequestType, Session
<1>5. ASSUME NEW r \in Requests, LogoutAccess(r) PROVE TypeOK' /\ Working'
  <2>1. requests' = [requests EXCEPT ![r] = Idle]
    BY <1>5 DEF LogoutAccess, Ends
  <2>2. requests' \in [Requests -> RequestType] /\ Working'
    BY <1>0, <2>1 DEF Working
  <2>3. sessions' \in [Users -> Session]
    BY <1>5 DEF LogoutAccess, Revoke, Session
  <2> QED
    BY <1>5, <2>2, <2>3 DEF LogoutAccess, RequestType, Session
<1>6. ASSUME NEW r \in Requests, Answer(r) PROVE TypeOK' /\ Working'
  <2>1. requests' = [requests EXCEPT ![r] = Idle]
    BY <1>6 DEF Answer, Ends
  <2>2. requests' \in [Requests -> RequestType] /\ Working'
    BY <1>0, <2>1 DEF Working
  <2>3. requests[r].user \in Users /\ requests[r].pair \in 1..issued
    BY <1>6 DEF Answer, At, Working, RequestType, NoPair
  <2>4. held' \in [Users -> SUBSET (1..issued)]
    BY <1>6, <2>3 DEF Answer
  <2> QED
    BY <1>6, <2>2, <2>4 DEF Answer, RequestType, Session
<1>7. ASSUME NEW r \in Requests, Lose(r) PROVE TypeOK' /\ Working'
  <2>1. requests' = [requests EXCEPT ![r] = Idle]
    BY <1>7 DEF Lose, Ends
  <2>2. requests' \in [Requests -> RequestType] /\ Working'
    BY <1>0, <2>1 DEF Working
  <2>3. cut' \subseteq Users /\ faults' \in 0..MaxFaults
    BY <1>7 DEF Lose, At, Working
  <2> QED
    BY <1>7, <2>2, <2>3 DEF Lose, RequestType, Session
<1>8. ASSUME NEW r \in Requests, NEW u \in Users, NEW pair \in Pairs,
             RefreshRead(r, u, pair) \/ AuthRead(r, u, pair) \/ LogoutRefresh(r, u, pair)
      PROVE  TypeOK' /\ Working'
  <2>1. pair \in 0..issued
    BY <1>8 DEF RefreshRead, AuthRead, LogoutRefresh
  <2>2. /\ Request("rotate", u, now) \in RequestType
        /\ Request("user", u, now) \in RequestType
        /\ [Request("access", u, now) EXCEPT !.pair = pair] \in RequestType
    BY <2>1, RequestTypes DEF Stages, RequestType
  <2>3. requests' \in [Requests -> RequestType] /\ Working'
    <3>1. \E q \in RequestType :
            /\ requests' = [requests EXCEPT ![r] = q]
            /\ q.user \in Users /\ q.stage \notin {"touch", "answer"}
      BY <1>8, <2>2 DEF RefreshRead, AuthRead, LogoutRefresh, Request
    <3> QED
      BY <3>1 DEF Working
  <2>4. sessions' \in [Users -> Session]
    <3>1. \/ sessions' = sessions
          \/ sessions' = [sessions EXCEPT ![u] = [sessions[u] EXCEPT !.revoked = TRUE]]
      BY <1>8 DEF RefreshRead, AuthRead, LogoutRefresh, Revoke
    <3>2. [sessions[u] EXCEPT !.revoked = TRUE] \in Session
      BY DEF Session
    <3> QED
      BY <3>1, <3>2
  <2> QED
    BY <1>8, <2>3, <2>4 DEF RefreshRead, AuthRead, LogoutRefresh, RequestType, Session
<1>9. ASSUME NEW u \in Users, RemoveExpired(u) PROVE TypeOK' /\ Working'
  <2>1. NoSession \in Session
    BY DEF NoSession, NoPair, Session
  <2> QED
    BY <1>9, <2>1 DEF RemoveExpired, RequestType, Session, Working
<1>10. CASE Tick
  BY <1>10 DEF Tick, RequestType, Session, Working
<1>11. CASE UNCHANGED vars
  BY <1>11 DEF vars, RequestType, Session, Working
<1> QED
  BY <1>1, <1>2, <1>3, <1>4, <1>5, <1>6, <1>7, <1>8, <1>9, <1>10, <1>11
     DEF Next, RequestStep, Refused

\* Whatever requests overlap and whatever is lost on the way, every variable
\* stays in its set (the state of services/auth.ts).
THEOREM TypeCorrect == Spec => []TypeOK
<1>1. TypeOK /\ Working /\ [Next]_vars => (TypeOK /\ Working)'
  BY TypeStep
<1> QED
  BY TypeInit, <1>1, PTL DEF Spec

-----------------------------------------------------------------------------
(* The invariant of users, sessions and requests.                          *)

\* At the start nobody is known.
LEMMA InitIInv == Init => IInv
<1> SUFFICES ASSUME Init PROVE IInv
  OBVIOUS
<1>1. TypeOK /\ Working
  BY TypeInit
<1>2. \A r \in Requests : requests[r].stage = "idle" /\ requests[r].user \notin Users
  BY SessionAssumption DEF Init, Idle, Request
<1>3. \A u \in Users : Untouched(u) /\ sessions[u].pair = NoPair
  BY DEF Init, Untouched, NoSession
<1>4. Unknown /\ Inserting /\ PairKnown
  BY <1>2, <1>3 DEF Unknown, Inserting, PairKnown, Reaches, Untouched
<1> QED
  BY <1>1, <1>4 DEF IInv


\* A request that moves on for a user disturbs no other: who is new stays
\* untouched and the others keep their way to their session.
LEMMA OthersKeep ==
  ASSUME IInv, NEW r \in Requests, NEW w \in Users,
         users[w].kind # "none",
         \A q \in Requests \ {r} : requests[q].stage = "insert" => requests[q].user # w,
         requests[r].user = w \/ requests[r].stage = "idle",
         \A q \in Requests \ {r} : requests'[q] = requests[q],
         requests'[r].stage # "insert",
         requests'[r].user \in {w, Nobody},
         \A u \in Users : users'[u].kind = "none" => users[u].kind = "none",
         \A u \in Users \ {w} : sessions'[u] = sessions[u] /\ held'[u] = held[u],
         cut \subseteq cut'
  PROVE  /\ Unknown' /\ Inserting'
         /\ \A u \in Users \ {w} : u \notin cut' => Reaches(u)'
<1> USE SessionAssumption DEF IInv
<1>1. \A u \in Users \ {w} : Untouched(u) => Untouched(u)'
  BY DEF Untouched
<1>2. Unknown'
  BY <1>1 DEF Unknown
<1>3. Inserting'
  <2> SUFFICES ASSUME NEW q \in Requests, requests'[q].stage = "insert"
               PROVE  /\ Untouched(requests[q].user)'
                      /\ users'[requests'[q].user].kind # "none"
                      /\ \A p \in Requests \ {q} : requests'[p].user # requests'[q].user
    BY DEF Inserting
  <2>1. q # r /\ requests'[q] = requests[q] /\ requests[q].user \in Users \ {w}
    BY DEF Working
  <2>2. Untouched(requests[q].user) /\ users[requests[q].user].kind # "none"
    BY <2>1 DEF Inserting
  <2>3. \A p \in Requests \ {q} : requests[p].user # requests[q].user
    BY <2>1 DEF Inserting
  <2>4. Untouched(requests[q].user)'
    BY <1>1, <2>1, <2>2 DEF Untouched
  <2>5. users'[requests'[q].user].kind # "none"
    BY <2>1, <2>2
  <2>6. \A p \in Requests \ {q} : requests'[p].user # requests'[q].user
    BY <2>1, <2>3
  <2> QED
    BY <2>4, <2>5, <2>6
<1>4. ASSUME NEW u \in Users \ {w}, u \notin cut' PROVE Reaches(u)'
  <2>1. Reaches(u) /\ sessions'[u] = sessions[u] /\ held'[u] = held[u]
    BY <1>4 DEF PairKnown
  <2>2. requests'[r].user # u
    BY <1>4
  <2>3. OnItsWay(u, sessions[u].pair) => OnItsWay(u, sessions[u].pair)'
    BY <1>4, <2>1 DEF OnItsWay
  <2> QED
    BY <2>1, <2>2, <2>3 DEF Reaches, OnItsWay
<1> QED
  BY <1>2, <1>3, <1>4

\* A request that was served knows its user, and no newcomer's.
LEMMA ServedUser ==
  ASSUME IInv, NEW r \in Requests, requests[r].stage # "idle"
  PROVE  /\ requests[r].user \in Users
         /\ users[requests[r].user].kind # "none"
         /\ \A q \in Requests \ {r} :
              requests[q].stage = "insert" => requests[q].user # requests[r].user
BY DEF IInv, Working, Unknown, Inserting

\* So does a client that holds a pair.
LEMMA HoldingUser ==
  ASSUME IInv, NEW u \in Users, held[u] # {}
  PROVE  /\ users[u].kind # "none"
         /\ \A q \in Requests : requests[q].stage = "insert" => requests[q].user # u
BY DEF IInv, Unknown, Inserting, Untouched


\* What is left of the invariant when the user of the request reaches its session.
LEMMA Reached ==
  ASSUME NEW w \in Users, w \notin cut' => Reaches(w)',
         \A u \in Users \ {w} : u \notin cut' => Reaches(u)'
  PROVE  PairKnown'
BY DEF PairKnown

\* A user whose session keeps its pair while a request of the user ends or goes
\* on without taking a pair from its way.
LEMMA StillReaches ==
  ASSUME NEW r \in Requests, NEW w \in Users, Reaches(w),
         sessions'[w].pair = sessions[w].pair, held'[w] = held[w],
         sessions[w].pair # NoPair,
         \A q \in Requests \ {r} : requests'[q] = requests[q],
         \/ requests[r].stage \notin {"touch", "answer"}
         \/ /\ requests'[r].stage \in {"touch", "answer"}
            /\ requests'[r].user = requests[r].user /\ requests'[r].pair = requests[r].pair
  PROVE  Reaches(w)'
<1>1. ASSUME NEW q \in Requests, requests[q].user = w, requests[q].stage \in {"touch", "answer"}
      PROVE  /\ requests'[q].user = w /\ requests'[q].stage \in {"touch", "answer"}
             /\ requests'[q].pair = requests[q].pair
  BY <1>1
<1>2. sessions[w].pair \in held[w] \/ OnItsWay(w, sessions[w].pair)
  BY DEF Reaches
<1> QED
  BY <1>1, <1>2 DEF Reaches, OnItsWay

\* Every step of a request keeps the invariant.
LEMMA RequestKeeps ==
  ASSUME IInv, NEW r \in Requests, RequestStep(r)
  PROVE  Unknown' /\ Inserting' /\ PairKnown'
<1> USE SessionAssumption
<1>w. PICK w : w = requests[r].user
  OBVIOUS
<1>0. TypeOK /\ Working /\ Unknown /\ Inserting /\ PairKnown
  BY DEF IInv
<1>1. Idle.stage = "idle" /\ Idle.user = Nobody
  BY DEF Idle, Request
<1>2. ASSUME NEW u \in Users, StartAnonymous(r, u)
      PROVE  Unknown' /\ Inserting' /\ PairKnown'
  <2>1. /\ users[u].kind = "none" /\ Untouched(u)
        /\ \A q \in Requests : requests[q].user # u
    BY <1>0, <1>2 DEF StartAnonymous, Unknown
  <2>2. /\ requests'[r].stage = "insert" /\ requests'[r].user = u
        /\ requests[r].stage = "idle"
        /\ \A q \in Requests \ {r} : requests'[q] = requests[q]
        /\ sessions' = sessions /\ held' = held /\ cut' = cut
        /\ users'[u].kind # "none" /\ \A v \in Users \ {u} : users'[v] = users[v]
    BY <1>0, <1>2 DEF StartAnonymous, At, Request, TypeOK
  <2>3. Unknown'
    BY <1>0, <2>1, <2>2 DEF Unknown, Untouched
  <2>4. Inserting'
    BY <1>0, <2>1, <2>2 DEF Inserting, Untouched, Working
  <2>5. PairKnown'
    BY <1>0, <2>1, <2>2 DEF PairKnown, Reaches, OnItsWay, Untouched, NoSession
  <2> QED
    BY <2>3, <2>4, <2>5
<1>3. CASE InsertSession(r)
  <2>1. /\ requests[r].stage = "insert" /\ w \in Users
        /\ requests'[r].stage = "answer" /\ requests'[r].user = w /\ requests'[r].pair = issued + 1
        /\ \A q \in Requests \ {r} : requests'[q] = requests[q]
        /\ sessions'[w].pair = issued + 1 /\ issued + 1 # NoPair
        /\ \A u \in Users \ {w} : sessions'[u] = sessions[u]
        /\ users' = users /\ held' = held /\ cut' = cut
    BY <1>0, <1>w, <1>3 DEF InsertSession, At, TypeOK, RequestType, Working, NewSession, NoPair
  <2>2. Reaches(w)'
    BY <2>1 DEF Reaches, OnItsWay
  <2>3. Unknown' /\ Inserting' /\ \A u \in Users \ {w} : u \notin cut' => Reaches(u)'
    BY <2>1, <1>w, OthersKeep, ServedUser
  <2> QED
    BY <2>1, <2>2, <2>3, Reached
<1>4. CASE RefreshWrite(r)
  <2>1. /\ requests[r].stage = "rotate" /\ w \in Users
        /\ requests'[r].stage = "touch" /\ requests'[r].user = w /\ requests'[r].pair = issued + 1
        /\ \A q \in Requests \ {r} : requests'[q] = requests[q]
        /\ issued + 1 # NoPair
        /\ sessions[w].pair # NoPair => sessions'[w].pair = issued + 1
        /\ \A u \in Users \ {w} : sessions'[u] = sessions[u]
        /\ users' = users /\ held' = held /\ cut' = cut
    BY <1>0, <1>w, <1>4 DEF RefreshWrite, At, TypeOK, RequestType, Working, Rotate, Session, NoPair
  <2>2. ASSUME w \notin cut' PROVE Reaches(w)'
    <3>1. sessions[w].pair # NoPair
      BY <1>0, <1>w, <2>1, <2>2 DEF PairKnown, Reaches
    <3> QED
      BY <2>1, <3>1 DEF Reaches, OnItsWay
  <2>3. Unknown' /\ Inserting' /\ \A u \in Users \ {w} : u \notin cut' => Reaches(u)'
    BY <2>1, <1>w, OthersKeep, ServedUser
  <2> QED
    BY <2>1, <2>2, <2>3, Reached
<1>5. CASE RefreshTouch(r) \/ AuthTouch(r) \/ LinkCheck(r) \/ LinkWrite(r) \/ LogoutAccess(r)
  <2>1. /\ requests[r].stage \notin {"idle", "insert", "answer"} /\ w \in Users
        /\ requests'[r].user \in {w, Nobody} /\ requests'[r].stage # "insert"
        /\ \A q \in Requests \ {r} : requests'[q] = requests[q]
        /\ held' = held /\ cut' = cut
    BY <1>0, <1>1, <1>w, <1>5 DEF RefreshTouch, AuthTouch, LinkCheck, LinkWrite, LogoutAccess, At, Goes, Ends,
                       TypeOK, RequestType, Working
  <2>2. \/ requests[r].stage \notin {"touch", "answer"}
        \/ requests'[r].stage = "answer" /\ requests'[r].user = w /\ requests'[r].pair = requests[r].pair
    BY <1>0, <1>w, <1>5 DEF RefreshTouch, AuthTouch, LinkCheck, LinkWrite, LogoutAccess, At, Goes, TypeOK, RequestType
  <2>3. \A u \in Users : sessions'[u].pair = sessions[u].pair /\ (u # w => sessions'[u] = sessions[u])
    <3>1. \/ sessions' = sessions
          \/ sessions' = [sessions EXCEPT ![w] = [sessions[w] EXCEPT !.revoked = TRUE]]
      BY <1>w, <1>5 DEF RefreshTouch, AuthTouch, LinkCheck, LinkWrite, LogoutAccess, Revoke
    <3>2. sessions[w] \in Session /\ sessions \in [Users -> Session]
      BY <1>0, <2>1 DEF TypeOK
    <3>3. [sessions[w] EXCEPT !.revoked = TRUE].pair = sessions[w].pair
      BY <3>2 DEF Session
    <3> QED
      BY <3>1, <3>2, <3>3
  <2>4. \A u \in Users : users'[u].kind = "none" => users[u].kind = "none"
    <3>1. \/ users' = users
          \/ users' = [users EXCEPT ![w].lastSeenAt = requests[r].at]
          \/ users' = [users EXCEPT ![w] =
               [kind |-> "registered", sub |-> requests[r].sub, lastSeenAt |-> requests[r].at]]
      BY <1>w, <1>5 DEF RefreshTouch, AuthTouch, LinkCheck, LinkWrite, LogoutAccess
    <3>2. users \in [Users -> User] /\ users[w] \in User
      BY <1>0, <2>1 DEF TypeOK
    <3>3. [users[w] EXCEPT !.lastSeenAt = requests[r].at].kind = users[w].kind
      BY <3>2 DEF User
    <3>4. users[w].kind # "none"
      BY <1>0, <1>w, <2>1 DEF Unknown
    <3>5. users'[w].kind # "none"
      <4>1. CASE users' = users
        BY <3>4, <4>1
      <4>2. CASE users' = [users EXCEPT ![w].lastSeenAt = requests[r].at]
        BY <2>1, <3>2, <3>3, <3>4, <4>2
      <4>3. CASE users' = [users EXCEPT ![w] =
               [kind |-> "registered", sub |-> requests[r].sub, lastSeenAt |-> requests[r].at]]
        BY <2>1, <3>2, <4>3
      <4> QED
        BY <3>1, <4>1, <4>2, <4>3
    <3>6. \A u \in Users \ {w} : users'[u] = users[u]
      BY <3>1, <3>2
    <3> QED
      BY <3>5, <3>6
  <2>5. ASSUME w \notin cut' PROVE Reaches(w)'
    <3>1. Reaches(w) /\ sessions[w].pair # NoPair
      BY <1>0, <1>w, <2>1, <2>5 DEF PairKnown, Reaches
    <3>2. sessions'[w].pair = sessions[w].pair /\ held'[w] = held[w]
      BY <2>1, <2>3
    <3>3. \/ requests[r].stage \notin {"touch", "answer"}
          \/ /\ requests'[r].stage \in {"touch", "answer"}
             /\ requests'[r].user = requests[r].user /\ requests'[r].pair = requests[r].pair
      BY <1>w, <2>2
    <3> QED
      BY <2>1, <3>1, <3>2, <3>3, StillReaches
  <2>6. Unknown' /\ Inserting' /\ \A u \in Users \ {w} : u \notin cut' => Reaches(u)'
    BY <2>1, <2>3, <2>4, <1>w, OthersKeep, ServedUser
  <2> QED
    BY <2>1, <2>5, <2>6, Reached
<1>6. CASE Answer(r)
  <2>1. /\ requests[r].stage = "answer" /\ w \in Users /\ requests[r].pair # NoPair
        /\ requests'[r].user = Nobody /\ requests'[r].stage = "idle"
        /\ \A q \in Requests \ {r} : requests'[q] = requests[q]
        /\ held'[w] = held[w] \cup {requests[r].pair}
        /\ \A u \in Users \ {w} : held'[u] = held[u]
        /\ users' = users /\ sessions' = sessions /\ cut' = cut
    BY <1>0, <1>1, <1>w, <1>6 DEF Answer, At, Ends, TypeOK, Working
  <2>2. ASSUME w \notin cut' PROVE Reaches(w)'
    <3>1. sessions[w].pair # NoPair /\ (sessions[w].pair \in held[w] \/ OnItsWay(w, sessions[w].pair))
      BY <1>0, <1>w, <2>1, <2>2 DEF PairKnown, Reaches
    <3> QED
      BY <2>1, <3>1 DEF Reaches, OnItsWay
  <2>3. Unknown' /\ Inserting' /\ \A u \in Users \ {w} : u \notin cut' => Reaches(u)'
    BY <2>1, <1>w, OthersKeep, ServedUser
  <2> QED
    BY <2>1, <2>2, <2>3, Reached
<1>7. CASE Lose(r)
  <2>1. /\ requests[r].stage # "idle" /\ w \in Users
        /\ requests'[r].user = Nobody /\ requests'[r].stage = "idle"
        /\ \A q \in Requests \ {r} : requests'[q] = requests[q]
        /\ users' = users /\ sessions' = sessions /\ held' = held /\ cut \subseteq cut'
        /\ requests[r].stage \in {"touch", "answer"} => w \in cut'
    BY <1>0, <1>1, <1>w, <1>7 DEF Lose, At, Ends, TypeOK, Working
  <2>2. ASSUME w \notin cut' PROVE Reaches(w)'
    <3>1. Reaches(w) /\ requests[r].stage \notin {"touch", "answer"}
      BY <1>0, <2>1, <2>2 DEF PairKnown
    <3>2. CASE sessions[w].pair = NoPair
      BY <2>1, <3>1, <3>2, SessionAssumption DEF Reaches
    <3>3. CASE sessions[w].pair # NoPair
      BY <2>1, <3>1, <3>3, StillReaches
    <3> QED
      BY <3>2, <3>3
  <2>3. Unknown' /\ Inserting' /\ \A u \in Users \ {w} : u \notin cut' => Reaches(u)'
    BY <2>1, <1>w, OthersKeep, ServedUser
  <2> QED
    BY <2>1, <2>2, <2>3, Reached
<1>8. ASSUME NEW u \in Users, NEW pair \in Pairs,
             RefreshRead(r, u, pair) \/ AuthRead(r, u, pair) \/ LogoutRefresh(r, u, pair)
      PROVE  Unknown' /\ Inserting' /\ PairKnown'
  <2>1. /\ requests[r].stage = "idle" /\ held[u] # {}
        /\ requests'[r].user = u /\ requests'[r].stage \in {"rotate", "user", "access"}
        /\ \A q \in Requests \ {r} : requests'[q] = requests[q]
        /\ users' = users /\ held' = held /\ cut' = cut
    BY <1>0, <1>8 DEF RefreshRead, AuthRead, LogoutRefresh, At, Request, TypeOK
  <2>2. \A v \in Users : sessions'[v].pair = sessions[v].pair /\ (v # u => sessions'[v] = sessions[v])
    BY <1>0, <1>8 DEF RefreshRead, AuthRead, LogoutRefresh, Revoke, TypeOK, Session
  <2>3. ASSUME u \notin cut' PROVE Reaches(u)'
    <3>1. Reaches(u) /\ sessions[u].pair # NoPair
      BY <1>0, <2>1, <2>3 DEF PairKnown, Reaches
    <3> QED
      BY <2>1, <2>2, <3>1, StillReaches
  <2>4. Unknown' /\ Inserting' /\ \A v \in Users \ {u} : v \notin cut' => Reaches(v)'
    BY <2>1, <2>2, OthersKeep, HoldingUser
  <2> QED
    BY <2>3, <2>4, Reached
<1> QED
  BY <1>2, <1>3, <1>4, <1>5, <1>6, <1>7, <1>8 DEF RequestStep


\* The invariant is inductive.
LEMMA StepIInv == IInv /\ [Next]_vars => IInv'
<1> SUFFICES ASSUME IInv, [Next]_vars PROVE IInv'
  OBVIOUS
<1>0. TypeOK /\ Working /\ Unknown /\ Inserting /\ PairKnown
  BY DEF IInv
<1>1. TypeOK' /\ Working'
  BY <1>0, TypeStep
<1>2. ASSUME NEW r \in Requests, RequestStep(r) PROVE Unknown' /\ Inserting' /\ PairKnown'
  BY <1>2, RequestKeeps
<1>3. ASSUME NEW u \in Users, RemoveExpired(u) PROVE Unknown' /\ Inserting' /\ PairKnown'
  <2>1. /\ sessions[u].pair # NoPair /\ sessions'[u] = NoSession /\ u \in cut' /\ cut \subseteq cut'
        /\ \A v \in Users \ {u} : sessions'[v] = sessions[v]
        /\ users' = users /\ requests' = requests /\ held' = held
    BY <1>0, <1>3 DEF RemoveExpired, TypeOK
  <2>2. \A v \in Users : Untouched(v) => Untouched(v)'
    BY <2>1 DEF Untouched
  <2>3. Unknown'
    BY <1>0, <2>1, <2>2 DEF Unknown
  <2>4. Inserting'
    BY <1>0, <2>1, <2>2 DEF Inserting, Working, Untouched
  <2>5. PairKnown'
    BY <1>0, <2>1 DEF PairKnown, Reaches, OnItsWay
  <2> QED
    BY <2>3, <2>4, <2>5
<1>4. CASE Tick \/ UNCHANGED vars
  <2>1. users' = users /\ sessions' = sessions /\ requests' = requests /\ held' = held /\ cut' = cut
    BY <1>4 DEF Tick, vars
  <2> QED
    <3>1. Unknown'
      BY <1>0, <2>1 DEF Unknown, Untouched
    <3>2. Inserting'
      BY <1>0, <2>1 DEF Inserting, Untouched
    <3>3. PairKnown'
      BY <1>0, <2>1 DEF PairKnown, Reaches, OnItsWay
    <3> QED
      BY <1>1, <3>1, <3>2, <3>3 DEF IInv
<1> QED
  BY <1>1, <1>2, <1>3, <1>4 DEF IInv, Next, Refused

\* The invariant holds in every state.
LEMMA Invariant == Spec => []IInv
  BY InitIInv, StepIInv, PTL DEF Spec

-----------------------------------------------------------------------------
(* What follows.                                                           *)

\* Refreshing locks no client out: however refreshes of one session overlap and
\* in whatever order rotateSessionByRefreshToken stores them, the client holds
\* the stored pair or is about to be answered it.
THEOREM RefreshKeepsAccess == Spec => []KeepsAccess
<1>1. IInv => KeepsAccess
  <2> SUFFICES ASSUME IInv, NEW u \in Users, held[u] # {}, u \notin cut
               PROVE  sessions[u].pair \in held[u] \cup Coming(u)
    BY DEF KeepsAccess
  <2>1. Reaches(u)
    BY DEF IInv, PairKnown
  <2>2. sessions[u].pair \in held[u] \/ OnItsWay(u, sessions[u].pair)
    BY <2>1 DEF Reaches
  <2> QED
    BY <2>2 DEF OnItsWay, Coming
<1> QED
  BY Invariant, <1>1, PTL

\* A revoked session comes back by no step: revokeSessionsByTokens is final,
\* also for the rotations and the creations that are under way.
THEOREM RevocationIsFinal == Spec => RevokedStaysRevoked
<1>1. IInv /\ [Next]_vars =>
        [\A u \in Users : sessions[u].revoked => sessions'[u].revoked \/ sessions'[u] = NoSession]_vars
  <2> SUFFICES ASSUME IInv, [Next]_vars, NEW u \in Users, sessions[u].revoked
               PROVE  sessions'[u].revoked \/ sessions'[u] = NoSession
    OBVIOUS
  <2>0. sessions \in [Users -> Session] /\ requests \in [Requests -> RequestType]
    BY DEF IInv, TypeOK
  <2>1. ASSUME NEW r \in Requests, InsertSession(r) PROVE sessions'[u] = sessions[u]
    <3>1. Untouched(requests[r].user)
      BY <2>1 DEF InsertSession, At, IInv, Inserting
    <3>2. requests[r].user # u
      BY <3>1 DEF Untouched, NoSession
    <3> QED
      BY <2>0, <2>1, <3>2 DEF InsertSession
  <2>2. ASSUME NEW r \in Requests, RefreshWrite(r) PROVE sessions'[u].revoked
    <3>1. \/ sessions' = sessions
          \/ sessions' = [sessions EXCEPT ![requests[r].user] = Rotate(sessions[requests[r].user], issued + 1)]
      BY <2>2 DEF RefreshWrite
    <3>2. Rotate(sessions[u], issued + 1).revoked = sessions[u].revoked
      BY <2>0 DEF Rotate, Session
    <3> QED
      BY <2>0, <3>1, <3>2
  <2>3. ASSUME NEW v \in Users \cup {Nobody}, NEW pair, Revoke(v, pair) PROVE sessions'[u].revoked
    BY <2>0, <2>3 DEF Revoke, Session
  <2>4. ASSUME NEW r \in Requests, LogoutAccess(r) PROVE sessions'[u].revoked
    <3>1. requests[r].user \in Users \cup {Nobody}
      BY <2>0 DEF RequestType
    <3> QED
      BY <2>3, <2>4, <3>1 DEF LogoutAccess
  <2>5. ASSUME NEW r \in Requests, NEW v \in Users, NEW pair \in Pairs, LogoutRefresh(r, v, pair)
        PROVE  sessions'[u].revoked
    BY <2>3, <2>5 DEF LogoutRefresh
  <2>6. ASSUME NEW v \in Users, RemoveExpired(v) PROVE sessions'[u].revoked \/ sessions'[u] = NoSession
    BY <2>0, <2>6 DEF RemoveExpired
  <2>7. ASSUME NEW r \in Requests,
               RefreshTouch(r) \/ AuthTouch(r) \/ LinkCheck(r) \/ LinkWrite(r) \/ Answer(r) \/ Lose(r)
        PROVE  sessions' = sessions
    BY <2>7 DEF RefreshTouch, AuthTouch, LinkCheck, LinkWrite, Answer, Lose
  <2>8. ASSUME NEW r \in Requests, NEW v \in Users, StartAnonymous(r, v) PROVE sessions' = sessions
    BY <2>8 DEF StartAnonymous
  <2>9. ASSUME NEW r \in Requests, NEW v \in Users, NEW pair \in Pairs,
               RefreshRead(r, v, pair) \/ AuthRead(r, v, pair)
        PROVE  sessions' = sessions
    BY <2>9 DEF RefreshRead, AuthRead
  <2>10. CASE Tick \/ UNCHANGED vars
    BY <2>10 DEF Tick, vars
  <2> QED
    BY <2>1, <2>2, <2>4, <2>5, <2>6, <2>7, <2>8, <2>9, <2>10 DEF Next, RequestStep, Refused
<1> QED
  BY Invariant, <1>1, PTL DEF Spec, RevokedStaysRevoked

\* Two users never have one Apple identity, although linkAppleIdentityToUser
\* checks and writes in two commands: the index of the users refuses the second.
THEOREM AppleOwnerIsUnique == Spec => []OneAppleOwner
<1>1. Init => OneAppleOwner
  BY DEF Init, OneAppleOwner, NoUser
<1>2. IInv /\ OneAppleOwner /\ [Next]_vars => OneAppleOwner'
  <2> SUFFICES ASSUME IInv, OneAppleOwner, [Next]_vars PROVE OneAppleOwner'
    OBVIOUS
  <2>0. users \in [Users -> User]
    BY DEF IInv, TypeOK
  <2>1. ASSUME \A u \in Users : users'[u].sub = users[u].sub PROVE OneAppleOwner'
    BY <2>1 DEF OneAppleOwner
  <2>2. ASSUME NEW r \in Requests, NEW u \in Users, StartAnonymous(r, u) PROVE OneAppleOwner'
    <3>1. users'[u].sub = NoSub /\ \A v \in Users \ {u} : users'[v] = users[v]
      BY <2>0, <2>2 DEF StartAnonymous
    <3> QED
      BY <3>1 DEF OneAppleOwner
  <2>3. ASSUME NEW r \in Requests, RefreshTouch(r) \/ AuthTouch(r)
        PROVE  \A u \in Users : users'[u].sub = users[u].sub
    <3>1. \/ users' = users
          \/ users' = [users EXCEPT ![requests[r].user].lastSeenAt = requests[r].at]
      BY <2>3 DEF RefreshTouch, AuthTouch
    <3>2. \A u \in Users : [users[u] EXCEPT !.lastSeenAt = requests[r].at].sub = users[u].sub
      BY <2>0 DEF User
    <3> QED
      BY <2>0, <3>1, <3>2
  <2>4. ASSUME NEW r \in Requests, LinkWrite(r) PROVE OneAppleOwner'
    <3>1. CASE Linked(requests[r].user, requests[r].sub)
      BY <2>1, <2>4, <3>1 DEF LinkWrite
    <3>2. CASE ~Linked(requests[r].user, requests[r].sub)
      <4> DEFINE w == requests[r].user
      <4>1. /\ users'[w].sub = requests[r].sub \/ w \notin Users
            /\ \A v \in Users : v # w => users'[v] = users[v] /\ users[v].sub # requests[r].sub
        BY <2>0, <2>4, <3>2 DEF LinkWrite, Linked
      <4> QED
        BY <4>1 DEF OneAppleOwner
    <3> QED
      BY <3>1, <3>2
  <2>5. ASSUME NEW r \in Requests,
               \/ InsertSession(r) \/ RefreshWrite(r) \/ LinkCheck(r) \/ LogoutAccess(r)
               \/ Answer(r) \/ Lose(r)
        PROVE  users' = users
    BY <2>5 DEF InsertSession, RefreshWrite, LinkCheck, LogoutAccess, Answer, Lose
  <2>6. ASSUME NEW r \in Requests, NEW u \in Users, NEW pair \in Pairs,
               RefreshRead(r, u, pair) \/ AuthRead(r, u, pair) \/ LogoutRefresh(r, u, pair)
        PROVE  users' = users
    BY <2>6 DEF RefreshRead, AuthRead, LogoutRefresh
  <2>7. ASSUME NEW u \in Users, RemoveExpired(u) PROVE users' = users
    BY <2>7 DEF RemoveExpired
  <2>8. CASE Tick \/ UNCHANGED vars
    BY <2>1, <2>8 DEF Tick, vars
  <2> QED
    BY <2>1, <2>2, <2>3, <2>4, <2>5, <2>6, <2>7, <2>8 DEF Next, RequestStep, Refused
<1> QED
  BY Invariant, <1>1, <1>2, PTL DEF Spec

(***************************************************************************)
(* The limiter.  What was let through no later than the first start of the *)
(* limiter's window is a window's length before its end, and what was let  *)
(* through no later than the first of the one it followed two lengths.     *)
(***************************************************************************)
LimiterInv ==
  /\ limiter.count <= Len(starts)
  /\ limiter.count = 0 => limiter.resetAt = 0
  /\ limiter.resetAt <= now + StartWindow
  /\ \A i \in DOMAIN starts :
       /\ starts[i] <= now
       /\ i + limiter.count <= Len(starts) + 1 => starts[i] + StartWindow <= limiter.resetAt
       /\ i + limiter.count + StartMax <= Len(starts) + 1 =>
            starts[i] + 2 * StartWindow <= limiter.resetAt

\* A start is let through only when the one 2 * StartMax - 1 before it is a
\* window away.
LEMMA AdmittedApart ==
  ASSUME TypeOK, LimiterInv, Admit
  PROVE  \A i \in DOMAIN starts : i + 2 * StartMax <= Len(starts) + 2 => starts[i] + StartWindow <= now
<1>1. /\ limiter.count \in 0..StartMax /\ limiter.resetAt \in Nat /\ now \in Nat
      /\ StartMax \in Nat \ {0} /\ StartWindow \in Nat \ {0}
      /\ Len(starts) \in Nat
      /\ \A i \in DOMAIN starts : i \in Nat /\ starts[i] \in Nat
  BY SessionAssumption DEF TypeOK
<1> SUFFICES ASSUME NEW i \in DOMAIN starts, i + 2 * StartMax <= Len(starts) + 2
             PROVE  starts[i] + StartWindow <= now
  OBVIOUS
<1>2. CASE limiter.resetAt <= now
  <2>1. i + limiter.count <= Len(starts) + 1
    BY <1>1
  <2>2. starts[i] + StartWindow <= limiter.resetAt
    BY <2>1 DEF LimiterInv
  <2> QED BY <1>1, <1>2, <2>2
<1>3. CASE limiter.count < StartMax
  <2>1. i + limiter.count + StartMax <= Len(starts) + 1
    BY <1>1, <1>3
  <2>2. starts[i] + 2 * StartWindow <= limiter.resetAt
    BY <2>1 DEF LimiterInv
  <2>3. limiter.resetAt <= now + StartWindow
    BY DEF LimiterInv
  <2> QED BY <1>1, <2>2, <2>3
<1> QED BY <1>2, <1>3 DEF Admit

\* Letting a start through keeps the limiter's invariant.
LEMMA LimiterAdmits ==
  ASSUME TypeOK, LimiterInv, Admit, starts' = Append(starts, now), now' = now
  PROVE  LimiterInv'
<1>1. /\ limiter.count \in 0..StartMax /\ limiter.resetAt \in Nat /\ now \in Nat
      /\ StartMax \in Nat \ {0} /\ StartWindow \in Nat \ {0}
      /\ Len(starts) \in Nat /\ DOMAIN starts = 1..Len(starts)
      /\ \A i \in DOMAIN starts : starts[i] \in Nat
      /\ limiter = [count |-> limiter.count, resetAt |-> limiter.resetAt]
  BY SessionAssumption DEF TypeOK
<1>2. /\ Len(starts') = Len(starts) + 1 /\ DOMAIN starts' = 1..(Len(starts) + 1)
      /\ \A i \in 1..Len(starts) : starts'[i] = starts[i]
      /\ starts'[Len(starts) + 1] = now
  BY DEF TypeOK
<1>3. /\ limiter.count <= Len(starts)
      /\ limiter.count = 0 => limiter.resetAt = 0
      /\ limiter.resetAt <= now + StartWindow
      /\ \A i \in 1..Len(starts) :
           /\ starts[i] <= now
           /\ i + limiter.count <= Len(starts) + 1 => starts[i] + StartWindow <= limiter.resetAt
           /\ i + limiter.count + StartMax <= Len(starts) + 1 =>
                starts[i] + 2 * StartWindow <= limiter.resetAt
  BY <1>1 DEF LimiterInv
<1>4. CASE limiter.resetAt <= now
  <2>1. limiter'.count = 1 /\ limiter'.resetAt = now + StartWindow
    BY <1>4 DEF Admit
  <2>2. \A i \in 1..Len(starts) :
          i + 1 + StartMax <= Len(starts) + 2 => i + limiter.count <= Len(starts) + 1
    BY <1>1
  <2> QED
    BY <1>1, <1>2, <1>3, <1>4, <2>1, <2>2 DEF LimiterInv
<1>5. CASE ~(limiter.resetAt <= now)
  <2>1. limiter'.count = limiter.count + 1 /\ limiter'.resetAt = limiter.resetAt
    BY <1>1, <1>5 DEF Admit
  <2>2. limiter.count # 0
    BY <1>1, <1>3, <1>5
  <2> QED
    BY <1>1, <1>2, <1>3, <1>5, <2>1, <2>2 DEF LimiterInv
<1> QED BY <1>4, <1>5

\* No other step touches the limiter.
LEMMA LimiterStep == TypeOK /\ LimiterInv /\ [Next]_vars =>
  /\ LimiterInv'
  /\ \/ starts' = starts
     \/ Admit /\ starts' = Append(starts, now)
<1> SUFFICES ASSUME TypeOK, LimiterInv, [Next]_vars
             PROVE  LimiterInv' /\ (starts' = starts \/ (Admit /\ starts' = Append(starts, now)))
  OBVIOUS
<1>1. ASSUME NEW r \in Requests, NEW u \in Users, StartAnonymous(r, u)
      PROVE  LimiterInv' /\ Admit /\ starts' = Append(starts, now)
  <2>1. Admit /\ starts' = Append(starts, now) /\ now' = now
    BY <1>1 DEF StartAnonymous
  <2> QED BY <2>1, LimiterAdmits
<1>2. ASSUME NEW r \in Requests, RequestStep(r), ~\E u \in Users : StartAnonymous(r, u)
      PROVE  UNCHANGED <<now, limiter, starts>>
  <2>1. CASE \/ InsertSession(r) \/ RefreshWrite(r) \/ RefreshTouch(r)
             \/ AuthTouch(r) \/ LinkCheck(r) \/ LinkWrite(r)
             \/ LogoutAccess(r) \/ Answer(r) \/ Lose(r)
    BY <2>1 DEF InsertSession, RefreshWrite, RefreshTouch, AuthTouch, LinkCheck, LinkWrite,
                LogoutAccess, Answer, Lose
  <2>2. ASSUME NEW u \in Users, NEW pair \in Pairs,
               RefreshRead(r, u, pair) \/ AuthRead(r, u, pair) \/ LogoutRefresh(r, u, pair)
        PROVE  UNCHANGED <<now, limiter, starts>>
    BY <2>2 DEF RefreshRead, AuthRead, LogoutRefresh
  <2> QED BY <1>2, <2>1, <2>2 DEF RequestStep
<1>3. ASSUME NEW u \in Users, RemoveExpired(u) PROVE UNCHANGED <<now, limiter, starts>>
  BY <1>3 DEF RemoveExpired
<1>4. CASE Tick
  <2>1. now' = now + 1 /\ limiter' = limiter /\ starts' = starts
    BY <1>4 DEF Tick
  <2>2. now \in Nat /\ StartWindow \in Nat /\ limiter.resetAt \in Nat
    BY SessionAssumption DEF TypeOK
  <2>3. \A i \in DOMAIN starts : starts[i] \in Nat
    BY SessionAssumption DEF TypeOK
  <2>4. limiter'.resetAt <= now' + StartWindow /\ \A i \in DOMAIN starts : starts[i] <= now'
    BY <2>1, <2>2, <2>3 DEF LimiterInv
  <2>5. limiter'.count <= Len(starts') /\ (limiter'.count = 0 => limiter'.resetAt = 0)
    BY <2>1 DEF LimiterInv
  <2>6. \A i \in DOMAIN starts' :
          /\ i + limiter'.count <= Len(starts') + 1 => starts'[i] + StartWindow <= limiter'.resetAt
          /\ i + limiter'.count + StartMax <= Len(starts') + 1 =>
               starts'[i] + 2 * StartWindow <= limiter'.resetAt
    BY <2>1 DEF LimiterInv
  <2> QED BY <2>1, <2>4, <2>5, <2>6 DEF LimiterInv
<1>5. CASE UNCHANGED <<now, limiter, starts>>
  <2>1. now' = now /\ limiter' = limiter /\ starts' = starts
    BY <1>5
  <2> QED BY <2>1 DEF LimiterInv
<1>6. CASE UNCHANGED vars
  BY <1>5, <1>6 DEF vars
<1> QED
  BY <1>1, <1>2, <1>3, <1>4, <1>5, <1>6 DEF Next, Refused

\* The stretches of the starts so far stay bounded when one more is let through:
\* only the last 2 * StartMax - 1 starts, itself among them, can be in one with it.
LEMMA BoundedStep == TypeOK /\ LimiterInv /\ StartsBounded /\ [Next]_vars => StartsBounded'
<1> SUFFICES ASSUME TypeOK, LimiterInv, StartsBounded, [Next]_vars, NEW t \in 0..MaxTime
             PROVE  Cardinality({i \in DOMAIN starts' : starts'[i] >= t /\ starts'[i] < t + StartWindow})
                      < 2 * StartMax
  BY DEF StartsBounded
<1> DEFINE S == {i \in DOMAIN starts : starts[i] >= t /\ starts[i] < t + StartWindow}
           T == {i \in DOMAIN starts' : starts'[i] >= t /\ starts'[i] < t + StartWindow}
           n == Len(starts) + 1
<1>1. Cardinality(S) < 2 * StartMax
  BY DEF StartsBounded
<1>2. CASE starts' = starts
  BY <1>1, <1>2
<1>3. CASE Admit /\ starts' = Append(starts, now)
  <2>1. /\ Len(starts) \in Nat /\ DOMAIN starts = 1..Len(starts)
        /\ \A i \in DOMAIN starts : starts[i] \in Nat
        /\ t \in Nat /\ now \in Nat /\ StartWindow \in Nat /\ StartMax \in Nat
    BY SessionAssumption DEF TypeOK
  <2>2. /\ DOMAIN starts' = 1..n
        /\ \A i \in 1..Len(starts) : starts'[i] = starts[i]
        /\ starts'[n] = now
    BY <1>3, <2>1 DEF TypeOK
  <2>3. CASE ~(now >= t /\ now < t + StartWindow)
    <3>1. T = S
      BY <2>1, <2>2, <2>3
    <3> QED BY <1>1, <3>1
  <2>4. CASE now >= t /\ now < t + StartWindow
    <3>1. \A i \in DOMAIN starts : i + 2 * StartMax <= n + 1 => starts[i] + StartWindow <= now
      BY <1>3, AdmittedApart
    <3>2. T \subseteq (n - 2 * StartMax + 2)..n
      <4> SUFFICES ASSUME NEW i \in T PROVE i \in Int /\ n - 2 * StartMax + 2 <= i /\ i <= n
        BY <2>1
      <4>1. i \in 1..n
        BY <2>2
      <4>2. CASE i = n
        BY <2>1, <4>2, SessionAssumption
      <4>3. CASE i # n
        <5>1. i \in DOMAIN starts /\ starts[i] >= t
          BY <2>1, <2>2, <4>1, <4>3
        <5>2. ~(i + 2 * StartMax <= n + 1)
          BY <2>1, <2>4, <3>1, <5>1
        <5> QED BY <2>1, <4>1, <5>2
      <4> QED BY <4>2, <4>3
    <3>3. /\ IsFiniteSet((n - 2 * StartMax + 2)..n)
          /\ Cardinality((n - 2 * StartMax + 2)..n) = 2 * StartMax - 1
      <4>1. n - 2 * StartMax + 2 \in Int /\ n \in Int /\ ~(n - 2 * StartMax + 2 > n)
            /\ n - (n - 2 * StartMax + 2) + 1 = 2 * StartMax - 1
        BY <2>1, SessionAssumption
      <4> HIDE DEF n
      <4> QED BY <4>1, FS_Interval
    <3>4. Cardinality(T) <= Cardinality((n - 2 * StartMax + 2)..n)
      BY <3>2, <3>3, FS_Subset
    <3>5. Cardinality(T) \in Nat
      BY <3>2, <3>3, FS_Subset, FS_CardinalityType
    <3> QED BY <2>1, <3>3, <3>4, <3>5, SessionAssumption
  <2> QED BY <2>3, <2>4
<1> QED BY <1>2, <1>3, LimiterStep

\* createInMemoryAnonymousSessionRateLimiter lets fewer than twice its limit through
\* in any stretch of time as long as its window, whatever the times of the starts.
THEOREM LimiterBoundsStarts == Spec => []StartsBounded
<1>1. Init => LimiterInv /\ StartsBounded
  <2> SUFFICES ASSUME Init PROVE LimiterInv /\ StartsBounded
    OBVIOUS
  <2>1. starts = <<>> /\ limiter.count = 0 /\ limiter.resetAt = 0 /\ now = 0
    BY DEF Init
  <2>2. LimiterInv
    BY <2>1, SessionAssumption DEF LimiterInv
  <2>3. ASSUME NEW t \in 0..MaxTime
        PROVE  Cardinality({i \in DOMAIN starts : starts[i] >= t /\ starts[i] < t + StartWindow})
                 < 2 * StartMax
    <3>1. {i \in DOMAIN starts : starts[i] >= t /\ starts[i] < t + StartWindow} = {}
      BY <2>1
    <3> QED BY <3>1, FS_EmptySet, SessionAssumption
  <2> QED BY <2>2, <2>3 DEF StartsBounded
<1>2. TypeOK /\ LimiterInv /\ StartsBounded /\ [Next]_vars => LimiterInv' /\ StartsBounded'
  BY LimiterStep, BoundedStep
<1> QED BY TypeCorrect, <1>1, <1>2, PTL DEF Spec

=============================================================================
