------------------------------- MODULE Sessions -------------------------------
(***************************************************************************)
(* Users and sessions: services/auth.ts and the handlers of routes/auth.ts *)
(* with the limiter of anonymous starts.                                   *)
(*                                                                         *)
(* A user has one session, which holds the hashes of one pair of tokens;   *)
(* refreshing overwrites them.  Tokens are numbered by the order in which  *)
(* they are drawn, so a pair stands for its access and refresh token.      *)
(* Requests run concurrently, every command of one being a step, and an    *)
(* answer may not reach its client.                                        *)
(***************************************************************************)
EXTENDS Integers, Sequences, FiniteSets

CONSTANTS
  Users, Nobody, \* the users there may be
  Requests,      \* requests served at the same time
  AppleSubs, NoSub,
  AccessTtl,     \* ACCESS_TOKEN_TTL_SECONDS
  RefreshTtl,    \* REFRESH_TOKEN_TTL_SECONDS
  SeenInterval,  \* LAST_SEEN_TOUCH_INTERVAL_MS
  StartMax,      \* AUTH_ANONYMOUS_RATE_LIMIT_MAX
  StartWindow,   \* AUTH_ANONYMOUS_RATE_LIMIT_WINDOW_MS
  MaxTime,       \* bound: the clock stops here
  MaxPairs,      \* bound: token pairs drawn
  MaxFaults      \* bound: answers lost and requests that die

ASSUME SessionAssumption ==
  /\ NoSub \notin AppleSubs /\ Nobody \notin Users
  /\ AccessTtl \in Nat \ {0} /\ RefreshTtl \in Nat \ {0} /\ SeenInterval \in Nat
  /\ StartMax \in Nat \ {0} /\ StartWindow \in Nat \ {0}
  /\ MaxTime \in Nat /\ MaxPairs \in Nat /\ MaxFaults \in Nat

VARIABLES
  now,        \* the clock
  users,      \* users[u]: the document, kind "none" while there is none
  sessions,   \* sessions[u]: the session of the user
  requests,   \* requests[r]: the request in flight
  limiter,    \* the limiter's bucket of the address all starts come from
  issued,     \* pairs drawn
  faults,
  held,       \* held[u]: the pairs the user's client was answered
  cut,        \* history: the users an answer or an expired session was lost for
  starts      \* history: when the limiter let a start through

vars == <<now, users, sessions, requests, limiter, issued, faults, held, cut, starts>>

NoPair == 0
Pairs == 1..MaxPairs
NoUser == [kind |-> "none", sub |-> NoSub, lastSeenAt |-> 0]
NoSession == [pair |-> NoPair, accessExpiresAt |-> 0, refreshExpiresAt |-> 0, revoked |-> FALSE]

\* "insert": the user is stored, the session not yet; "rotate": the session and
\* the user were read; "touch": the session holds the new pair; "user": an access
\* token was found; "check", "link": Apple linking; "access": the second half of
\* a logout; "answer": the handler is about to return the pair.
Stages == {"idle", "insert", "rotate", "touch", "user", "check", "link", "access", "answer"}
Request(stage, u, at) == [stage |-> stage, user |-> u, at |-> at, pair |-> NoPair, sub |-> NoSub]
Idle == Request("idle", Nobody, 0)

Init ==
  /\ now = 0
  /\ users = [u \in Users |-> NoUser]
  /\ sessions = [u \in Users |-> NoSession]
  /\ requests = [r \in Requests |-> Idle]
  /\ limiter = [count |-> 0, resetAt |-> 0]
  /\ issued = 0
  /\ faults = 0
  /\ held = [u \in Users |-> {}]
  /\ cut = {}
  /\ starts = <<>>

At(r, stage) == requests[r].stage = stage
Goes(r, stage) == requests' = [requests EXCEPT ![r].stage = stage]
Ends(r) == requests' = [requests EXCEPT ![r] = Idle]

-----------------------------------------------------------------------------
(* POST /anonymous.                                                        *)

\* Mutant: the end of the window is stored in another unit than it is read in.
AdmitWrongUnit ==
  /\ limiter.resetAt <= now \/ limiter.count < StartMax
  /\ limiter' = IF limiter.resetAt <= now THEN [count |-> 1, resetAt |-> now]
                                          ELSE [limiter EXCEPT !.count = @ + 1]

\* createInMemoryAnonymousSessionRateLimiter: a window starts with its first
\* request; what it refuses changes nothing.
Admit ==
  /\ limiter.resetAt <= now \/ limiter.count < StartMax
  /\ limiter' = IF limiter.resetAt <= now THEN [count |-> 1, resetAt |-> now + StartWindow]
                                          ELSE [limiter EXCEPT !.count = @ + 1]

\* createAnonymousSession stores the user, then createSessionForUser its session.
StartAnonymous(r, u) ==
  /\ At(r, "idle")
  /\ users[u].kind = "none"
  /\ \A q \in Requests : ~(At(q, "insert") /\ requests[q].user = u)
  /\ Admit
  /\ starts' = Append(starts, now)
  /\ users' = [users EXCEPT ![u] = [kind |-> "anonymous", sub |-> NoSub, lastSeenAt |-> now]]
  /\ requests' = [requests EXCEPT ![r] = Request("insert", u, now)]
  /\ UNCHANGED <<now, sessions, issued, faults, held, cut>>

NewSession(pair) ==
  [pair |-> pair, accessExpiresAt |-> now + AccessTtl, refreshExpiresAt |-> now + RefreshTtl,
   revoked |-> FALSE]

InsertSession(r) ==
  /\ At(r, "insert")
  /\ issued < MaxPairs
  /\ issued' = issued + 1
  /\ sessions' = [sessions EXCEPT ![requests[r].user] = NewSession(issued + 1)]
  /\ requests' = [requests EXCEPT ![r].stage = "answer", ![r].pair = issued + 1]
  /\ UNCHANGED <<now, users, limiter, faults, held, cut, starts>>

-----------------------------------------------------------------------------
(* POST /refresh.                                                          *)

\* A session answers to a refresh token until it is revoked or expires.
Refreshes(u, pair) ==
  sessions[u].pair = pair /\ ~sessions[u].revoked /\ sessions[u].refreshExpiresAt > now

\* Mutant: the token is used up before the new one is stored.
RefreshReadConsumes(r, u, pair) ==
  /\ At(r, "idle")
  /\ pair \in held[u] /\ Refreshes(u, pair)
  /\ sessions' = [sessions EXCEPT ![u].pair = NoPair]
  /\ requests' = [requests EXCEPT ![r] = Request("rotate", u, now)]
  /\ UNCHANGED <<now, users, limiter, issued, faults, held, cut, starts>>

\* rotateSessionByRefreshToken up to the update; another token gets a 401.
RefreshRead(r, u, pair) ==
  /\ At(r, "idle")
  /\ pair \in held[u] /\ Refreshes(u, pair)
  /\ requests' = [requests EXCEPT ![r] = Request("rotate", u, now)]
  /\ UNCHANGED <<now, users, sessions, limiter, issued, faults, held, cut, starts>>

\* Mutant: the session is written whole, as a new one.
RotateRevives(session, pair) == NewSession(pair)

\* The fields updateOne sets on the session it finds.
Rotate(session, pair) ==
  [session EXCEPT !.pair = pair, !.accessExpiresAt = now + AccessTtl,
                  !.refreshExpiresAt = now + RefreshTtl]

\* The update by _id: a rotation that was read later may be stored earlier, and
\* nothing is stored when the session is gone.
RefreshWrite(r) ==
  /\ At(r, "rotate")
  /\ issued < MaxPairs
  /\ issued' = issued + 1
  /\ LET u == requests[r].user
     IN  sessions' = IF sessions[u].pair = NoPair THEN sessions
                     ELSE [sessions EXCEPT ![u] = Rotate(@, issued + 1)]
  /\ requests' = [requests EXCEPT ![r].stage = "touch", ![r].pair = issued + 1]
  /\ UNCHANGED <<now, users, limiter, faults, held, cut, starts>>

RefreshTouch(r) ==
  /\ At(r, "touch")
  /\ users' = [users EXCEPT ![requests[r].user].lastSeenAt = requests[r].at]
  /\ Goes(r, "answer")
  /\ UNCHANGED <<now, sessions, limiter, issued, faults, held, cut, starts>>

-----------------------------------------------------------------------------
(* Bearer authentication and POST /apple-link.                             *)

Authenticates(u, pair) ==
  sessions[u].pair = pair /\ ~sessions[u].revoked /\ sessions[u].accessExpiresAt > now

\* authenticateByAuthorizationHeader finds the session of the access token.
AuthRead(r, u, pair) ==
  /\ At(r, "idle")
  /\ pair \in held[u] /\ Authenticates(u, pair)
  /\ requests' = [requests EXCEPT ![r] = Request("user", u, now)]
  /\ UNCHANGED <<now, users, sessions, limiter, issued, faults, held, cut, starts>>

\* The user is read and touched when it was not seen for a while; the request
\* is GET /me or one like it, or goes on to link an Apple identity.
AuthTouch(r) ==
  /\ At(r, "user")
  /\ LET u == requests[r].user
     IN  users' = IF requests[r].at - users[u].lastSeenAt >= SeenInterval
                    THEN [users EXCEPT ![u].lastSeenAt = requests[r].at] ELSE users
  /\ \/ Ends(r)
     \/ \E sub \in AppleSubs :
          requests' = [requests EXCEPT ![r].stage = "check", ![r].sub = sub]
  /\ UNCHANGED <<now, sessions, limiter, issued, faults, held, cut, starts>>

\* Who else has the identity.
Linked(u, sub) == \E v \in Users \ {u} : users[v].sub = sub

\* linkAppleIdentityToUser looks for another owner: 409 when there is one.
LinkCheck(r) ==
  /\ At(r, "check")
  /\ IF Linked(requests[r].user, requests[r].sub) THEN Ends(r) ELSE Goes(r, "link")
  /\ UNCHANGED <<now, users, sessions, limiter, issued, faults, held, cut, starts>>

\* The update throws when the unique index on appleSub meets another owner.
LinkWrite(r) ==
  /\ At(r, "link")
  /\ users' = IF Linked(requests[r].user, requests[r].sub) THEN users
              ELSE [users EXCEPT ![requests[r].user] =
                [kind |-> "registered", sub |-> requests[r].sub, lastSeenAt |-> requests[r].at]]
  /\ Ends(r)
  /\ UNCHANGED <<now, sessions, limiter, issued, faults, held, cut, starts>>

-----------------------------------------------------------------------------
(* POST /logout.                                                           *)

\* updateOne by a token's hash: expiry is not looked at.
Revoke(u, pair) ==
  sessions' = IF sessions[u].pair = pair THEN [sessions EXCEPT ![u].revoked = TRUE] ELSE sessions

\* The refresh token first, when the body has one; the access header after it.
LogoutRefresh(r, u, pair) ==
  /\ At(r, "idle")
  /\ pair \in held[u]
  /\ \/ Revoke(u, pair)
     \/ UNCHANGED sessions
  /\ requests' = [requests EXCEPT ![r] = [Request("access", u, now) EXCEPT !.pair = pair]]
  /\ UNCHANGED <<now, users, limiter, issued, faults, held, cut, starts>>

LogoutAccess(r) ==
  /\ At(r, "access")
  /\ Revoke(requests[r].user, requests[r].pair)
  /\ Ends(r)
  /\ UNCHANGED <<now, users, limiter, issued, faults, held, cut, starts>>

-----------------------------------------------------------------------------
(* Answers, losses, expiry.                                                *)

Answer(r) ==
  /\ At(r, "answer")
  /\ held' = [held EXCEPT ![requests[r].user] = @ \cup {requests[r].pair}]
  /\ Ends(r)
  /\ UNCHANGED <<now, users, sessions, limiter, issued, faults, cut, starts>>

\* The process dies, a command throws, or the answer does not arrive: a pair
\* that was stored is never known to its client.
Lose(r) ==
  /\ ~At(r, "idle")
  /\ faults < MaxFaults
  /\ faults' = faults + 1
  /\ cut' = IF requests[r].stage \in {"touch", "answer"} THEN cut \cup {requests[r].user} ELSE cut
  /\ Ends(r)
  /\ UNCHANGED <<now, users, sessions, limiter, issued, held, starts>>

\* The TTL index removes a session after its refresh token expired.
RemoveExpired(u) ==
  /\ sessions[u].pair # NoPair
  /\ sessions[u].refreshExpiresAt <= now
  /\ sessions' = [sessions EXCEPT ![u] = NoSession]
  /\ cut' = cut \cup {u}
  /\ UNCHANGED <<now, users, requests, limiter, issued, faults, held, starts>>

\* A dead token gets a 401, a start the limiter refuses a 429: nothing changes.
Refused == UNCHANGED vars

Tick ==
  /\ now < MaxTime
  /\ now' = now + 1
  /\ UNCHANGED <<users, sessions, requests, limiter, issued, faults, held, cut, starts>>

RequestStep(r) ==
  \/ InsertSession(r) \/ RefreshWrite(r) \/ RefreshTouch(r)
  \/ AuthTouch(r) \/ LinkCheck(r) \/ LinkWrite(r)
  \/ LogoutAccess(r) \/ Answer(r) \/ Lose(r)
  \/ \E u \in Users :
       \/ StartAnonymous(r, u)
       \/ \E pair \in Pairs : RefreshRead(r, u, pair) \/ AuthRead(r, u, pair) \/ LogoutRefresh(r, u, pair)

Next ==
  \/ \E r \in Requests : RequestStep(r)
  \/ \E u \in Users : RemoveExpired(u)
  \/ Refused \/ Tick

Spec == Init /\ [][Next]_vars

-----------------------------------------------------------------------------
(* Properties.                                                             *)

User == [kind : {"none", "anonymous", "registered"}, sub : AppleSubs \cup {NoSub},
         lastSeenAt : 0..MaxTime]
Session == [pair : 0..issued, accessExpiresAt : Nat, refreshExpiresAt : Nat, revoked : BOOLEAN]
RequestType == [stage : Stages, user : Users \cup {Nobody}, at : 0..MaxTime, pair : 0..issued,
                sub : AppleSubs \cup {NoSub}]

\* Every variable stays in its set, and no pair is known before it is drawn.
TypeOK ==
  /\ now \in 0..MaxTime
  /\ users \in [Users -> User]
  /\ sessions \in [Users -> Session]
  /\ requests \in [Requests -> RequestType]
  /\ limiter \in [count : 0..StartMax, resetAt : Nat]
  /\ issued \in 0..MaxPairs
  /\ faults \in 0..MaxFaults
  /\ held \in [Users -> SUBSET (1..issued)]
  /\ cut \subseteq Users
  /\ starts \in Seq(0..MaxTime)

\* The pairs on their way to the client of a user.
Coming(u) == {requests[r].pair : r \in {r \in Requests :
                requests[r].user = u /\ requests[r].stage \in {"touch", "answer"}}}

\* A client is never locked out by refreshing: however its refreshes overlap, one
\* of the pairs it holds or is about to be answered is the one the session
\* answers to, unless an answer was lost or the session expired.
KeepsAccess ==
  \A u \in Users : held[u] # {} /\ u \notin cut => sessions[u].pair \in held[u] \cup Coming(u)

\* A session that was revoked stays revoked: a rotation that read it before the
\* logout does not bring it back.
RevokedStaysRevoked ==
  [][\A u \in Users : sessions[u].revoked => sessions'[u].revoked \/ sessions'[u] = NoSession]_vars

\* An Apple identity belongs to one user, whatever two links checked before they
\* wrote.
OneAppleOwner ==
  \A u, v \in Users : users[u].sub # NoSub /\ users[u].sub = users[v].sub => u = v

\* Any stretch of time as long as the limiter's window, wherever it begins, sees fewer
\* than twice the maximum of starts: it reaches into two windows at most, and misses the
\* first start of the earlier one, which its window began with.
StartsBounded ==
  \A t \in 0..MaxTime :
    Cardinality({i \in DOMAIN starts : starts[i] >= t /\ starts[i] < t + StartWindow}) < 2 * StartMax
=============================================================================
