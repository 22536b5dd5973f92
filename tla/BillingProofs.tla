---------------------------- MODULE BillingProofs ----------------------------
(***************************************************************************)
(* What holds of Billing for every number of handlers, versions and        *)
(* answers of RevenueCat: what is recorded and acknowledged was applied,   *)
(* and only overlapping syncs disagree or go back.                         *)
(***************************************************************************)
EXTENDS Billing, TLAPS

(***************************************************************************)
(* The inductive invariant.  A handler stores an answer at least as new as *)
(* its event; an event that is worked on was claimed; an event is left     *)
(* ignored only by a handler that is still at work or was lost.  A sync    *)
(* that met no other has the store to itself, so that what it fetched is   *)
(* at least as new as what is stored.                                      *)
(***************************************************************************)
ServingAt(h) ==
  /\ handlers[h].event <= version
  /\ handlers[h].stage \in {"claim", "settle", "failed"} => handlers[h].event # NoEvent
  /\ handlers[h].stage = "idle" => handlers[h].event = NoEvent
  /\ Syncing(h) => handlers[h].event \notin Strangers
  /\ handlers[h].stage \in {"snapshot", "tier"} =>
       handlers[h].event <= handlers[h].from /\ handlers[h].from <= version
  /\ handlers[h].stage = "settle" /\ handlers[h].event \notin Strangers => handlers[h].event <= applied

Serving == \A h \in Handlers : ServingAt(h)

Claimed == \A h \in Handlers :
  handlers[h].event # NoEvent /\ (handlers[h].stage # "claim" \/ handlers[h].known)
    => events[handlers[h].event] # "unseen"

\* A handler that works on an event it inserted: the event has not failed since, and no
\* other handler works on it or has found it failed.
InsertedAt(h) ==
  handlers[h].event # NoEvent /\ handlers[h].stage # "claim" /\ ~handlers[h].known =>
    /\ events[handlers[h].event] = "ignored"
    /\ \A g \in Handlers \ {h} : handlers[g].event = handlers[h].event =>
         handlers[g].stage = "claim" /\ ~handlers[g].known

Inserted == \A h \in Handlers : InsertedAt(h)

Ignored == \A e \in Events \ Strangers : events[e] = "ignored" => WorkedOn(e) \/ e \in lost

Lone == \A g, h \in Handlers : g # h /\ Syncing(g) /\ Syncing(h) => ~handlers[g].alone

LoneIsNewest == \A h \in Handlers : handlers[h].alone =>
  /\ handlers[h].stage \in {"snapshot", "tier"} => user.from <= handlers[h].from
  /\ handlers[h].stage = "tier" =>
       snapshot.from = handlers[h].from /\ snapshot.tier = Tier(Subscriber[handlers[h].from])

Outcomes == ProcessedIsApplied /\ AckedIsApplied

IInv == TypeOK /\ Serving /\ Claimed /\ Inserted /\ Ignored /\ OneHandlerPerEvent
               /\ Lone /\ LoneIsNewest /\ Outcomes

-----------------------------------------------------------------------------
(* Types.                                                                  *)

\* The projection of an answer.
LEMMA Projected ==
  ASSUME NEW v \in Versions
  PROVE  /\ Tier(Subscriber[v]) \in Tiers
         /\ Status(Subscriber[v]) \in {"none", "active", "billing_issue", "grace", "expired"}
BY DEF Tier, Status, Tiers

\* The type invariant holds at the start.
LEMMA TypeInit == Init => TypeOK
<1> SUFFICES ASSUME Init PROVE TypeOK
  OBVIOUS
<1>1. 0 \in Versions /\ 0 \in 0..0
  BY BillingAssumption DEF Versions
<1>2. Idle \in Handler
  BY <1>1 DEF Idle, Handler, Stages, NoEvent
<1> QED
  BY <1>1, <1>2, Projected, BillingAssumption DEF Init, TypeOK

\* What a step does to a handler keeps its type.
LEMMA HandlerEdits ==
  ASSUME NEW q \in Handler, NEW stage \in Stages
  PROVE  /\ Idle \in Handler
         /\ [q EXCEPT !.stage = stage] \in Handler
         /\ [q EXCEPT !.alone = FALSE] \in Handler
         /\ \A v \in Versions : [q EXCEPT !.stage = stage, !.from = v] \in Handler
         /\ \A e \in Events \cup {NoEvent}, b \in BOOLEAN :
              [q EXCEPT !.stage = stage, !.event = e, !.alone = b] \in Handler
<1>1. 0 \in Versions
  BY BillingAssumption DEF Versions
<1> QED
  BY <1>1 DEF Idle, Handler, Stages, NoEvent

\* The record a delivery begins with.
LEMMA DeliveryType ==
  ASSUME NEW e \in Events, NEW known \in BOOLEAN
  PROVE  [Idle EXCEPT !.stage = "claim", !.event = e, !.known = known] \in Handler
<1>1. 0 \in Versions
  BY BillingAssumption DEF Versions
<1> QED
  BY <1>1 DEF Idle, Handler, Stages, NoEvent

\* A sync that begins leaves every handler well typed.
LEMMA BeginSyncType ==
  ASSUME TypeOK, NEW h \in Handlers, NEW e \in Events \cup {NoEvent}, BeginSync(h, e)
  PROVE  handlers' \in [Handlers -> Handler]
<1>1. \A g \in Handlers : handlers[g] \in Handler
  BY DEF TypeOK
<1>2. \A g \in Handlers : handlers'[g] \in Handler
  BY <1>1, HandlerEdits DEF BeginSync, Stages
<1> QED
  BY <1>2 DEF BeginSync

\* Nor does a move that goes on to a stage or ends.
LEMMA MoveType ==
  ASSUME TypeOK, NEW h \in Handlers, Ends(h) \/ \E stage \in Stages : Goes(h, stage)
  PROVE  handlers' \in [Handlers -> Handler]
<1>1. handlers \in [Handlers -> Handler] /\ handlers[h] \in Handler
  BY DEF TypeOK
<1>2. CASE Ends(h)
  BY <1>1, <1>2, HandlerEdits DEF Ends, Stages
<1>3. ASSUME NEW stage \in Stages, Goes(h, stage) PROVE handlers' \in [Handlers -> Handler]
  <2>1. [handlers[h] EXCEPT !.stage = stage] \in Handler
    BY <1>1, HandlerEdits
  <2> QED
    BY <1>1, <1>3, <2>1 DEF Goes
<1> QED
  BY <1>2, <1>3

\* Every step keeps the types, once a handler's event is known to have happened.
LEMMA TypeStep == TypeOK /\ Serving /\ [Next]_vars => TypeOK'
<1> SUFFICES ASSUME TypeOK, Serving, [Next]_vars PROVE TypeOK'
  OBVIOUS
<1> USE BillingAssumption
<1>0. /\ \A h \in Handlers : handlers[h] \in Handler
      /\ version \in Nat /\ NoEvent = 0
  BY DEF TypeOK, Versions, NoEvent
<1>1. CASE Change
  BY <1>0, <1>1 DEF Change, TypeOK, Versions
<1>2. CASE Reads \/ UNCHANGED vars
  BY <1>2 DEF Reads, vars, TypeOK
<1>3. ASSUME NEW h \in Handlers, NEW e \in Events, Deliver(h, e) PROVE TypeOK'
  <2>1. e \in 1..version
    BY <1>0, <1>3 DEF Deliver, Duplicate, Webhook, Events
  <2>2. handlers' \in [Handlers -> Handler]
    <3>1. PICK known \in BOOLEAN : known = (events[e] = "failed")
      OBVIOUS
    <3>2. [Idle EXCEPT !.stage = "claim", !.event = e, !.known = known] \in Handler
      BY DeliveryType
    <3> QED
      BY <1>3, <3>1, <3>2 DEF Deliver, Duplicate, Webhook, TypeOK
  <2> QED
    BY <1>3, <2>1, <2>2 DEF Deliver, Duplicate, Webhook, TypeOK
<1>4. ASSUME NEW h \in Handlers, Claim(h) PROVE TypeOK'
  <2>1. handlers[h].event \in Events
    BY <1>0, <1>4 DEF Claim, At, Serving, ServingAt, Handler
  <2>2. handlers' \in [Handlers -> Handler]
    <3>1. CASE BeginSync(h, handlers[h].event)
      BY <2>1, <3>1, BeginSyncType
    <3>2. CASE Ends(h) \/ Goes(h, "settle")
      BY <3>2, MoveType DEF Stages
    <3> QED
      BY <1>4, <3>1, <3>2 DEF Claim, Proceed
  <2> QED
    BY <1>4, <2>1, <2>2 DEF Claim, TypeOK
<1>5. ASSUME NEW h \in Handlers, Sync(h) PROVE TypeOK'
  <2>1. handlers' \in [Handlers -> Handler]
    BY <1>5, BeginSyncType DEF Sync
  <2> QED
    BY <1>5, <2>1 DEF Sync, TypeOK
<1>6. ASSUME NEW h \in Handlers, Fetch(h) PROVE TypeOK'
  BY <1>0, <1>6, HandlerEdits DEF Fetch, TypeOK, Stages
<1>7. ASSUME NEW h \in Handlers, WriteSnapshot(h) \/ WriteTier(h) PROVE TypeOK'
  <2>1. handlers[h].from \in Versions /\ handlers[h].from \in 0..version
    BY <1>0, <1>7 DEF WriteSnapshot, WriteTier, At, Serving, ServingAt, Handler, Versions
  <2>2. handlers' \in [Handlers -> Handler]
    BY <1>7, MoveType DEF WriteSnapshot, WriteTier, Stages
  <2>3. Later(applied, handlers[h].from) \in 0..version
    BY <2>1 DEF Later, TypeOK
  <2>4. CASE WriteSnapshot(h)
    <3>1. snapshot' \in [from : 0..version, tier : Tiers,
                         status : {"none", "active", "billing_issue", "grace", "expired"}]
      BY <2>1, <2>4, Projected DEF WriteSnapshot
    <3> QED
      BY <2>2, <2>4, <3>1 DEF WriteSnapshot, TypeOK
  <2>5. CASE WriteTier(h)
    <3>1. user' \in [from : 0..version, tier : Tiers]
      BY <2>1, <2>5, Projected DEF WriteTier
    <3> QED
      BY <2>2, <2>3, <2>5, <3>1 DEF WriteTier, TypeOK
  <2> QED
    BY <1>7, <2>4, <2>5
<1>8. ASSUME NEW h \in Handlers, Settle(h) \/ RecordFailure(h) PROVE TypeOK'
  <2>1. handlers[h].event \in Events /\ handlers[h].event \in 1..version
    BY <1>0, <1>8 DEF Settle, RecordFailure, At, Serving, ServingAt, Handler, Events
  <2>2. handlers' \in [Handlers -> Handler]
    BY <1>8, MoveType DEF Settle, RecordFailure
  <2> QED
    BY <1>8, <2>1, <2>2 DEF Settle, RecordFailure, TypeOK
<1>9. ASSUME NEW h \in Handlers, Throws(h) \/ Dies(h) PROVE TypeOK'
  <2>1. handlers[h].event # NoEvent => handlers[h].event \in 1..version
    BY <1>0 DEF Serving, ServingAt, Handler, Events
  <2>2. handlers' \in [Handlers -> Handler]
    BY <1>9, MoveType DEF Throws, Dies, Stages
  <2>3. faults' \in 0..MaxFaults /\ lost' \subseteq 1..version
    <3>1. faults' \in 0..MaxFaults
      BY <1>9 DEF Throws, Dies, TypeOK
    <3>2. lost' = lost \/ (handlers[h].event # NoEvent /\ lost' = lost \cup {handlers[h].event})
      BY <1>9 DEF Throws, Dies
    <3> QED
      BY <2>1, <3>1, <3>2 DEF TypeOK
  <2> QED
    BY <1>9, <2>2, <2>3 DEF Throws, Dies, TypeOK
<1> QED
  BY <1>1, <1>2, <1>3, <1>4, <1>5, <1>6, <1>7, <1>8, <1>9 DEF Next, HandlerStep

-----------------------------------------------------------------------------
(* The invariant.                                                          *)

\* At the start nothing has happened.
LEMMA InitIInv == Init => IInv
<1> SUFFICES ASSUME Init PROVE IInv
  OBVIOUS
<1>1. TypeOK
  BY TypeInit
<1>2. \A h \in Handlers : handlers[h] = Idle
  BY DEF Init
<1>3. Serving /\ Claimed /\ Inserted /\ OneHandlerPerEvent /\ Lone /\ LoneIsNewest
  <2>1. Serving
    BY <1>2, BillingAssumption DEF Init, Serving, ServingAt, Syncing, Idle, NoEvent
  <2>2. Claimed /\ Inserted /\ OneHandlerPerEvent
    BY <1>2 DEF Init, Claimed, Inserted, InsertedAt, OneHandlerPerEvent, Idle, At, NoEvent
  <2>3. Lone /\ LoneIsNewest
    BY <1>2 DEF Lone, LoneIsNewest, Syncing, Idle
  <2> QED
    BY <2>1, <2>2, <2>3
<1>4. Ignored /\ Outcomes
  BY DEF Init, Ignored, Outcomes, ProcessedIsApplied, AckedIsApplied
<1> QED
  BY <1>1, <1>3, <1>4 DEF IInv

\* What a handler leaves of the others: they stand where they stood, and are not
\* alone any more when it begins to sync.
Beside(h) == \A g \in Handlers \ {h} :
  /\ handlers'[g].stage = handlers[g].stage /\ handlers'[g].event = handlers[g].event
  /\ handlers'[g].known = handlers[g].known /\ handlers'[g].from = handlers[g].from
  /\ handlers'[g].alone => handlers[g].alone

\* A handler that moves on or ends leaves the others as they are.
LEMMA MovesBeside ==
  ASSUME TypeOK, NEW h \in Handlers, NEW q, handlers' = [handlers EXCEPT ![h] = q]
  PROVE  Beside(h) /\ handlers'[h] = q
BY DEF TypeOK, Beside

\* What the other handlers are known by stays true while versions, applied
\* answers and claimed events only grow.
LEMMA ServingKeeps ==
  ASSUME IInv, NEW h \in Handlers, Beside(h), ServingAt(h)',
         handlers'[h].event # NoEvent /\ (handlers'[h].stage # "claim" \/ handlers'[h].known)
           => events'[handlers'[h].event] # "unseen",
         version \in Nat, version' \in Nat, version <= version',
         applied \in Nat, applied' \in Nat, applied <= applied',
         \A e \in Events : events[e] # "unseen" => events'[e] # "unseen"
  PROVE  Serving' /\ Claimed'
<1>1. ASSUME NEW g \in Handlers \ {h} PROVE ServingAt(g)'
  <2>1. /\ handlers'[g].stage = handlers[g].stage /\ handlers'[g].event = handlers[g].event
        /\ handlers'[g].from = handlers[g].from
    BY DEF Beside
  <2>2. ServingAt(g) /\ handlers[g].event \in Int /\ handlers[g].from \in Int
    BY BillingAssumption DEF IInv, Serving, TypeOK, Handler, Events, NoEvent, Versions
  <2> QED
    BY <2>1, <2>2 DEF ServingAt, Syncing
<1>2. ASSUME NEW g \in Handlers \ {h}, handlers'[g].event # NoEvent,
             handlers'[g].stage # "claim" \/ handlers'[g].known
      PROVE  events'[handlers'[g].event] # "unseen"
  <2>1. /\ handlers'[g].event = handlers[g].event /\ (handlers[g].stage # "claim" \/ handlers[g].known)
        /\ handlers[g].event \in Events
    BY <1>2 DEF Beside, IInv, TypeOK, Handler
  <2> QED
    BY <1>2, <2>1 DEF IInv, Claimed
<1> QED
  BY <1>1, <1>2 DEF Serving, Claimed


\* A handler that goes on with its event, or leaves it, meets no other anew.
LEMMA GoingOnKeeps ==
  ASSUME IInv, NEW h \in Handlers, Beside(h),
         handlers'[h].event # NoEvent /\ handlers'[h].stage # "claim"
           => /\ handlers'[h].event = handlers[h].event /\ handlers[h].stage # "claim"
              /\ handlers'[h].known = handlers[h].known,
         Syncing(h)' => Syncing(h) /\ (handlers'[h].alone => handlers[h].alone)
  PROVE  OneHandlerPerEvent' /\ Lone'
<1>1. OneHandlerPerEvent'
  BY DEF IInv, OneHandlerPerEvent, Beside, At
<1>2. \A g \in Handlers \ {h} : Syncing(g)' => Syncing(g)
  BY DEF Beside, Syncing
<1>3. Lone'
  BY <1>2 DEF IInv, Lone, Beside
<1> QED
  BY <1>1, <1>3

\* A handler that goes on with its event, or leaves it with an outcome, disturbs no other
\* that inserted an event.
LEMMA InsertedKeeps ==
  ASSUME IInv, NEW h \in Handlers, Beside(h),
         handlers'[h].event # NoEvent =>
           /\ handlers'[h].event = handlers[h].event /\ handlers'[h].known = handlers[h].known
           /\ handlers'[h].stage # "claim" /\ handlers[h].stage # "claim",
         \A e \in Events : events'[e] = events[e] \/
           (handlers[h].event = e /\ handlers[h].stage # "claim" /\ handlers'[h].event = NoEvent)
  PROVE  Inserted'
<1> SUFFICES ASSUME NEW k \in Handlers, handlers'[k].event # NoEvent, handlers'[k].stage # "claim",
                    ~handlers'[k].known
             PROVE  /\ events'[handlers'[k].event] = "ignored"
                    /\ \A g \in Handlers \ {k} : handlers'[g].event = handlers'[k].event =>
                         handlers'[g].stage = "claim" /\ ~handlers'[g].known
  BY DEF Inserted, InsertedAt
<1>1. /\ handlers'[k].event = handlers[k].event /\ handlers'[k].event \in Events
      /\ handlers[k].stage # "claim" /\ ~handlers[k].known
  BY DEF Beside, IInv, TypeOK, Handler
<1>2. /\ events[handlers[k].event] = "ignored"
      /\ \A g \in Handlers \ {k} : handlers[g].event = handlers[k].event =>
           handlers[g].stage = "claim" /\ ~handlers[g].known
  BY <1>1 DEF IInv, Inserted, InsertedAt
<1>3. events'[handlers'[k].event] = "ignored"
  BY <1>1, <1>2
<1>4. ASSUME NEW g \in Handlers \ {k}, handlers'[g].event = handlers'[k].event
      PROVE  handlers'[g].stage = "claim" /\ ~handlers'[g].known
  BY <1>1, <1>2, <1>4 DEF Beside
<1> QED BY <1>3, <1>4

\* An event that is ignored is still worked on by whoever else worked on it.
LEMMA OthersWork ==
  ASSUME NEW h \in Handlers, Beside(h), NEW e, WorkedOn(e)
  PROVE  WorkedOn(e)' \/ (handlers[h].event = e /\ handlers[h].stage # "claim")
BY DEF WorkedOn, Beside

\* A handler is delivered an event, or answers it as a duplicate.
LEMMA DeliverKeeps ==
  ASSUME IInv, NEW h \in Handlers, NEW e \in Events, Deliver(h, e)
  PROVE  Serving' /\ Claimed' /\ Inserted' /\ Ignored' /\ OneHandlerPerEvent'
           /\ Lone' /\ LoneIsNewest' /\ Outcomes'
<1> USE BillingAssumption
<1>0. TypeOK /\ Serving /\ Claimed /\ Inserted /\ Ignored /\ OneHandlerPerEvent /\ Lone
        /\ LoneIsNewest /\ Outcomes /\ version \in Nat /\ applied \in Nat
  BY DEF IInv, TypeOK, Versions
<1>1. CASE Duplicate(h, e)
  <2>1. handlers' = handlers /\ events' = events /\ faults' = faults /\ version' = version
          /\ applied' = applied /\ user' = user /\ snapshot' = snapshot /\ lost \subseteq lost'
          /\ acked' = acked \cup {e} /\ events[e] \in {"ignored", "processed"}
          /\ (WorkedOn(e) => e \in lost')
    BY <1>0, <1>1 DEF Duplicate, TypeOK
  <2>2. Serving' /\ Claimed' /\ Inserted' /\ OneHandlerPerEvent' /\ Lone' /\ LoneIsNewest'
    <3>1. Serving' /\ Claimed'
      BY <1>0, <2>1 DEF Serving, ServingAt, Claimed, Syncing
    <3>2. Inserted' /\ OneHandlerPerEvent'
      BY <1>0, <2>1 DEF Inserted, InsertedAt, OneHandlerPerEvent, At
    <3>3. Lone' /\ LoneIsNewest'
      BY <1>0, <2>1 DEF Lone, LoneIsNewest, Syncing
    <3> QED
      BY <3>1, <3>2, <3>3
  <2>3. Ignored'
    <3>1. \A f : WorkedOn(f)' <=> WorkedOn(f)
      BY <2>1 DEF WorkedOn
    <3> QED
      BY <1>0, <2>1, <3>1 DEF Ignored
  <2>4. Outcomes'
    <3>1. ProcessedIsApplied'
      BY <1>0, <2>1 DEF Outcomes, ProcessedIsApplied
    <3>2. e \notin Strangers => applied >= e \/ e \in lost'
      BY <1>0, <2>1 DEF Outcomes, ProcessedIsApplied, Ignored
    <3>3. AckedIsApplied'
      BY <1>0, <2>1, <3>2 DEF Outcomes, AckedIsApplied
    <3> QED
      BY <3>1, <3>3 DEF Outcomes
  <2> QED
    BY <2>2, <2>3, <2>4
<1>2. CASE Webhook(h, e)
  <2>1. /\ handlers[h].stage = "idle" /\ handlers[h].event = NoEvent
        /\ e <= version /\ e # NoEvent
        /\ events' = events /\ faults' = faults /\ version' = version /\ acked' = acked
        /\ applied' = applied /\ user' = user /\ snapshot' = snapshot /\ lost' = lost
    BY <1>0, <1>2 DEF Webhook, At, Serving, ServingAt, Events, NoEvent
  <2>2. Beside(h) /\ handlers'[h] = [Idle EXCEPT !.stage = "claim", !.event = e,
                                                !.known = events[e] = "failed"]
    BY <1>0, <1>2, MovesBeside DEF Webhook
  <2>3. handlers'[h].stage = "claim" /\ handlers'[h].event = e
          /\ (handlers'[h].known => events[e] = "failed")
    BY <2>2 DEF Idle
  <2>4. Serving' /\ Claimed'
    <3>1. ServingAt(h)'
      BY <2>1, <2>3 DEF ServingAt, Syncing
    <3>2. version <= version' /\ applied <= applied' /\ version' \in Nat /\ applied' \in Nat
      BY <1>0, <2>1
    <3> QED
      BY <1>0, <2>1, <2>2, <2>3, <3>1, <3>2, ServingKeeps
  <2>5. OneHandlerPerEvent' /\ Lone'
    BY <2>1, <2>2, <2>3, GoingOnKeeps DEF Syncing
  <2>6. Inserted'
    <3> SUFFICES ASSUME NEW k \in Handlers, handlers'[k].event # NoEvent, handlers'[k].stage # "claim",
                        ~handlers'[k].known
                 PROVE  /\ events'[handlers'[k].event] = "ignored"
                        /\ \A g \in Handlers \ {k} : handlers'[g].event = handlers'[k].event =>
                             handlers'[g].stage = "claim" /\ ~handlers'[g].known
      BY DEF Inserted, InsertedAt
    <3>1. /\ k # h /\ handlers'[k].event = handlers[k].event
          /\ handlers[k].stage # "claim" /\ ~handlers[k].known
      BY <2>2, <2>3 DEF Beside
    <3>2. /\ events[handlers[k].event] = "ignored"
          /\ \A g \in Handlers \ {k} : handlers[g].event = handlers[k].event =>
               handlers[g].stage = "claim" /\ ~handlers[g].known
      BY <1>0, <3>1 DEF Inserted, InsertedAt
    <3>3. handlers[k].event # e
      BY <1>2, <3>2 DEF Webhook
    <3> QED BY <2>1, <2>2, <2>3, <3>1, <3>2, <3>3 DEF Beside
  <2>7. Ignored'
    BY <1>0, <2>1, <2>2, OthersWork DEF Ignored, NoEvent, Events
  <2>8. LoneIsNewest'
    BY <1>0, <2>1, <2>2, <2>3 DEF LoneIsNewest, Beside
  <2>9. Outcomes'
    BY <1>0, <2>1 DEF Outcomes, ProcessedIsApplied, AckedIsApplied
  <2> QED
    BY <2>4, <2>5, <2>6, <2>7, <2>8, <2>9
<1> QED
  BY <1>1, <1>2 DEF Deliver

\* A sync that begins meets those that are under way.
LEMMA BeginSyncKeeps ==
  ASSUME IInv, NEW h \in Handlers, ~Syncing(h), NEW e \in Events \cup {NoEvent}, BeginSync(h, e)
  PROVE  /\ Beside(h)
         /\ handlers'[h].stage = "fetch" /\ handlers'[h].event = e
         /\ handlers'[h].known = handlers[h].known
         /\ Lone'
<1>1. \A g \in Handlers : handlers[g] \in Handler
  BY DEF IInv, TypeOK
<1>2. handlers'[h].stage = "fetch" /\ handlers'[h].event = e /\ handlers'[h].known = handlers[h].known
        /\ handlers'[h].alone = ({g \in Handlers \ {h} : Syncing(g)} = {})
  BY <1>1 DEF BeginSync, Handler
<1>3. \A g \in Handlers \ {h} :
        handlers'[g] = IF Syncing(g) THEN [handlers[g] EXCEPT !.alone = FALSE] ELSE handlers[g]
  BY DEF BeginSync
<1>4. Beside(h)
  BY <1>1, <1>3 DEF Beside, Handler
<1>5. \A g \in Handlers \ {h} : Syncing(g)' => Syncing(g) /\ ~handlers'[g].alone
  BY <1>1, <1>3, <1>4 DEF Beside, Syncing, Handler
<1>6. Lone'
  <2> SUFFICES ASSUME NEW f \in Handlers, NEW g \in Handlers, f # g, Syncing(f)', Syncing(g)'
               PROVE  ~handlers'[f].alone
    BY DEF Lone
  <2>1. CASE f = h
    BY <1>2, <1>5, <2>1
  <2>2. CASE f # h
    BY <1>5, <2>2
  <2> QED
    BY <2>1, <2>2
<1> QED
  BY <1>2, <1>4, <1>6


\* A claim inserts an event nobody works on, unless a delivery of it failed.
LEMMA ClaimKeeps ==
  ASSUME IInv, NEW h \in Handlers, Claim(h)
  PROVE  Serving' /\ Claimed' /\ Inserted' /\ Ignored' /\ OneHandlerPerEvent'
           /\ Lone' /\ LoneIsNewest' /\ Outcomes'
<1> USE BillingAssumption
<1>0. TypeOK /\ Serving /\ Claimed /\ Inserted /\ Ignored /\ OneHandlerPerEvent /\ Lone
        /\ LoneIsNewest /\ Outcomes /\ version \in Nat /\ applied \in Nat
        /\ handlers[h] \in Handler /\ ServingAt(h)
  BY DEF IInv, TypeOK, Versions, Serving
<1>w. PICK e : e = handlers[h].event
  OBVIOUS
<1>1. /\ handlers[h].stage = "claim" /\ e \in Events /\ e # NoEvent /\ e <= version
      /\ faults' = faults /\ version' = version /\ acked' = acked
      /\ applied' = applied /\ user' = user /\ snapshot' = snapshot /\ lost' = lost
  BY <1>0, <1>w DEF Claim, At, ServingAt, Handler
<1>2. version <= version' /\ applied <= applied' /\ version' \in Nat /\ applied' \in Nat
  BY <1>0, <1>1
<1>3. ~Syncing(h)
  BY <1>1 DEF Syncing
<1>4. CASE ~handlers[h].known /\ events[e] # "unseen"
  <2>1. Ends(h) /\ events' = events
    BY <1>w, <1>4 DEF Claim
  <2>2. Beside(h) /\ handlers'[h].stage = "idle" /\ handlers'[h].event = NoEvent /\ ~handlers'[h].known
    <3>1. handlers' = [handlers EXCEPT ![h] = Idle]
      BY <2>1 DEF Ends
    <3>2. Beside(h) /\ handlers'[h] = Idle
      BY <1>0, <3>1, MovesBeside
    <3> QED
      BY <3>2 DEF Idle
  <2>3. Serving' /\ Claimed'
    <3>1. ServingAt(h)'
      BY <1>1, <1>2, <2>2 DEF ServingAt, Syncing, NoEvent
    <3> QED
      BY <1>0, <1>2, <2>1, <2>2, <3>1, ServingKeeps
  <2>4. OneHandlerPerEvent' /\ Lone'
    BY <1>1, <2>2, GoingOnKeeps DEF Syncing
  <2>5. Inserted'
    BY <1>1, <2>1, <2>2, InsertedKeeps
  <2>6. Ignored'
    BY <1>0, <1>1, <2>1, <2>2, OthersWork DEF Ignored
  <2>7. LoneIsNewest'
    BY <1>0, <1>1, <2>2 DEF LoneIsNewest, Beside
  <2>8. Outcomes'
    BY <1>0, <1>1, <2>1 DEF Outcomes, ProcessedIsApplied, AckedIsApplied
  <2> QED
    BY <2>3, <2>4, <2>5, <2>6, <2>7, <2>8
<1>5. CASE handlers[h].known \/ events[e] = "unseen"
  <2>1. events' = [events EXCEPT ![e] = "ignored"] /\ Proceed(h, e)
    BY <1>w, <1>5 DEF Claim
  <2>2. /\ Beside(h) /\ Lone' /\ handlers'[h].event = e
        /\ handlers'[h].stage \in {"settle", "fetch"}
        /\ handlers'[h].stage = "settle" <=> e \in Strangers
        /\ handlers'[h].known = handlers[h].known
    <3>1. CASE e \in Strangers
      <4>1. handlers' = [handlers EXCEPT ![h] = [handlers[h] EXCEPT !.stage = "settle"]]
        BY <1>0, <2>1, <3>1 DEF Proceed, Goes
      <4>2. Beside(h) /\ handlers'[h] = [handlers[h] EXCEPT !.stage = "settle"]
        BY <1>0, <4>1, MovesBeside
      <4>3. handlers'[h].stage = "settle" /\ handlers'[h].event = e /\ handlers'[h].known = handlers[h].known
        BY <1>0, <1>w, <4>2 DEF Handler
      <4>4. Lone'
        <5>1. \A g \in Handlers : Syncing(g)' => g # h /\ Syncing(g)
          BY <4>2, <4>3 DEF Beside, Syncing
        <5> QED
          BY <1>0, <4>2, <5>1 DEF Lone, Beside
      <4> QED
        BY <3>1, <4>2, <4>3, <4>4
    <3>2. CASE e \notin Strangers
      BY <1>1, <1>3, <2>1, <3>2, BeginSyncKeeps DEF Proceed
    <3> QED
      BY <3>1, <3>2
  <2>3. events'[e] = "ignored" /\ \A f \in Events \ {e} : events'[f] = events[f]
    BY <1>0, <1>1, <2>1 DEF TypeOK
  <2>4. Serving' /\ Claimed'
    <3>1. ServingAt(h)'
      BY <1>1, <2>2 DEF ServingAt, Syncing
    <3>2. \A f \in Events : events[f] # "unseen" => events'[f] # "unseen"
      BY <2>3
    <3> QED
      BY <1>0, <1>2, <2>2, <2>3, <3>1, <3>2, ServingKeeps
  <2>5. OneHandlerPerEvent'
    <3>1. ASSUME NEW g \in Handlers \ {h}, handlers[g].event = e, handlers[g].stage # "claim"
          PROVE  handlers[g].known /\ handlers[h].known
      <4>1. handlers[h].known
        BY <1>0, <1>1, <1>5, <3>1 DEF Claimed
      <4>2. handlers[g].known
        BY <1>0, <1>1, <1>w, <3>1, <4>1 DEF Inserted, InsertedAt
      <4> QED BY <4>1, <4>2
    <3> QED
      BY <1>0, <1>1, <2>2, <3>1 DEF OneHandlerPerEvent, Beside, At
  <2>6. Inserted'
    <3> SUFFICES ASSUME NEW k \in Handlers, handlers'[k].event # NoEvent, handlers'[k].stage # "claim",
                        ~handlers'[k].known
                 PROVE  /\ events'[handlers'[k].event] = "ignored"
                        /\ \A g \in Handlers \ {k} : handlers'[g].event = handlers'[k].event =>
                             handlers'[g].stage = "claim" /\ ~handlers'[g].known
      BY DEF Inserted, InsertedAt
    <3>1. CASE k = h
      <4>1. events[e] = "unseen"
        BY <1>5, <2>2, <3>1
      <4>2. \A g \in Handlers \ {h} : handlers[g].event = e => handlers[g].stage = "claim" /\ ~handlers[g].known
        BY <1>0, <1>1, <4>1 DEF Claimed
      <4> QED BY <2>2, <2>3, <3>1, <4>2 DEF Beside
    <3>2. CASE k # h
      <4>1. /\ handlers'[k].event = handlers[k].event
            /\ handlers[k].stage # "claim" /\ ~handlers[k].known
        BY <2>2, <3>2 DEF Beside
      <4>2. /\ events[handlers[k].event] = "ignored"
            /\ \A g \in Handlers \ {k} : handlers[g].event = handlers[k].event =>
                 handlers[g].stage = "claim" /\ ~handlers[g].known
        BY <1>0, <4>1 DEF Inserted, InsertedAt
      <4>3. handlers[k].event # e
        BY <1>5, <1>w, <3>2, <4>2
      <4>4. handlers[k].event \in Events \cup {NoEvent}
        BY <1>0 DEF TypeOK, Handler
      <4>5. events'[handlers'[k].event] = "ignored"
        BY <2>3, <4>1, <4>2, <4>3, <4>4
      <4> QED BY <2>2, <4>1, <4>2, <4>3, <4>5 DEF Beside
    <3> QED BY <3>1, <3>2
  <2>7. Ignored'
    <3>1. WorkedOn(e)'
      BY <2>2 DEF WorkedOn
    <3>2. \A f : WorkedOn(f) => WorkedOn(f)'
      BY <1>1, <2>2, OthersWork
    <3> QED
      BY <1>0, <1>1, <2>3, <3>1, <3>2 DEF Ignored
  <2>8. LoneIsNewest'
    BY <1>0, <1>1, <2>2 DEF LoneIsNewest, Beside
  <2>9. Outcomes'
    BY <1>0, <1>1, <2>3 DEF Outcomes, ProcessedIsApplied, AckedIsApplied
  <2> QED
    BY <2>2, <2>4, <2>5, <2>6, <2>7, <2>8, <2>9
<1> QED
  BY <1>4, <1>5, <1>w DEF Claim

\* A manual sync and the fetch of an answer.
LEMMA FetchKeeps ==
  ASSUME IInv, NEW h \in Handlers, Sync(h) \/ Fetch(h)
  PROVE  Serving' /\ Claimed' /\ Inserted' /\ Ignored' /\ OneHandlerPerEvent'
           /\ Lone' /\ LoneIsNewest' /\ Outcomes'
<1> USE BillingAssumption
<1>0. TypeOK /\ Serving /\ Claimed /\ Inserted /\ Ignored /\ OneHandlerPerEvent /\ Lone
        /\ LoneIsNewest /\ Outcomes /\ version \in Nat /\ applied \in Nat
        /\ handlers[h] \in Handler /\ ServingAt(h)
  BY DEF IInv, TypeOK, Versions, Serving
<1>w. PICK e : e = handlers[h].event
  OBVIOUS
<1>1. /\ faults' = faults /\ version' = version /\ acked' = acked /\ events' = events
      /\ applied' = applied /\ user' = user /\ snapshot' = snapshot /\ lost' = lost
  BY DEF Sync, Fetch
<1>2. version <= version' /\ applied <= applied' /\ version' \in Nat /\ applied' \in Nat
  BY <1>0, <1>1
<1>3. CASE Sync(h)
  <2>1. handlers[h].stage = "idle" /\ handlers[h].event = NoEvent /\ ~Syncing(h)
    BY <1>0, <1>3 DEF Sync, At, ServingAt, Syncing
  <2>2. /\ Beside(h) /\ Lone'
        /\ handlers'[h].stage = "fetch" /\ handlers'[h].event = NoEvent
    BY <1>3, <2>1, BeginSyncKeeps DEF Sync
  <2>3. Serving' /\ Claimed'
    <3>1. ServingAt(h)'
      BY <1>0, <1>1, <2>2 DEF ServingAt, Syncing, NoEvent, Events
    <3> QED
      BY <1>1, <1>2, <2>2, <3>1, ServingKeeps
  <2>4. OneHandlerPerEvent'
    BY <1>0, <1>1, <2>2 DEF OneHandlerPerEvent, Beside, At
  <2>5. Inserted'
    BY <1>1, <2>2, InsertedKeeps
  <2>6. Ignored'
    BY <1>0, <1>1, <2>1, <2>2, OthersWork DEF Ignored, NoEvent, Events
  <2>7. LoneIsNewest'
    BY <1>0, <1>1, <2>2 DEF LoneIsNewest, Beside
  <2>8. Outcomes'
    BY <1>0, <1>1 DEF Outcomes, ProcessedIsApplied, AckedIsApplied
  <2> QED
    BY <2>2, <2>3, <2>4, <2>5, <2>6, <2>7, <2>8
<1>4. CASE Fetch(h)
  <2>1. handlers[h].stage = "fetch" /\ e <= version /\ e \notin Strangers
    BY <1>0, <1>w, <1>4 DEF Fetch, At, ServingAt, Syncing
  <2>2. /\ Beside(h) /\ handlers'[h].stage = "snapshot" /\ handlers'[h].event = e
        /\ handlers'[h].from = version /\ handlers'[h].alone = handlers[h].alone
        /\ handlers'[h].known = handlers[h].known
    <3>1. handlers' = [handlers EXCEPT ![h] = [handlers[h] EXCEPT !.stage = "snapshot", !.from = version]]
      BY <1>0, <1>4 DEF Fetch, TypeOK
    <3>2. Beside(h) /\ handlers'[h] = [handlers[h] EXCEPT !.stage = "snapshot", !.from = version]
      BY <1>0, <3>1, MovesBeside
    <3> QED
      BY <1>0, <1>w, <3>2 DEF Handler
  <2>3. Serving' /\ Claimed'
    <3>1. ServingAt(h)'
      BY <1>0, <1>1, <2>1, <2>2 DEF ServingAt, Syncing
    <3>2. e # NoEvent => events'[e] # "unseen"
      BY <1>0, <1>1, <1>w, <2>1 DEF Claimed
    <3> QED
      BY <1>1, <1>2, <2>2, <3>1, <3>2, ServingKeeps
  <2>4. OneHandlerPerEvent' /\ Lone'
    BY <1>1, <1>w, <2>1, <2>2, GoingOnKeeps DEF Syncing
  <2>5. Inserted'
    BY <1>1, <1>w, <2>1, <2>2, InsertedKeeps
  <2>6. Ignored'
    <3>1. \A f : WorkedOn(f) => WorkedOn(f)'
      BY <1>w, <2>1, <2>2 DEF WorkedOn, Beside
    <3> QED
      BY <1>0, <1>1, <3>1 DEF Ignored
  <2>7. LoneIsNewest'
    <3>1. user.from <= version
      BY <1>0 DEF TypeOK
    <3> QED
      BY <1>0, <1>1, <2>2, <3>1 DEF LoneIsNewest, Beside
  <2>8. Outcomes'
    BY <1>0, <1>1 DEF Outcomes, ProcessedIsApplied, AckedIsApplied
  <2> QED
    BY <2>3, <2>4, <2>5, <2>6, <2>7, <2>8
<1> QED
  BY <1>3, <1>4


\* The two writes of a sync.
LEMMA WritesKeep ==
  ASSUME IInv, NEW h \in Handlers, WriteSnapshot(h) \/ WriteTier(h)
  PROVE  Serving' /\ Claimed' /\ Inserted' /\ Ignored' /\ OneHandlerPerEvent'
           /\ Lone' /\ LoneIsNewest' /\ Outcomes'
<1> USE BillingAssumption
<1>0. TypeOK /\ Serving /\ Claimed /\ Inserted /\ Ignored /\ OneHandlerPerEvent /\ Lone
        /\ LoneIsNewest /\ Outcomes /\ version \in Nat /\ applied \in Nat
        /\ handlers[h] \in Handler /\ ServingAt(h)
  BY DEF IInv, TypeOK, Versions, Serving
<1>w. PICK e : e = handlers[h].event
  OBVIOUS
<1>1. /\ faults' = faults /\ version' = version /\ acked' = acked /\ events' = events /\ lost' = lost
      /\ handlers[h].stage \in {"snapshot", "tier"} /\ Syncing(h)
      /\ e \in Events \cup {NoEvent} /\ e \notin Strangers
      /\ handlers[h].from \in Nat /\ e <= handlers[h].from /\ handlers[h].from <= version
  BY <1>0, <1>w DEF WriteSnapshot, WriteTier, At, Syncing, ServingAt, Handler, Versions
<1>2. \A g \in Handlers \ {h} : handlers[g].alone => ~Syncing(g)
  BY <1>0, <1>1 DEF Lone
<1>3. ASSUME applied \in Nat, applied' \in Nat, applied <= applied', NEW stage \in {"tier", "settle", "idle"},
             Beside(h), handlers'[h].stage = stage, handlers'[h].event \in {e, NoEvent},
             handlers'[h].from \in {handlers[h].from, 0},
             stage # "idle" => handlers'[h].known = handlers[h].known,
             stage = "tier" => handlers'[h].event = e /\ handlers'[h].from = handlers[h].from
                                 /\ handlers'[h].alone = handlers[h].alone,
             stage = "settle" => handlers'[h].event = e /\ e # NoEvent /\ e <= applied',
             stage = "idle" => handlers'[h].event = NoEvent /\ e = NoEvent
      PROVE  Serving' /\ Claimed' /\ Inserted' /\ Ignored' /\ OneHandlerPerEvent' /\ Lone' /\ Outcomes'
  <2>1. ServingAt(h)'
    <3>1. handlers'[h].event <= version' /\ (handlers'[h].event # NoEvent => handlers'[h].event = e)
      BY <1>0, <1>1, <1>3 DEF NoEvent, Events
    <3>2. CASE stage = "tier"
      BY <1>0, <1>1, <1>3, <3>1, <3>2 DEF ServingAt, Syncing
    <3>3. CASE stage # "tier"
      BY <1>0, <1>1, <1>3, <3>1, <3>3 DEF ServingAt, Syncing
    <3> QED
      BY <3>2, <3>3
  <2>2. e # NoEvent => events'[e] # "unseen"
    BY <1>0, <1>1, <1>w DEF Claimed
  <2>3. version <= version' /\ version' \in Nat
    BY <1>0, <1>1
  <2>4. Serving' /\ Claimed'
    BY <1>0, <1>1, <1>3, <2>1, <2>2, <2>3, ServingKeeps
  <2>5. OneHandlerPerEvent' /\ Lone'
    BY <1>1, <1>3, <1>w, GoingOnKeeps DEF Syncing
  <2>6. Inserted'
    <3>1. handlers'[h].event # NoEvent =>
            /\ handlers'[h].event = handlers[h].event /\ handlers'[h].known = handlers[h].known
            /\ handlers'[h].stage # "claim" /\ handlers[h].stage # "claim"
      BY <1>1, <1>3, <1>w
    <3> QED
      BY <1>1, <1>3, <3>1, InsertedKeeps
  <2>7. Ignored'
    <3>1. \A f \in Events : WorkedOn(f) => WorkedOn(f)'
      BY <1>w, <1>1, <1>3 DEF WorkedOn, Beside, NoEvent, Events
    <3> QED
      BY <1>0, <1>1, <3>1 DEF Ignored
  <2>8. Outcomes'
    <3>1. \A f \in Events : applied >= f => applied' >= f
      BY <1>3 DEF Events
    <3>2. acked' \subseteq Events
      BY <1>0, <1>1 DEF TypeOK, Events, Versions
    <3>3. ProcessedIsApplied'
      BY <1>0, <1>1, <3>1 DEF Outcomes, ProcessedIsApplied
    <3>4. AckedIsApplied'
      BY <1>0, <1>1, <3>1, <3>2 DEF Outcomes, AckedIsApplied
    <3> QED
      BY <3>3, <3>4 DEF Outcomes
  <2> QED
    BY <2>4, <2>5, <2>6, <2>7, <2>8
<1>4. CASE WriteSnapshot(h)
  <2>1. handlers[h].stage = "snapshot" /\ applied' = applied /\ user' = user
    BY <1>4 DEF WriteSnapshot, At
  <2>2. /\ Beside(h) /\ handlers'[h].stage = "tier" /\ handlers'[h].event = e
        /\ handlers'[h].from = handlers[h].from /\ handlers'[h].alone = handlers[h].alone
        /\ handlers'[h].known = handlers[h].known
    <3>1. handlers' = [handlers EXCEPT ![h] = [handlers[h] EXCEPT !.stage = "tier"]]
      BY <1>0, <1>4 DEF WriteSnapshot, Goes, TypeOK
    <3>2. Beside(h) /\ handlers'[h] = [handlers[h] EXCEPT !.stage = "tier"]
      BY <1>0, <3>1, MovesBeside
    <3> QED
      BY <1>0, <1>w, <3>2 DEF Handler
  <2>3. snapshot'.from = handlers[h].from /\ snapshot'.tier = Tier(Subscriber[handlers[h].from])
    BY <1>4 DEF WriteSnapshot
  <2>4. Serving' /\ Claimed' /\ Inserted' /\ Ignored' /\ OneHandlerPerEvent' /\ Lone' /\ Outcomes'
    BY <1>0, <1>3, <2>1, <2>2
  <2>5. LoneIsNewest'
    BY <1>0, <1>1, <1>2, <2>1, <2>2, <2>3 DEF LoneIsNewest, Beside, Syncing
  <2> QED
    BY <2>4, <2>5
<1>5. CASE WriteTier(h)
  <2>1. handlers[h].stage = "tier" /\ snapshot' = snapshot /\ applied' = Later(applied, handlers[h].from)
    BY <1>5 DEF WriteTier, At
  <2>2. applied' \in Nat /\ applied <= applied' /\ e <= applied'
    BY <1>0, <1>1, <2>1 DEF Later, Events, NoEvent
  <2>3. Beside(h) /\ handlers'[h] = IF e = NoEvent THEN Idle ELSE [handlers[h] EXCEPT !.stage = "settle"]
    <3>1. handlers' = [handlers EXCEPT ![h] =
            IF e = NoEvent THEN Idle ELSE [handlers[h] EXCEPT !.stage = "settle"]]
      BY <1>0, <1>5, <1>w DEF WriteTier, Goes, Ends, TypeOK
    <3> QED
      BY <1>0, <3>1, MovesBeside
  <2>4. CASE e = NoEvent
    <3>1. /\ handlers'[h].stage = "idle" /\ handlers'[h].event = NoEvent /\ handlers'[h].from = 0
      BY <2>3, <2>4 DEF Idle
    <3>2. Serving' /\ Claimed' /\ Inserted' /\ Ignored' /\ OneHandlerPerEvent' /\ Lone' /\ Outcomes'
      BY <1>0, <1>3, <2>2, <2>3, <2>4, <3>1
    <3>3. LoneIsNewest'
      BY <1>2, <2>3, <3>1 DEF LoneIsNewest, Beside, Syncing
    <3> QED
      BY <3>2, <3>3
  <2>5. CASE e # NoEvent
    <3>1. /\ handlers'[h].stage = "settle" /\ handlers'[h].event = e
          /\ handlers'[h].from = handlers[h].from /\ handlers'[h].known = handlers[h].known
      BY <1>0, <1>w, <2>3, <2>5 DEF Handler
    <3>2. Serving' /\ Claimed' /\ Inserted' /\ Ignored' /\ OneHandlerPerEvent' /\ Lone' /\ Outcomes'
      BY <1>0, <1>3, <2>2, <2>3, <2>5, <3>1
    <3>3. LoneIsNewest'
      BY <1>2, <2>3, <3>1 DEF LoneIsNewest, Beside, Syncing
    <3> QED
      BY <3>2, <3>3
  <2> QED
    BY <2>4, <2>5
<1> QED
  BY <1>4, <1>5

\* The outcome of a delivery, a command that throws, a handler that dies.
LEMMA EndsKeep ==
  ASSUME IInv, NEW h \in Handlers, Settle(h) \/ Throws(h) \/ RecordFailure(h) \/ Dies(h)
  PROVE  Serving' /\ Claimed' /\ Inserted' /\ Ignored' /\ OneHandlerPerEvent'
           /\ Lone' /\ LoneIsNewest' /\ Outcomes'
<1> USE BillingAssumption
<1>0. TypeOK /\ Serving /\ Claimed /\ Inserted /\ Ignored /\ OneHandlerPerEvent /\ Lone
        /\ LoneIsNewest /\ Outcomes /\ version \in Nat /\ applied \in Nat
        /\ handlers[h] \in Handler /\ ServingAt(h)
  BY DEF IInv, TypeOK, Versions, Serving
<1>w. PICK e : e = handlers[h].event
  OBVIOUS
<1>1. /\ version' = version /\ applied' = applied /\ user' = user /\ snapshot' = snapshot
      /\ lost \subseteq lost' /\ handlers[h].stage # "idle" /\ e \in Events \cup {NoEvent}
      /\ e <= version
  BY <1>0, <1>w DEF Settle, Throws, RecordFailure, Dies, At, Syncing, ServingAt, Handler
<1>2. \/ handlers' = [handlers EXCEPT ![h] = Idle]
      \/ /\ Throws(h) /\ e # NoEvent
         /\ handlers' = [handlers EXCEPT ![h] = [handlers[h] EXCEPT !.stage = "failed"]]
  BY <1>0, <1>w DEF Settle, Throws, RecordFailure, Dies, Ends, Goes, TypeOK
<1>3. /\ Beside(h) /\ handlers'[h].stage \in {"idle", "failed"}
      /\ handlers'[h].stage = "failed" =>
           Throws(h) /\ handlers'[h].event = e /\ e # NoEvent /\ handlers'[h].known = handlers[h].known
      /\ handlers'[h].stage = "idle" => handlers'[h].event = NoEvent /\ ~handlers'[h].known
  <2>1. CASE handlers' = [handlers EXCEPT ![h] = Idle]
    <3>1. Beside(h) /\ handlers'[h] = Idle
      BY <1>0, <2>1, MovesBeside
    <3> QED
      BY <3>1 DEF Idle
  <2>2. CASE Throws(h) /\ e # NoEvent
             /\ handlers' = [handlers EXCEPT ![h] = [handlers[h] EXCEPT !.stage = "failed"]]
    <3>1. Beside(h) /\ handlers'[h] = [handlers[h] EXCEPT !.stage = "failed"]
      BY <1>0, <2>2, MovesBeside
    <3> QED
      BY <1>0, <1>w, <2>2, <3>1 DEF Handler
  <2> QED
    BY <1>2, <2>1, <2>2
<1>4. Throws(h) => Syncing(h) \/ handlers[h].stage = "settle"
  BY DEF Throws, At
<1>5. Lone' /\ LoneIsNewest'
  <2>1. \A g \in Handlers : Syncing(g)' => g # h /\ Syncing(g)
    BY <1>3 DEF Beside, Syncing
  <2>2. Lone'
    BY <1>0, <1>3, <2>1 DEF Lone, Beside
  <2>3. LoneIsNewest'
    BY <1>0, <1>1, <1>3 DEF LoneIsNewest, Beside
  <2> QED
    BY <2>2, <2>3
<1>7. OneHandlerPerEvent'
  BY <1>0, <1>3, <1>4, <1>w DEF OneHandlerPerEvent, Beside, At, Syncing
<1>8. ASSUME \A f \in Events : events[f] # "unseen" => events'[f] # "unseen"
      PROVE  Serving' /\ Claimed'
  <2>1. ServingAt(h)'
    BY <1>0, <1>1, <1>3 DEF ServingAt, Syncing, NoEvent
  <2>2. version <= version' /\ applied <= applied' /\ version' \in Nat /\ applied' \in Nat
    BY <1>0, <1>1
  <2>3. handlers'[h].stage = "failed" => events'[e] # "unseen"
    <3>1. Throws(h) /\ e # NoEvent => events[e] # "unseen"
      BY <1>0, <1>4, <1>w DEF Claimed, Syncing
    <3> QED
      BY <1>1, <1>3, <1>8, <3>1
  <2> QED
    BY <1>0, <1>3, <1>8, <2>1, <2>2, <2>3, ServingKeeps
<1>9. CASE Settle(h)
  <2>1. /\ handlers[h].stage = "settle" /\ e \in Events /\ faults' = faults /\ lost' = lost
        /\ events' = [events EXCEPT ![e] = IF e \in Strangers THEN "ignored" ELSE "processed"]
        /\ acked' = acked \cup {e}
        /\ handlers' = [handlers EXCEPT ![h] = Idle]
        /\ e \notin Strangers => applied >= e
    <3>1. handlers[h].stage = "settle" /\ e # NoEvent
      BY <1>0, <1>9, <1>w DEF Settle, At, ServingAt
    <3>2. e \notin Strangers => applied >= e
      BY <1>0, <1>1, <1>w, <3>1 DEF ServingAt, Events, NoEvent
    <3> QED
      BY <1>1, <1>9, <1>w, <3>1, <3>2 DEF Settle, Ends
  <2>2. /\ events'[e] = IF e \in Strangers THEN "ignored" ELSE "processed"
        /\ \A f \in Events \ {e} : events'[f] = events[f]
    BY <1>0, <2>1 DEF TypeOK
  <2>3. Serving' /\ Claimed'
    BY <1>8, <2>2
  <2>4. Inserted'
    <3>1. handlers'[h].stage = "idle"
      BY <1>0, <2>1 DEF TypeOK, Idle
    <3> QED
      BY <1>3, <1>w, <2>1, <2>2, <3>1, InsertedKeeps
  <2>5. Ignored'
    BY <1>0, <1>w, <1>3, <2>1, <2>2, OthersWork DEF Ignored
  <2>6. ProcessedIsApplied'
    BY <1>0, <1>1, <2>1, <2>2 DEF Outcomes, ProcessedIsApplied
  <2>7. AckedIsApplied'
    BY <1>0, <1>1, <2>1 DEF Outcomes, AckedIsApplied
  <2> QED
    BY <1>5, <1>7, <2>3, <2>4, <2>5, <2>6, <2>7 DEF Outcomes
<1>10. CASE RecordFailure(h)
  <2>1. /\ handlers[h].stage = "failed" /\ e \in Events
        /\ lost' = lost /\ acked' = acked /\ events' = [events EXCEPT ![e] = "failed"]
    BY <1>0, <1>1, <1>10, <1>w DEF RecordFailure, At, ServingAt
  <2>2. events'[e] = "failed" /\ \A f \in Events \ {e} : events'[f] = events[f]
    BY <1>0, <2>1 DEF TypeOK
  <2>3. Serving' /\ Claimed'
    BY <1>8, <2>2
  <2>4. Inserted'
    <3>1. handlers'[h].event = NoEvent
      BY <1>0, <1>10 DEF RecordFailure, Ends, TypeOK, Idle
    <3> QED
      BY <1>3, <1>w, <2>1, <2>2, <3>1, InsertedKeeps
  <2>5. Ignored'
    BY <1>0, <1>w, <1>3, <2>1, <2>2, OthersWork DEF Ignored
  <2>6. Outcomes'
    BY <1>0, <1>1, <2>1, <2>2 DEF Outcomes, ProcessedIsApplied, AckedIsApplied
  <2> QED
    BY <1>5, <1>7, <2>3, <2>4, <2>5, <2>6
<1>11. CASE Throws(h) \/ Dies(h)
  <2>1. /\ events' = events /\ acked' = acked
        /\ Dies(h) /\ e # NoEvent /\ handlers[h].stage # "claim" => e \in lost'
    BY <1>11, <1>w DEF Throws, Dies, At
  <2>2. Serving' /\ Claimed'
    BY <1>8, <2>1
  <2>3. Inserted'
    BY <1>3, <1>4, <1>w, <2>1, InsertedKeeps DEF Syncing
  <2>4. Ignored'
    <3> SUFFICES ASSUME NEW f \in Events \ Strangers, events[f] = "ignored", f \notin lost'
                 PROVE  WorkedOn(f)'
      BY <2>1 DEF Ignored
    <3>1. WorkedOn(f) /\ f # NoEvent
      BY <1>0, <1>1 DEF Ignored, Events, NoEvent
    <3>2. CASE f = e /\ handlers[h].stage # "claim"
      <4>1. Throws(h)
        BY <1>11, <2>1, <3>1, <3>2
      <4>2. handlers'[h].stage = "failed" /\ handlers'[h].event = e
        BY <1>2, <1>3, <1>0, <1>w, <3>1, <3>2, <4>1 DEF Throws, Goes, TypeOK, Handler
      <4> QED
        BY <3>2, <4>2 DEF WorkedOn
    <3>3. CASE ~(f = e /\ handlers[h].stage # "claim")
      BY <1>3, <1>w, <3>1, <3>3, OthersWork
    <3> QED
      BY <3>2, <3>3
  <2>5. Outcomes'
    BY <1>0, <1>1, <2>1 DEF Outcomes, ProcessedIsApplied, AckedIsApplied
  <2> QED
    BY <1>5, <1>7, <2>2, <2>3, <2>4, <2>5
<1> QED
  BY <1>9, <1>10, <1>11

-----------------------------------------------------------------------------
(* What follows.                                                           *)

\* The invariant is inductive.
LEMMA StepIInv == IInv /\ [Next]_vars => IInv'
<1> SUFFICES ASSUME IInv, [Next]_vars PROVE IInv'
  OBVIOUS
<1>0. TypeOK /\ Serving /\ Claimed /\ Inserted /\ Ignored /\ OneHandlerPerEvent /\ Lone
        /\ LoneIsNewest /\ Outcomes
  BY DEF IInv
<1>1. TypeOK'
  BY <1>0, TypeStep
<1>2. CASE \E h \in Handlers : HandlerStep(h) \/ Throws(h) \/ Dies(h) \/ Sync(h)
                              \/ \E e \in Events : Deliver(h, e)
  BY <1>1, <1>2, DeliverKeeps, ClaimKeeps, FetchKeeps, WritesKeep, EndsKeep DEF HandlerStep, IInv
<1>3. CASE Change \/ Reads \/ UNCHANGED vars
  <2>1. /\ version' \in Int /\ version \in Int /\ version <= version'
        /\ acked' = acked /\ events' = events /\ snapshot' = snapshot
        /\ user' = user /\ handlers' = handlers /\ faults' = faults /\ applied' = applied /\ lost' = lost
    BY <1>0, <1>3, BillingAssumption DEF Change, Reads, vars, TypeOK, Versions
  <2>2. Serving'
    <3>1. \A h \in Handlers : handlers[h].event \in Int /\ handlers[h].from \in Int
      BY <1>0, BillingAssumption DEF TypeOK, Handler, Events, NoEvent, Versions
    <3> QED
      BY <1>0, <2>1, <3>1 DEF Serving, ServingAt, Syncing
  <2>3. Claimed' /\ Inserted' /\ OneHandlerPerEvent'
    BY <1>0, <2>1 DEF Claimed, Inserted, InsertedAt, OneHandlerPerEvent, At
  <2>4. Ignored' /\ Outcomes'
    BY <1>0, <2>1 DEF Ignored, WorkedOn, Outcomes, ProcessedIsApplied, AckedIsApplied
  <2>5. Lone' /\ LoneIsNewest'
    BY <1>0, <2>1 DEF Lone, LoneIsNewest, Syncing
  <2> QED
    BY <1>1, <2>2, <2>3, <2>4, <2>5 DEF IInv
<1> QED
  BY <1>2, <1>3 DEF Next

\* The invariant holds in every state.
LEMMA Invariant == Spec => []IInv
  BY InitIInv, StepIInv, PTL DEF Spec

\* Every variable stays in its set, whatever RevenueCat answers, and what is
\* stored was answered (services/billingSync.ts).
THEOREM TypeCorrect == Spec => []TypeOK
<1>1. IInv => TypeOK
  BY DEF IInv
<1> QED
  BY Invariant, <1>1, PTL

\* The handler that inserted an event has it to itself, and others work on it together only
\* when each found it recorded as failed: the unique index lets one insert through (the
\* webhook of routes/billing.ts).
THEOREM EventHasOneHandler == Spec => []OneHandlerPerEvent
<1>1. IInv => OneHandlerPerEvent
  BY DEF IInv
<1> QED
  BY Invariant, <1>1, PTL

\* An event that is recorded as processed was applied to both documents.
THEOREM ProcessedWasApplied == Spec => []ProcessedIsApplied
<1>1. IInv => ProcessedIsApplied
  BY DEF IInv, Outcomes
<1> QED
  BY Invariant, <1>1, PTL

\* RevenueCat is told 200 for events that were applied, and otherwise only for
\* those whose handler died or was still at work.
THEOREM AckedWasApplied == Spec => []AckedIsApplied
<1>1. IInv => AckedIsApplied
  BY DEF IInv, Outcomes
<1> QED
  BY Invariant, <1>1, PTL

\* The stored tier goes back to an older answer only where two syncs overlap.
THEOREM GoingBackIsOverlap == Spec => OlderOnlyByOverlap
<1>1. IInv /\ [Next]_vars =>
        [user'.from < user.from => \E h \in Handlers : At(h, "tier") /\ ~handlers[h].alone]_vars
  <2> SUFFICES ASSUME IInv, Next, user'.from < user.from
               PROVE  \E h \in Handlers : At(h, "tier") /\ ~handlers[h].alone
    OBVIOUS
  <2>1. user.from \in Int
    BY BillingAssumption DEF IInv, TypeOK, Versions
  <2>2. user' # user
    BY <2>1
  <2>3. PICK h \in Handlers : WriteTier(h)
    BY <2>2 DEF Next, HandlerStep, Change, Reads, vars, Claim, Fetch, WriteSnapshot, Settle,
                RecordFailure, Throws, Dies, Sync, Deliver, Duplicate, Webhook
  <2>4. At(h, "tier") /\ user'.from = handlers[h].from
    BY <2>3 DEF WriteTier
  <2>5. handlers[h].from \in Int
    BY BillingAssumption DEF IInv, TypeOK, Handler, Versions
  <2> QED
    BY <2>1, <2>4, <2>5 DEF IInv, LoneIsNewest, At
<1> QED
  BY Invariant, <1>1, PTL DEF Spec, OlderOnlyByOverlap

\* A step of one handler leaves the others where they stand.
LEMMA StepBeside ==
  ASSUME IInv, NEW h \in Handlers,
         HandlerStep(h) \/ Throws(h) \/ Dies(h) \/ Sync(h) \/ \E e \in Events : Deliver(h, e)
  PROVE  Beside(h)
<1>0. TypeOK /\ handlers[h] \in Handler
  BY DEF IInv, TypeOK
<1>1. CASE handlers' = handlers
  BY <1>1 DEF Beside
<1>2. CASE \E q : handlers' = [handlers EXCEPT ![h] = q]
  BY <1>0, <1>2, MovesBeside
<1>3. CASE ~Syncing(h) /\ \E e \in Events \cup {NoEvent} : BeginSync(h, e)
  BY <1>3, BeginSyncKeeps
<1>4. CASE Claim(h) \/ Sync(h)
  <2>1. ~Syncing(h) /\ (Claim(h) => handlers[h].event \in Events \cup {NoEvent})
    BY <1>0, <1>4 DEF Claim, Sync, At, Syncing, Handler
  <2>2. \/ Ends(h) \/ Goes(h, "settle") \/ BeginSync(h, NoEvent)
        \/ Claim(h) /\ BeginSync(h, handlers[h].event)
    BY <1>4 DEF Claim, Proceed, Sync
  <2> QED
    BY <1>0, <1>2, <1>3, <2>1, <2>2 DEF Ends, Goes, TypeOK
<1>5. CASE \/ Fetch(h) \/ WriteSnapshot(h) \/ WriteTier(h) \/ Settle(h) \/ RecordFailure(h)
           \/ Throws(h) \/ Dies(h)
  BY <1>0, <1>2, <1>5 DEF Fetch, WriteSnapshot, WriteTier, Settle, RecordFailure, Throws, Dies,
                          Ends, Goes, TypeOK
<1>6. CASE \E e \in Events : Deliver(h, e)
  BY <1>1, <1>2, <1>6 DEF Deliver, Duplicate, Webhook
<1> QED
  BY <1>4, <1>5, <1>6 DEF HandlerStep

\* A sync that meets no other leaves the snapshot and the user in agreement.
THEOREM LoneSyncsAgree == Spec => LoneSyncAgrees
<1>1. IInv /\ [Next]_vars =>
        [\A h \in Handlers :
           At(h, "tier") /\ handlers[h].alone /\ handlers'[h].stage # "tier" /\ faults' = faults
             => user'.from = snapshot'.from /\ user'.tier = snapshot'.tier]_vars
  <2> SUFFICES ASSUME IInv, Next, NEW h \in Handlers,
                      handlers[h].stage = "tier", handlers[h].alone, handlers'[h].stage # "tier", faults' = faults
               PROVE  user'.from = snapshot'.from /\ user'.tier = snapshot'.tier
    BY DEF At
  <2>1. \A g \in Handlers \ {h} : ~Beside(g)
    BY DEF Beside
  <2>2. ~Change /\ ~Reads
    BY DEF Change, Reads, vars
  <2>3. HandlerStep(h) \/ Throws(h) \/ Dies(h) \/ Sync(h) \/ \E e \in Events : Deliver(h, e)
    BY <2>1, <2>2, StepBeside DEF Next
  <2>4. ~Throws(h) /\ ~Dies(h)
    BY BillingAssumption DEF Throws, Dies, IInv, TypeOK
  <2>5. WriteTier(h)
    BY <2>3, <2>4 DEF HandlerStep, Claim, Fetch, WriteSnapshot, Settle, RecordFailure, Sync, Deliver,
                      Duplicate, Webhook, At
  <2>6. /\ user'.from = handlers[h].from /\ user'.tier = Tier(Subscriber[handlers[h].from])
        /\ snapshot' = snapshot
    BY <2>5 DEF WriteTier
  <2> QED
    BY <2>6 DEF IInv, LoneIsNewest
<1> QED
  BY Invariant, <1>1, PTL DEF Spec, LoneSyncAgrees
=============================================================================
