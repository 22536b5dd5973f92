-------------------------------- MODULE Billing --------------------------------
(***************************************************************************)
(* Subscriptions: the RevenueCat webhook and sync handlers of              *)
(* routes/billing.ts, syncRevenueCatForUser of services/billingSync.ts and *)
(* the projection of services/subscriptionProjection.ts.                   *)
(*                                                                         *)
(* One user is followed.  What RevenueCat knows of it grows through        *)
(* versions, and each version is announced by an event of the same number  *)
(* which is delivered until a delivery is answered 200; a delivery may be  *)
(* repeated while another is served.  A handler asks RevenueCat for the    *)
(* version of the moment and stores what it projects in two documents.     *)
(***************************************************************************)
EXTENDS Integers, FiniteSets

CONSTANTS
  Handlers,     \* requests served at the same time
  MaxVersion,   \* bound: changes at RevenueCat
  Subscriber,   \* Subscriber[v]: what RevenueCat answers in version v
  Strangers,    \* events whose app_user_id is missing or no user of ours
  MaxSyncs,     \* bound: POST /revenuecat/sync
  MaxFaults     \* bound: commands that throw and handlers that die

Versions == 0..MaxVersion
Events == 1..MaxVersion

\* ends, grace: a date of the answer as the moment of the projection sees it.
Dates == {"none", "ahead", "past"}
Subscribers == [entitled : BOOLEAN, ends : Dates, grace : Dates, issue : BOOLEAN]

ASSUME BillingAssumption ==
  /\ MaxVersion \in Nat /\ MaxSyncs \in Nat /\ MaxFaults \in Nat
  /\ Subscriber \in [Versions -> Subscribers]
  /\ Strangers \subseteq Events

VARIABLES
  version,     \* the version RevenueCat is at
  acked,       \* events a delivery of which was answered 200
  events,      \* revenuecat_events: processingStatus, "unseen" while there is none
  snapshot,    \* billing_subscriptions: version and projection
  user,        \* users: version and tier
  handlers,    \* handlers[h]: the request in flight
  syncs, faults,
  applied,     \* history: the newest version both documents were written from
  lost         \* history: events whose handler died or could not record a failure,
               \* or that were answered as duplicates while a handler worked on them

vars == <<version, acked, events, snapshot, user, handlers, syncs, faults, applied, lost>>

\* resolveStatus and projectRevenueCatSubscriptionState.
Status(answer) ==
  CASE ~answer.entitled -> "none"
    [] answer.entitled /\ answer.ends = "past" -> "expired"
    [] answer.entitled /\ answer.ends # "past" /\ answer.issue -> "billing_issue"
    [] answer.entitled /\ answer.ends = "ahead" /\ ~answer.issue /\ answer.grace = "ahead" -> "grace"
    [] OTHER -> "active"
Tier(answer) == IF Status(answer) \in {"none", "expired"} THEN "free" ELSE "premium"

\* "claim": the event was looked up; "fetch": RevenueCat is asked; "snapshot" and
\* "tier": the two writes; "settle": the outcome of the event is recorded;
\* "failed": the catch block.
Stages == {"idle", "claim", "fetch", "snapshot", "tier", "settle", "failed"}
NoEvent == 0
Idle == [stage |-> "idle", event |-> NoEvent, known |-> FALSE, from |-> 0, alone |-> TRUE]

Init ==
  /\ version = 0
  /\ acked = {}
  /\ events = [e \in Events |-> "unseen"]
  /\ snapshot = [from |-> 0, tier |-> Tier(Subscriber[0]), status |-> Status(Subscriber[0])]
  /\ user = [from |-> 0, tier |-> Tier(Subscriber[0])]
  /\ handlers = [h \in Handlers |-> Idle]
  /\ syncs = 0
  /\ faults = 0
  /\ applied = 0
  /\ lost = {}

At(h, stage) == handlers[h].stage = stage
Syncing(h) == handlers[h].stage \in {"fetch", "snapshot", "tier"}

\* A handler that begins to sync, for an event it has claimed or for a user who asks, is
\* not alone with any other that does.
BeginSync(h, event) ==
  LET others == {g \in Handlers \ {h} : Syncing(g)}
  IN  handlers' = [g \in Handlers |->
        CASE g = h -> [handlers[h] EXCEPT !.stage = "fetch", !.event = event, !.alone = others = {}]
          [] g \in others -> [handlers[g] EXCEPT !.alone = FALSE]
          [] OTHER -> handlers[g]]

Goes(h, stage) == handlers' = [handlers EXCEPT ![h].stage = stage]
Ends(h) == handlers' = [handlers EXCEPT ![h] = Idle]

-----------------------------------------------------------------------------
(* POST /revenuecat/webhook.                                               *)

\* A purchase, renewal, cancellation or expiration; its event is to be sent.
Change ==
  /\ version < MaxVersion
  /\ version' = version + 1
  /\ UNCHANGED <<acked, events, snapshot, user, handlers, syncs, faults, applied, lost>>

WorkedOn(e) == \E h \in Handlers : handlers[h].event = e /\ handlers[h].stage # "claim"

\* An event that is known and did not fail is answered as a duplicate.
Duplicate(h, e) ==
  /\ At(h, "idle")
  /\ e <= version /\ e \notin acked
  /\ events[e] \notin {"unseen", "failed"}
  /\ acked' = acked \cup {e}
  /\ lost' = IF WorkedOn(e) THEN lost \cup {e} ELSE lost
  /\ UNCHANGED <<version, events, snapshot, user, handlers, syncs, faults, applied>>

Webhook(h, e) ==
  /\ At(h, "idle")
  /\ e <= version /\ e \notin acked
  /\ events[e] \in {"unseen", "failed"}
  /\ handlers' = [handlers EXCEPT ![h] =
       [Idle EXCEPT !.stage = "claim", !.event = e, !.known = events[e] = "failed"]]
  /\ UNCHANGED <<version, acked, events, snapshot, user, syncs, faults, applied, lost>>

\* What becomes of a claimed event: a stranger's is not synced.
Proceed(h, e) ==
  IF e \in Strangers THEN Goes(h, "settle") ELSE BeginSync(h, e)

\* Mutant: no unique index on eventId.
ClaimUnindexed(h) ==
  /\ At(h, "claim")
  /\ events' = [events EXCEPT ![handlers[h].event] = "ignored"]
  /\ Proceed(h, handlers[h].event)
  /\ UNCHANGED <<version, acked, snapshot, user, syncs, faults, applied, lost>>

\* Mutant: the event is recorded as processed at once.
ClaimAsProcessed(h) ==
  /\ At(h, "claim")
  /\ events' = [events EXCEPT ![handlers[h].event] = "processed"]
  /\ Proceed(h, handlers[h].event)
  /\ UNCHANGED <<version, acked, snapshot, user, syncs, faults, applied, lost>>

\* The insert of the event, or the update of one that had failed.  The unique
\* index makes the second of two inserts throw: 500, nothing recorded.
Claim(h) ==
  /\ At(h, "claim")
  /\ LET e == handlers[h].event
     IN  IF ~handlers[h].known /\ events[e] # "unseen"
           THEN Ends(h) /\ UNCHANGED events
           ELSE events' = [events EXCEPT ![e] = "ignored"] /\ Proceed(h, e)
  /\ UNCHANGED <<version, acked, snapshot, user, syncs, faults, applied, lost>>

\* POST /revenuecat/sync.
Sync(h) ==
  /\ At(h, "idle")
  /\ syncs < MaxSyncs
  /\ syncs' = syncs + 1
  /\ BeginSync(h, NoEvent)
  /\ UNCHANGED <<version, acked, events, snapshot, user, faults, applied, lost>>

-----------------------------------------------------------------------------
(* syncRevenueCatForUser.                                                  *)

\* Mutant: an event is taken at its word, RevenueCat is not asked.
FetchFromEvent(h) ==
  /\ At(h, "fetch")
  /\ handlers' = [handlers EXCEPT ![h].stage = "snapshot",
       ![h].from = IF handlers[h].event = NoEvent THEN version ELSE handlers[h].event]
  /\ UNCHANGED <<version, acked, events, snapshot, user, syncs, faults, applied, lost>>

\* fetchRevenueCatSubscriber and the projection of its answer.
Fetch(h) ==
  /\ At(h, "fetch")
  /\ handlers' = [handlers EXCEPT ![h].stage = "snapshot", ![h].from = version]
  /\ UNCHANGED <<version, acked, events, snapshot, user, syncs, faults, applied, lost>>

WriteSnapshot(h) ==
  /\ At(h, "snapshot")
  /\ snapshot' = LET answer == Subscriber[handlers[h].from]
                 IN  [from |-> handlers[h].from, tier |-> Tier(answer), status |-> Status(answer)]
  /\ Goes(h, "tier")
  /\ UNCHANGED <<version, acked, events, user, syncs, faults, applied, lost>>

Later(v, w) == IF v > w THEN v ELSE w

\* Mutant: a sync never takes premium away.
WriteTierUpwards(h) ==
  /\ At(h, "tier")
  /\ user' = IF Tier(Subscriber[handlers[h].from]) = "free" THEN user
             ELSE [from |-> handlers[h].from, tier |-> "premium"]
  /\ applied' = Later(applied, handlers[h].from)
  /\ IF handlers[h].event = NoEvent THEN Ends(h) ELSE Goes(h, "settle")
  /\ UNCHANGED <<version, acked, events, snapshot, syncs, faults, lost>>

\* The tier of the user; a manual sync is answered, an event still recorded.
WriteTier(h) ==
  /\ At(h, "tier")
  /\ user' = [from |-> handlers[h].from, tier |-> Tier(Subscriber[handlers[h].from])]
  /\ applied' = Later(applied, handlers[h].from)
  /\ IF handlers[h].event = NoEvent THEN Ends(h) ELSE Goes(h, "settle")
  /\ UNCHANGED <<version, acked, events, snapshot, syncs, faults, lost>>

-----------------------------------------------------------------------------
(* Outcomes of a delivery.                                                 *)

\* processed, or ignored for a stranger; the delivery is answered 200.
Settle(h) ==
  /\ At(h, "settle")
  /\ LET e == handlers[h].event
     IN  /\ events' = [events EXCEPT ![e] = IF e \in Strangers THEN "ignored" ELSE "processed"]
         /\ acked' = acked \cup {e}
  /\ Ends(h)
  /\ UNCHANGED <<version, snapshot, user, syncs, faults, applied, lost>>

\* A command of the sync or the record of its outcome throws.
Throws(h) ==
  /\ Syncing(h) \/ At(h, "settle")
  /\ faults < MaxFaults
  /\ faults' = faults + 1
  /\ IF handlers[h].event = NoEvent THEN Ends(h) ELSE Goes(h, "failed")
  /\ UNCHANGED <<version, acked, events, snapshot, user, syncs, applied, lost>>

\* Mutant: the catch block leaves the event as it was claimed.
RecordNoFailure(h) ==
  /\ At(h, "failed")
  /\ Ends(h)
  /\ UNCHANGED <<version, acked, events, snapshot, user, syncs, faults, applied, lost>>

\* The catch block: the event has failed, the delivery is answered 500.
RecordFailure(h) ==
  /\ At(h, "failed")
  /\ events' = [events EXCEPT ![handlers[h].event] = "failed"]
  /\ Ends(h)
  /\ UNCHANGED <<version, acked, snapshot, user, syncs, faults, applied, lost>>

\* The process dies, or the catch block throws as well: the event stays ignored.
Dies(h) ==
  /\ ~At(h, "idle")
  /\ faults < MaxFaults
  /\ faults' = faults + 1
  /\ lost' = IF handlers[h].event # NoEvent /\ ~At(h, "claim") THEN lost \cup {handlers[h].event} ELSE lost
  /\ Ends(h)
  /\ UNCHANGED <<version, acked, events, snapshot, user, syncs, applied>>

HandlerStep(h) ==
  \/ Claim(h) \/ Fetch(h) \/ WriteSnapshot(h) \/ WriteTier(h) \/ Settle(h) \/ RecordFailure(h)

Deliver(h, e) == Duplicate(h, e) \/ Webhook(h, e)

\* GET /subscription and requests that are refused only read.
Reads == UNCHANGED vars

Next ==
  \/ Change \/ Reads
  \/ \E h \in Handlers :
       \/ HandlerStep(h) \/ Throws(h) \/ Dies(h) \/ Sync(h)
       \/ \E e \in Events : Deliver(h, e)

\* Promises settle, and RevenueCat repeats what was not answered 200.
Fairness ==
  /\ \A h \in Handlers : WF_vars(HandlerStep(h))
  /\ \A e \in Events : SF_vars(\E h \in Handlers : Deliver(h, e))

Spec == Init /\ [][Next]_vars /\ Fairness

-----------------------------------------------------------------------------
(* Properties.                                                             *)

Tiers == {"free", "premium"}
Handler == [stage : Stages, event : Events \cup {NoEvent}, known : BOOLEAN, from : Versions,
            alone : BOOLEAN]

\* Every variable stays in its set; what is stored was fetched from RevenueCat.
TypeOK ==
  /\ version \in Versions
  /\ acked \subseteq 1..version
  /\ events \in [Events -> {"unseen", "ignored", "processed", "failed"}]
  /\ snapshot \in [from : 0..version, tier : Tiers,
                   status : {"none", "active", "billing_issue", "grace", "expired"}]
  /\ user \in [from : 0..version, tier : Tiers]
  /\ handlers \in [Handlers -> Handler]
  /\ syncs \in 0..MaxSyncs
  /\ faults \in 0..MaxFaults
  /\ applied \in 0..version
  /\ lost \subseteq 1..version

\* However often an event is delivered, the handler that inserted it has it to itself:
\* two work on one event at once only when each of them had found that very event
\* recorded as failed.
OneHandlerPerEvent ==
  \A g, h \in Handlers :
    g # h /\ handlers[g].event = handlers[h].event /\ handlers[g].event # NoEvent
      /\ ~At(g, "claim") /\ ~At(h, "claim")
      => handlers[g].known /\ handlers[h].known

\* An event is recorded as processed only when both documents were written from
\* an answer as new as the event.
ProcessedIsApplied == \A e \in Events \ Strangers : events[e] = "processed" => applied >= e

\* RevenueCat is told 200 only for an event that was applied, unless its handler
\* died or it was still at work when a second delivery was answered.
AckedIsApplied == \A e \in acked \ Strangers : applied >= e \/ e \in lost

\* A sync that met no other leaves the snapshot and the user in agreement.
LoneSyncAgrees ==
  [][\A h \in Handlers :
       At(h, "tier") /\ handlers[h].alone /\ handlers'[h].stage # "tier" /\ faults' = faults
         => user'.from = snapshot'.from /\ user'.tier = snapshot'.tier]_vars

\* The tier goes back to an older answer only by a sync that overlapped another.
OlderOnlyByOverlap ==
  [][user'.from < user.from => \E h \in Handlers : At(h, "tier") /\ ~handlers[h].alone]_vars

\* Every event is applied in the end, whatever single command throws, unless its
\* handler died or was still at work when a second delivery was answered.
EventsAreApplied ==
  \A e \in Events \ Strangers : version >= e ~> applied >= e \/ e \in lost

=============================================================================
