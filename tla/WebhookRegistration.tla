-------------------------- MODULE WebhookRegistration --------------------------
(***************************************************************************)
(* How the order service subscribes to YooKassa's notifications when it    *)
(* starts: RegisterWebhooks lists the subscriptions, deletes those of      *)
(* payments that go to another URL, and creates those that are missing.    *)
(* Errors are only logged. The URL changes from one deployment to the next *)
(* (the README has it from ngrok), and an instance may start while another *)
(* one is still running, or be stopped at any point.                       *)
(***************************************************************************)
EXTENDS Faults

CONSTANTS
  Instances,    \* processes of the order service
  Urls,         \* values of notification_url
  NoUrl,        \* the empty notification_url
  OtherEvents,  \* events of the shop's subscriptions that are none of the service's
  Ids,          \* ids of subscriptions, each given once
  MaxStarts     \* bound on the number of starts

desiredEvents == {"payment.succeeded", "payment.canceled"}

ASSUME UrlAssumption == NoUrl \notin Urls
ASSUME EventAssumption == OtherEvents \intersect desiredEvents = {}
ASSUME BoundAssumption == MaxStarts \in Nat /\ MaxFaults \in Nat

VARIABLES
  webhooks,   \* the subscriptions YooKassa has
  issued,     \* the ids of the subscriptions it has had
  instance,   \* what each instance is doing
  starts,     \* starts so far
  disturbed,  \* history: instances since whose start a call of theirs failed, another
              \* instance was registering, or the shop changed its subscriptions
  overlapped  \* history: has an instance started, or the shop changed something, while
              \* an instance was registering?

vars == <<webhooks, issued, instance, starts, disturbed, overlapped, faults>>

Webhook == [id : Ids, event : desiredEvents \union OtherEvents, url : Urls]

Down == [pc |-> "down"]

\* An instance that waits for the list.
Listing == [pc : {"list"}, url : Urls]

\* An instance with the items of the list it has not considered yet, and the events
\* that are registered or have been tried.
Working ==
  [pc : {"work"}, url : Urls, left : SUBSET Webhook, registered : SUBSET desiredEvents]

Serving == [pc : {"up"}, url : Urls \union {NoUrl}]

InstanceStates == {Down} \union Listing \union Working \union Serving

TypeOK ==
  /\ webhooks \subseteq Webhook
  /\ issued \subseteq Ids
  /\ instance \in [Instances -> InstanceStates]
  /\ starts \in 0..MaxStarts
  /\ disturbed \subseteq Instances
  /\ overlapped \in BOOLEAN
  /\ faults \in 0..MaxFaults

Init ==
  /\ webhooks = {}
  /\ issued = {}
  /\ instance = [p \in Instances |-> Down]
  /\ starts = 0
  /\ disturbed = {}
  /\ overlapped = FALSE
  /\ faults = 0

Becomes(p, next) == instance' = [instance EXCEPT ![p] = next]

Serves(p) == Becomes(p, [pc |-> "up", url |-> instance[p].url])

Registering == {p \in Instances : instance[p].pc \in {"list", "work"}}

Overlaps == overlapped' = (overlapped \/ Registering # {})

\* A call of p failed, or worked.
Notes(p, result) ==
  /\ disturbed' = IF result = "ok" THEN disturbed ELSE disturbed \union {p}
  /\ UNCHANGED overlapped

-----------------------------------------------------------------------------
(* RegisterWebhooks.                                                       *)

\* An instance without a URL registers nothing.
StartWithoutUrl(p) ==
  /\ instance[p] = Down
  /\ starts < MaxStarts
  /\ starts' = starts + 1
  /\ Becomes(p, [pc |-> "up", url |-> NoUrl])
  /\ UNCHANGED <<webhooks, issued, disturbed, overlapped, faults>>

\* An instance disturbs those that have started before, and is disturbed by those
\* that are still registering.
Start(p, url) ==
  /\ instance[p] = Down
  /\ starts < MaxStarts
  /\ starts' = starts + 1
  /\ Becomes(p, [pc |-> "list", url |-> url])
  /\ disturbed' = IF Registering = {} THEN Instances \ {p} ELSE Instances
  /\ Overlaps
  /\ UNCHANGED <<webhooks, issued, faults>>

\* listWebhooks. Without the list nothing is registered.
ListWebhooks(p) ==
  /\ instance[p].pc = "list"
  /\ \E result \in {"ok", "error"} :
       /\ Ends("list", result)
       /\ Notes(p, result)
       /\ IF result = "error" THEN Serves(p)
          ELSE Becomes(p, [pc |-> "work", url |-> instance[p].url, left |-> webhooks,
                           registered |-> {}])
  /\ UNCHANGED <<webhooks, issued, starts>>

\* Mutant: the event of a subscription that is there is not noted.
ForgetsEvent(p, h, found) == Becomes(p, [instance[p] EXCEPT !.left = @ \ {h}])

\* p has considered h, which was for `found` of the desired events.
Considers(p, h, found) ==
  Becomes(p, [instance[p] EXCEPT !.left = @ \ {h}, !.registered = @ \union found])

\* Mutant: the event is noted without asking whether it is a desired one.
KeepAnyWebhook(p) ==
  /\ instance[p].pc = "work"
  /\ \E h \in instance[p].left : h.url = instance[p].url /\ Considers(p, h, {h.event})
  /\ UNCHANGED <<webhooks, issued, starts, disturbed, overlapped, faults>>

\* A subscription of the instance's own URL stays.
KeepWebhook(p) ==
  /\ instance[p].pc = "work"
  /\ \E h \in instance[p].left :
       /\ h.url = instance[p].url
       /\ Considers(p, h, {h.event} \intersect desiredEvents)
  /\ UNCHANGED <<webhooks, issued, starts, disturbed, overlapped, faults>>

\* One of another URL stays if it is for another event, and is stale else.
KeepForeignWebhook(p) ==
  /\ instance[p].pc = "work"
  /\ \E h \in instance[p].left :
       /\ h.url # instance[p].url
       /\ h.event \notin desiredEvents
       /\ Considers(p, h, {})
  /\ UNCHANGED <<webhooks, issued, starts, disturbed, overlapped, faults>>

\* Mutant: a subscription of another URL is left alone.
LeaveStaleWebhook(p) ==
  /\ instance[p].pc = "work"
  /\ \E h \in instance[p].left :
       /\ h.url # instance[p].url
       /\ h.event \in desiredEvents
       /\ Considers(p, h, {})
  /\ UNCHANGED <<webhooks, issued, starts, disturbed, overlapped, faults>>

DeleteStaleWebhook(p) ==
  /\ instance[p].pc = "work"
  /\ \E h \in instance[p].left, result \in Results :
       /\ h.url # instance[p].url
       /\ h.event \in desiredEvents
       /\ Ends("delete", result)
       /\ Notes(p, result)
       /\ webhooks' = IF result = "error" THEN webhooks ELSE webhooks \ {h}
       /\ Considers(p, h, {})
  /\ UNCHANGED <<issued, starts>>

Missing(p) == desiredEvents \ instance[p].registered

CreateWebhook(p) ==
  /\ instance[p].pc = "work"
  /\ instance[p].left = {}
  /\ \E event \in Missing(p), result \in Results, id \in Ids \ issued :
       /\ Ends("create", result)
       /\ Notes(p, result)
       /\ IF result = "error" THEN UNCHANGED <<webhooks, issued>>
          ELSE /\ webhooks' = webhooks \union
                                {[id |-> id, event |-> event, url |-> instance[p].url]}
               /\ issued' = issued \union {id}
       /\ Becomes(p, [instance[p] EXCEPT !.registered = @ \union {event}])
  /\ UNCHANGED starts

FinishRegistration(p) ==
  /\ instance[p].pc = "work"
  /\ instance[p].left = {}
  /\ Missing(p) = {}
  /\ Serves(p)
  /\ UNCHANGED <<webhooks, issued, starts, disturbed, overlapped, faults>>

\* The instance is stopped or crashes, in the middle of a call or not.
Stop(p) ==
  /\ instance[p] # Down
  /\ Becomes(p, Down)
  /\ UNCHANGED <<webhooks, issued, starts, disturbed, overlapped, faults>>

-----------------------------------------------------------------------------
(* The shop, which may subscribe to other events and may have subscribed   *)
(* other URLs by hand, as the README has it.                               *)

ShopSubscribes(event, url) ==
  /\ \A h \in webhooks : h.event = event => h.url # url
  /\ \E id \in Ids \ issued :
       /\ webhooks' = webhooks \union {[id |-> id, event |-> event, url |-> url]}
       /\ issued' = issued \union {id}
  /\ disturbed' = Instances
  /\ Overlaps
  /\ UNCHANGED <<instance, starts, faults>>

-----------------------------------------------------------------------------
Register(p) ==
  \/ ListWebhooks(p) \/ KeepWebhook(p) \/ KeepForeignWebhook(p) \/ DeleteStaleWebhook(p)
  \/ CreateWebhook(p) \/ FinishRegistration(p)

Next ==
  \/ \E p \in Instances : StartWithoutUrl(p) \/ Register(p) \/ Stop(p)
  \/ \E p \in Instances, url \in Urls : Start(p, url)
  \/ \E event \in desiredEvents \union OtherEvents, url \in Urls :
       ShopSubscribes(event, url)

Spec == Init /\ [][Next]_vars

-----------------------------------------------------------------------------
(* What must hold.                                                         *)

\* An instance that came up without an error, and has been alone since its start, is
\* notified of both outcomes of payments, and no other URL is: whatever its
\* predecessors, stopped or failing half-way, and the shop have left behind
\* ("registers the URLs of webhooks, deletes stale webhooks", RegisterWebhooks).
RegistrationIsComplete ==
  \A p \in Instances :
    (instance[p].pc = "up" /\ instance[p].url \in Urls /\ p \notin disturbed)
    => \A event \in desiredEvents :
         {h.url : h \in {g \in webhooks : g.event = event}} = {instance[p].url}

\* As long as instances register one after the other, restarts, errors and lost
\* answers never pile up subscriptions, which would have every payment notified more
\* than once ("webhook already registered", RegisterWebhooks).
NoDuplicates ==
  ~overlapped =>
    \A h, g \in webhooks : h.event = g.event /\ h.url = g.url => h = g
=============================================================================
