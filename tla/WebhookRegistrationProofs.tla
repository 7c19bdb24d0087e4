----------------------- MODULE WebhookRegistrationProofs -----------------------
(***************************************************************************)
(* Theorems about WebhookRegistration, for any number of instances, URLs,  *)
(* subscriptions, starts and errors.                                       *)
(***************************************************************************)
EXTENDS WebhookRegistration, TLAPS

-----------------------------------------------------------------------------
(* Type correctness.                                                       *)

\* How a call ends never takes the fault counter out of its range.
LEMMA EndsCounts ==
  ASSUME faults \in 0..MaxFaults, NEW step, NEW result, Ends(step, result)
  PROVE  faults' \in 0..MaxFaults
BY BoundAssumption DEF Ends, Fault

\* An instance that goes on to one of the states leaves all of them in these states.
LEMMA BecomesStays ==
  ASSUME TypeOK, NEW p \in Instances, NEW next \in InstanceStates, Becomes(p, next)
  PROVE  instance' \in [Instances -> InstanceStates]
BY DEF TypeOK, Becomes

\* An instance that goes on is in its new state, and no other one moves.
LEMMA BecomesOnly ==
  ASSUME TypeOK, NEW p \in Instances, NEW next, Becomes(p, next)
  PROVE  /\ instance'[p] = next
         /\ \A q \in Instances : q # p => instance'[q] = instance[q]
BY DEF TypeOK, Becomes

\* Instances are told by where they are.
LEMMA Kinds ==
  ASSUME TypeOK, NEW p \in Instances
  PROVE  /\ instance[p].pc = "list" => instance[p] \in Listing
         /\ instance[p].pc = "work" => instance[p] \in Working
         /\ instance[p].pc = "up" => instance[p] \in Serving
<1>1. instance[p] \in InstanceStates
  BY DEF TypeOK
<1>2. QED
  BY <1>1 DEF InstanceStates, Down, Listing, Working, Serving

\* A registration goes on.
LEMMA ConsidersStays ==
  ASSUME TypeOK, NEW p \in Instances, instance[p].pc = "work", NEW h,
         NEW found \in SUBSET desiredEvents, Considers(p, h, found)
  PROVE  instance' \in [Instances -> InstanceStates]
<1>1. instance[p] \in Working
  BY Kinds
<1>2. [instance[p] EXCEPT !.left = @ \ {h}, !.registered = @ \union found] \in Working
  BY <1>1 DEF Working
<1>3. QED
  BY <1>2, BecomesStays DEF Considers, InstanceStates

\* A registration ends.
LEMMA ServesStays ==
  ASSUME TypeOK, NEW p \in Instances, instance[p].pc \in {"list", "work"}, Serves(p)
  PROVE  instance' \in [Instances -> InstanceStates]
<1>1. instance[p].url \in Urls
  BY Kinds DEF Listing, Working
<1>2. [pc |-> "up", url |-> instance[p].url] \in Serving
  BY <1>1 DEF Serving
<1>3. QED
  BY <1>2, BecomesStays DEF Serves, InstanceStates

\* Every step of a registration keeps the types.
LEMMA RegisterTypes ==
  ASSUME TypeOK, NEW p \in Instances, Register(p)
  PROVE  TypeOK'
<1>n. ASSUME NEW result, Notes(p, result)
      PROVE  disturbed' \subseteq Instances /\ overlapped' \in BOOLEAN
  BY <1>n DEF TypeOK, Notes
<1>1. CASE ListWebhooks(p)
  <2>1. PICK result \in {"ok", "error"} :
          /\ Ends("list", result)
          /\ Notes(p, result)
          /\ IF result = "error" THEN Serves(p)
             ELSE Becomes(p, [pc |-> "work", url |-> instance[p].url, left |-> webhooks,
                              registered |-> {}])
    BY <1>1 DEF ListWebhooks
  <2>2. instance[p].pc = "list" /\ instance[p].url \in Urls
    BY <1>1, Kinds DEF ListWebhooks, Listing
  <2>3. [pc |-> "work", url |-> instance[p].url, left |-> webhooks, registered |-> {}]
          \in InstanceStates
    BY <2>2 DEF TypeOK, InstanceStates, Working
  <2>4. instance' \in [Instances -> InstanceStates]
    BY <2>1, <2>2, <2>3, ServesStays, BecomesStays
  <2>5. faults' \in 0..MaxFaults
    BY <2>1, EndsCounts DEF TypeOK
  <2>6. QED
    BY <1>1, <1>n, <2>1, <2>4, <2>5 DEF ListWebhooks, TypeOK
<1>2. CASE KeepWebhook(p)
  <2>1. instance' \in [Instances -> InstanceStates]
    BY <1>2, ConsidersStays DEF KeepWebhook
  <2>2. QED
    BY <1>2, <2>1 DEF KeepWebhook, TypeOK
<1>3. CASE KeepForeignWebhook(p)
  <2>1. instance' \in [Instances -> InstanceStates]
    BY <1>3, ConsidersStays DEF KeepForeignWebhook
  <2>2. QED
    BY <1>3, <2>1 DEF KeepForeignWebhook, TypeOK
<1>4. CASE DeleteStaleWebhook(p)
  <2>1. PICK h \in instance[p].left, result \in Results :
          /\ Ends("delete", result)
          /\ Notes(p, result)
          /\ webhooks' = IF result = "error" THEN webhooks ELSE webhooks \ {h}
          /\ Considers(p, h, {})
    BY <1>4 DEF DeleteStaleWebhook
  <2>2. instance' \in [Instances -> InstanceStates]
    BY <1>4, <2>1, ConsidersStays DEF DeleteStaleWebhook
  <2>3. faults' \in 0..MaxFaults
    BY <2>1, EndsCounts DEF TypeOK
  <2>4. QED
    BY <1>4, <1>n, <2>1, <2>2, <2>3 DEF DeleteStaleWebhook, TypeOK
<1>5. CASE CreateWebhook(p)
  <2>1. PICK event \in Missing(p), result \in Results, id \in Ids \ issued :
          /\ Ends("create", result)
          /\ Notes(p, result)
          /\ IF result = "error" THEN UNCHANGED <<webhooks, issued>>
             ELSE /\ webhooks' = webhooks \union
                                   {[id |-> id, event |-> event, url |-> instance[p].url]}
                  /\ issued' = issued \union {id}
          /\ Becomes(p, [instance[p] EXCEPT !.registered = @ \union {event}])
    BY <1>5 DEF CreateWebhook
  <2>2. instance[p] \in Working
    BY <1>5, Kinds DEF CreateWebhook
  <2>3. event \in desiredEvents
    BY <2>1 DEF Missing
  <2>4. [id |-> id, event |-> event, url |-> instance[p].url] \in Webhook
    BY <2>2, <2>3 DEF Working, Webhook
  <2>5. [instance[p] EXCEPT !.registered = @ \union {event}] \in Working
    BY <2>2, <2>3 DEF Working
  <2>6. instance' \in [Instances -> InstanceStates]
    BY <2>1, <2>5, BecomesStays DEF InstanceStates
  <2>7. faults' \in 0..MaxFaults
    BY <2>1, EndsCounts DEF TypeOK
  <2>8. webhooks' \subseteq Webhook /\ issued' \subseteq Ids
    BY <2>1, <2>4 DEF TypeOK
  <2>9. QED
    BY <1>5, <1>n, <2>1, <2>6, <2>7, <2>8 DEF CreateWebhook, TypeOK
<1>6. CASE FinishRegistration(p)
  <2>1. instance' \in [Instances -> InstanceStates]
    BY <1>6, ServesStays DEF FinishRegistration
  <2>2. QED
    BY <1>6, <2>1 DEF FinishRegistration, TypeOK
<1>7. QED
  BY <1>1, <1>2, <1>3, <1>4, <1>5, <1>6 DEF Register

\* Every step keeps the types.
LEMMA TypePreserved == TypeOK /\ [Next]_vars => TypeOK'
<1> SUFFICES ASSUME TypeOK, [Next]_vars PROVE TypeOK'
  OBVIOUS
<1>o. Overlaps => overlapped' \in BOOLEAN
  BY DEF TypeOK, Overlaps
<1>1. CASE UNCHANGED vars
  BY <1>1 DEF TypeOK, vars
<1>2. ASSUME NEW p \in Instances, StartWithoutUrl(p)
      PROVE  TypeOK'
  <2>1. [pc |-> "up", url |-> NoUrl] \in InstanceStates
    BY DEF InstanceStates, Serving
  <2>2. instance' \in [Instances -> InstanceStates]
    BY <1>2, <2>1, BecomesStays DEF StartWithoutUrl
  <2>3. starts' \in 0..MaxStarts
    BY <1>2, BoundAssumption DEF StartWithoutUrl, TypeOK
  <2>4. QED
    BY <1>2, <2>2, <2>3 DEF StartWithoutUrl, TypeOK
<1>3. ASSUME NEW p \in Instances, NEW url \in Urls, Start(p, url)
      PROVE  TypeOK'
  <2>1. [pc |-> "list", url |-> url] \in InstanceStates
    BY DEF InstanceStates, Listing
  <2>2. instance' \in [Instances -> InstanceStates]
    BY <1>3, <2>1, BecomesStays DEF Start
  <2>3. starts' \in 0..MaxStarts
    BY <1>3, BoundAssumption DEF Start, TypeOK
  <2>4. QED
    BY <1>3, <1>o, <2>2, <2>3 DEF Start, TypeOK
<1>4. ASSUME NEW p \in Instances, Stop(p)
      PROVE  TypeOK'
  <2>1. instance' \in [Instances -> InstanceStates]
    BY <1>4, BecomesStays DEF Stop, InstanceStates
  <2>2. QED
    BY <1>4, <2>1 DEF Stop, TypeOK
<1>5. ASSUME NEW event \in desiredEvents \union OtherEvents, NEW url \in Urls,
             ShopSubscribes(event, url)
      PROVE  TypeOK'
  <2>1. PICK id \in Ids \ issued :
          /\ webhooks' = webhooks \union {[id |-> id, event |-> event, url |-> url]}
          /\ issued' = issued \union {id}
    BY <1>5 DEF ShopSubscribes
  <2>2. [id |-> id, event |-> event, url |-> url] \in Webhook
    BY DEF Webhook
  <2>3. QED
    BY <1>5, <1>o, <2>1, <2>2 DEF ShopSubscribes, TypeOK
<1>6. QED
  BY <1>1, <1>2, <1>3, <1>4, <1>5, RegisterTypes DEF Next

\* The variables keep their types, for any number of instances, starts and errors.
THEOREM TypeCorrect == Spec => []TypeOK
<1>1. Init => TypeOK
  <2>1. 0 \in 0..MaxStarts /\ 0 \in 0..MaxFaults
    BY BoundAssumption
  <2>2. Down \in InstanceStates
    BY DEF InstanceStates
  <2>3. QED
    BY <2>1, <2>2 DEF Init, TypeOK
<1>2. QED
  BY <1>1, TypePreserved, PTL DEF Spec

-----------------------------------------------------------------------------
(* Registration is complete.                                               *)

\* The instances whose registration nothing has interfered with.
Undisturbed ==
  {p \in Instances \ disturbed : instance[p] # Down /\ instance[p].url \in Urls}

\* An undisturbed instance registers alone: none else does until it is stopped.
Alone == \A p \in Undisturbed : Registering \subseteq {p}

\* How far an undisturbed instance has come: every stale subscription is one it has
\* still to consider, and every event it has noted is registered.
Advances ==
  \A p \in Undisturbed : instance[p].pc = "work" =>
    /\ instance[p].left \subseteq webhooks
    /\ \A h \in webhooks : h.event \in desiredEvents /\ h.url # instance[p].url
                           => h \in instance[p].left
    /\ \A event \in instance[p].registered :
         \E h \in webhooks : h.event = event /\ h.url = instance[p].url

\* The inductive invariant of RegistrationIsComplete.
Completing == Alone /\ Advances /\ RegistrationIsComplete

\* A step of p that leaves p disturbed, or down, and the others as they were, keeps
\* Completing if nobody else is undisturbed.
LEMMA CompletingAlone ==
  ASSUME TypeOK, NEW p \in Instances, Undisturbed' \subseteq {p},
         Registering' \subseteq Registering \union {p},
         p \in Undisturbed' =>
           /\ Registering' \subseteq {p}
           /\ instance'[p].pc = "work" =>
                /\ instance'[p].left \subseteq webhooks'
                /\ \A h \in webhooks' :
                     h.event \in desiredEvents /\ h.url # instance'[p].url
                     => h \in instance'[p].left
                /\ \A event \in instance'[p].registered :
                     \E h \in webhooks' : h.event = event /\ h.url = instance'[p].url
           /\ (instance'[p].pc = "up" /\ instance'[p].url \in Urls) =>
                \A event \in desiredEvents :
                  {h.url : h \in {g \in webhooks' : g.event = event}} = {instance'[p].url}
  PROVE  Completing'
<1>1. Alone' /\ Advances'
  BY DEF Alone, Advances
<1>2. RegistrationIsComplete'
  BY DEF RegistrationIsComplete, Undisturbed, Down
<1>3. QED
  BY <1>1, <1>2 DEF Completing

\* A step of an instance that is not, or no longer, undisturbed and not registering,
\* takes nothing from the others.
LEMMA CompletingApart ==
  ASSUME TypeOK, Completing, NEW p \in Instances, NEW next, Becomes(p, next),
         next = Down \/ next = [pc |-> "up", url |-> NoUrl],
         UNCHANGED <<webhooks, disturbed>>
  PROVE  Completing'
<1>1. instance'[p] = next /\ \A q \in Instances : q # p => instance'[q] = instance[q]
  BY BecomesOnly
<1>2. next.pc \notin {"list", "work"}
  BY DEF Down
<1>3. Registering' \subseteq Registering
  BY <1>1, <1>2 DEF Registering
<1>4. p \notin Undisturbed'
  BY <1>1, UrlAssumption DEF Undisturbed
<1>5. \A q \in Undisturbed' : q # p /\ q \in Undisturbed /\ instance'[q] = instance[q]
  BY <1>1, <1>4 DEF Undisturbed
<1>6. Alone'
  BY <1>3, <1>5 DEF Alone, Completing
<1>7. Advances'
  BY <1>5 DEF Advances, Completing
<1>8. RegistrationIsComplete'
  BY <1>1, <1>2, UrlAssumption DEF RegistrationIsComplete, Completing, Down
<1>9. QED
  BY <1>6, <1>7, <1>8 DEF Completing

\* Every step of a registration keeps Completing.
LEMMA CompletingRegister ==
  ASSUME TypeOK, Completing, NEW p \in Instances, Register(p)
  PROVE  Completing'
<1>1. instance[p].pc \in {"list", "work"}
  BY DEF Register, ListWebhooks, KeepWebhook, KeepForeignWebhook, DeleteStaleWebhook,
         CreateWebhook, FinishRegistration
<1>2. p \in Registering
  BY <1>1 DEF Registering
<1>3. disturbed \subseteq disturbed' /\ \E next : Becomes(p, next)
  BY DEF Register, ListWebhooks, KeepWebhook, KeepForeignWebhook, DeleteStaleWebhook,
         CreateWebhook, FinishRegistration, Notes, Considers, Serves
<1>4. \A q \in Instances : q # p => instance'[q] = instance[q]
  BY <1>3, BecomesOnly
<1>5. Undisturbed' \subseteq {p}
  <2>1. ASSUME NEW q \in Undisturbed', q # p
        PROVE  FALSE
    <3>1. q \in Undisturbed
      BY <2>1, <1>3, <1>4 DEF Undisturbed
    <3>2. QED
      BY <3>1, <2>1, <1>2 DEF Completing, Alone
  <2>2. QED
    BY <2>1
<1>6. Registering' \subseteq Registering
  BY <1>2, <1>4 DEF Registering
<1>7. CASE p \notin Undisturbed'
  BY <1>5, <1>6, <1>7, CompletingAlone
<1>8. CASE p \in Undisturbed'
  <2>0. p \in Undisturbed
    <3>1. instance[p].url \in Urls /\ instance[p] # Down
      BY <1>1, Kinds DEF Listing, Working, Down
    <3>2. QED
      BY <3>1, <1>3, <1>8 DEF Undisturbed
  <2>1. Registering' \subseteq {p} /\ p \notin disturbed' /\ p \notin disturbed
    BY <2>0, <1>6, <1>8 DEF Completing, Alone, Undisturbed
  \* What is left of Completing' to prove.
  <2> DEFINE Working1 ==
        instance'[p].pc = "work" =>
          /\ instance'[p].left \subseteq webhooks'
          /\ \A h \in webhooks' :
               h.event \in desiredEvents /\ h.url # instance'[p].url
               => h \in instance'[p].left
          /\ \A event \in instance'[p].registered :
               \E h \in webhooks' : h.event = event /\ h.url = instance'[p].url
  <2> DEFINE Complete1 ==
        (instance'[p].pc = "up" /\ instance'[p].url \in Urls) =>
          \A event \in desiredEvents :
            {h.url : h \in {g \in webhooks' : g.event = event}} = {instance'[p].url}
  <2> SUFFICES Working1 /\ Complete1
    BY <2>1, <1>5, <1>6, CompletingAlone
  <2>w. instance[p].pc = "work" =>
          /\ instance[p] \in Working
          /\ instance[p].left \subseteq webhooks
          /\ \A h \in webhooks : h.event \in desiredEvents /\ h.url # instance[p].url
                                 => h \in instance[p].left
          /\ \A event \in instance[p].registered :
               \E h \in webhooks : h.event = event /\ h.url = instance[p].url
    BY <2>0, Kinds DEF Completing, Advances
  \* A call that failed would have disturbed p.
  <2>n. ASSUME NEW result, Notes(p, result)
        PROVE  result = "ok"
    BY <2>n, <2>1 DEF Notes
  <2>c. ASSUME instance[p].pc = "work", NEW h, NEW found, Considers(p, h, found)
        PROVE  /\ instance'[p].pc = "work"
               /\ instance'[p].url = instance[p].url
               /\ instance'[p].left = instance[p].left \ {h}
               /\ instance'[p].registered = instance[p].registered \union found
    <3>1. instance'[p] = [instance[p] EXCEPT !.left = @ \ {h},
                                             !.registered = @ \union found]
      BY <2>c, BecomesOnly DEF Considers
    <3>2. QED
      BY <3>1, <2>c, <2>w DEF Working
  <2>2. CASE ListWebhooks(p)
    <3>1. PICK result \in {"ok", "error"} :
            /\ Notes(p, result)
            /\ IF result = "error" THEN Serves(p)
               ELSE Becomes(p, [pc |-> "work", url |-> instance[p].url, left |-> webhooks,
                                registered |-> {}])
      BY <2>2 DEF ListWebhooks
    <3>2. instance'[p] = [pc |-> "work", url |-> instance[p].url, left |-> webhooks,
                          registered |-> {}]
      BY <3>1, <2>n, BecomesOnly
    <3>3. webhooks' = webhooks
      BY <2>2 DEF ListWebhooks
    <3>4. QED
      BY <3>2, <3>3
  <2>3. CASE KeepWebhook(p)
    <3>1. PICK h \in instance[p].left :
            h.url = instance[p].url /\ Considers(p, h, {h.event} \intersect desiredEvents)
      BY <2>3 DEF KeepWebhook
    <3>2. instance[p].pc = "work" /\ webhooks' = webhooks
      BY <2>3 DEF KeepWebhook
    <3>3. h \in webhooks
      BY <3>1, <3>2, <2>w
    <3>4. QED
      BY <3>1, <3>2, <3>3, <2>c, <2>w
  <2>4. CASE KeepForeignWebhook(p)
    <3>1. PICK h \in instance[p].left :
            h.event \notin desiredEvents /\ Considers(p, h, {})
      BY <2>4 DEF KeepForeignWebhook
    <3>2. instance[p].pc = "work" /\ webhooks' = webhooks
      BY <2>4 DEF KeepForeignWebhook
    <3>3. QED
      BY <3>1, <3>2, <2>c, <2>w
  <2>5. CASE DeleteStaleWebhook(p)
    <3>1. PICK h \in instance[p].left, result \in Results :
            /\ h.url # instance[p].url
            /\ Notes(p, result)
            /\ webhooks' = IF result = "error" THEN webhooks ELSE webhooks \ {h}
            /\ Considers(p, h, {})
      BY <2>5 DEF DeleteStaleWebhook
    <3>2. instance[p].pc = "work" /\ webhooks' = webhooks \ {h}
      BY <2>5, <3>1, <2>n DEF DeleteStaleWebhook
    <3>3. /\ instance'[p].pc = "work"
          /\ instance'[p].url = instance[p].url
          /\ instance'[p].left = instance[p].left \ {h}
          /\ instance'[p].registered = instance[p].registered \union {}
      BY <3>1, <3>2, <2>c
    <3>4. instance'[p].left \subseteq webhooks'
      BY <3>2, <3>3, <2>w
    <3>5. ASSUME NEW event \in instance[p].registered
          PROVE  \E g \in webhooks' : g.event = event /\ g.url = instance[p].url
      BY <3>1, <3>2, <2>w
    <3>6. QED
      BY <3>2, <3>3, <3>4, <3>5, <2>w
  <2>6. CASE CreateWebhook(p)
    <3>1. PICK event \in Missing(p), result \in Results, id \in Ids \ issued :
            /\ Notes(p, result)
            /\ IF result = "error" THEN UNCHANGED <<webhooks, issued>>
               ELSE webhooks' = webhooks \union
                      {[id |-> id, event |-> event, url |-> instance[p].url]}
            /\ Becomes(p, [instance[p] EXCEPT !.registered = @ \union {event}])
      BY <2>6 DEF CreateWebhook
    <3> DEFINE new == [id |-> id, event |-> event, url |-> instance[p].url]
    <3>2. instance[p].pc = "work" /\ instance[p].left = {}
          /\ webhooks' = webhooks \union {new}
      BY <2>6, <3>1, <2>n DEF CreateWebhook
    <3>3. instance'[p] = [instance[p] EXCEPT !.registered = @ \union {event}]
      BY <3>1, BecomesOnly
    <3>4. /\ instance'[p].pc = "work"
          /\ instance'[p].url = instance[p].url
          /\ instance'[p].left = {}
          /\ instance'[p].registered = instance[p].registered \union {event}
      BY <3>2, <3>3, <2>w DEF Working
    <3>5. new.event = event /\ new.url = instance[p].url /\ new \in webhooks'
      BY <3>2
    <3>6. \A h \in webhooks' : ~(h.event \in desiredEvents /\ h.url # instance[p].url)
      BY <3>2, <3>5, <2>w
    <3>7. ASSUME NEW e \in instance[p].registered \union {event}
          PROVE  \E h \in webhooks' : h.event = e /\ h.url = instance[p].url
      BY <3>2, <3>5, <2>w
    <3> HIDE DEF new
    <3>8. QED
      BY <3>4, <3>6, <3>7
  <2>7. CASE FinishRegistration(p)
    <3>1. instance[p].pc = "work" /\ instance[p].left = {} /\ Missing(p) = {}
          /\ webhooks' = webhooks
      BY <2>7 DEF FinishRegistration
    <3>2. instance'[p] = [pc |-> "up", url |-> instance[p].url]
      BY <2>7, BecomesOnly DEF FinishRegistration, Serves
    <3>3. ASSUME NEW event \in desiredEvents
          PROVE  {h.url : h \in {g \in webhooks : g.event = event}} = {instance[p].url}
      <4>1. event \in instance[p].registered
        BY <3>1 DEF Missing
      <4>2. \E h \in webhooks : h.event = event /\ h.url = instance[p].url
        BY <4>1, <3>1, <2>w
      <4>3. \A h \in webhooks : h.event = event => h.url = instance[p].url
        BY <3>1, <2>w
      <4>4. QED
        BY <4>2, <4>3
    <3>4. QED
      BY <3>1, <3>2, <3>3
  <2>8. QED
    BY <2>2, <2>3, <2>4, <2>5, <2>6, <2>7 DEF Register
<1>9. QED
  BY <1>7, <1>8

\* Every step keeps Completing.
LEMMA CompletingPreserved == TypeOK /\ Completing /\ [Next]_vars => Completing'
<1> SUFFICES ASSUME TypeOK, Completing, [Next]_vars PROVE Completing'
  OBVIOUS
<1>1. CASE UNCHANGED vars
  BY <1>1 DEF Completing, Alone, Advances, RegistrationIsComplete, Undisturbed,
              Registering, vars
<1>2. ASSUME NEW p \in Instances, StartWithoutUrl(p)
      PROVE  Completing'
  BY <1>2, CompletingApart DEF StartWithoutUrl
<1>3. ASSUME NEW p \in Instances, NEW url \in Urls, Start(p, url)
      PROVE  Completing'
  <2>1. instance'[p] = [pc |-> "list", url |-> url]
        /\ \A q \in Instances : q # p => instance'[q] = instance[q]
    BY <1>3, BecomesOnly DEF Start
  <2>2. Registering' = Registering \union {p}
    BY <2>1 DEF Registering
  <2>3. Undisturbed' \subseteq {p}
    BY <1>3 DEF Start, Undisturbed
  <2>4. p \in Undisturbed' => Registering' \subseteq {p}
    BY <1>3, <2>2 DEF Start, Undisturbed
  <2>5. QED
    BY <2>1, <2>2, <2>3, <2>4, CompletingAlone
<1>4. ASSUME NEW p \in Instances, Stop(p)
      PROVE  Completing'
  BY <1>4, CompletingApart DEF Stop
<1>5. ASSUME NEW event, NEW url, ShopSubscribes(event, url)
      PROVE  Completing'
  <2>1. Undisturbed' = {} /\ disturbed' = Instances
    BY <1>5 DEF ShopSubscribes, Undisturbed
  <2>2. QED
    BY <2>1 DEF Completing, Alone, Advances, RegistrationIsComplete
<1>6. QED
  BY <1>1, <1>2, <1>3, <1>4, <1>5, CompletingRegister DEF Next

\* Whatever was subscribed before, an instance that registers without an error and
\* alone ends with exactly its own URL subscribed for every desired event, and it
\* stays so until something else interferes (RegisterWebhooks).
THEOREM RegistrationCompletes == Spec => []RegistrationIsComplete
<1>1. Init => Completing
  BY DEF Init, Completing, Alone, Advances, RegistrationIsComplete, Undisturbed, Down
<1>2. Completing => RegistrationIsComplete
  BY DEF Completing
<1>3. QED
  BY <1>1, <1>2, CompletingPreserved, TypeCorrect, PTL DEF Spec

-----------------------------------------------------------------------------
(* No subscription is made twice.                                          *)

\* What a registration knows: a subscription of its URL is one it has noted, or has
\* still to consider.
Knows(p) ==
  instance[p].pc = "work" =>
    \A h \in webhooks : h.event \in desiredEvents /\ h.url = instance[p].url
                        => h \in instance[p].left \/ h.event \in instance[p].registered

\* The inductive invariant of NoDuplicates.
OneByOne ==
  ~overlapped => /\ \A p, q \in Registering : p = q
                 /\ \A p \in Registering : Knows(p)
                 /\ NoDuplicates

\* Every step of a registration keeps OneByOne.
LEMMA OneByOneRegister ==
  ASSUME TypeOK, OneByOne, NEW p \in Instances, Register(p)
  PROVE  OneByOne'
<1>1. p \in Registering
  BY DEF Register, ListWebhooks, KeepWebhook, KeepForeignWebhook, DeleteStaleWebhook,
         CreateWebhook, FinishRegistration, Registering
<1>2. UNCHANGED overlapped /\ \E next : Becomes(p, next)
  BY DEF Register, ListWebhooks, KeepWebhook, KeepForeignWebhook, DeleteStaleWebhook,
         CreateWebhook, FinishRegistration, Notes, Considers, Serves
<1>3. SUFFICES ASSUME ~overlapped
               PROVE  /\ \A q, r \in Registering' : q = r
                      /\ \A q \in Registering' : Knows(q)'
                      /\ NoDuplicates'
  BY <1>2 DEF OneByOne
<1>4. Registering' \subseteq {p}
  <2>1. \A q \in Instances : q # p => instance'[q] = instance[q]
    BY <1>2, BecomesOnly
  <2>2. Registering = {p}
    BY <1>1, <1>3 DEF OneByOne
  <2>3. QED
    BY <2>1, <2>2 DEF Registering
<1>5. SUFFICES Knows(p)' /\ NoDuplicates'
  BY <1>4
<1>6. Knows(p) /\ NoDuplicates
  BY <1>1, <1>3 DEF OneByOne
<1>d. webhooks' \subseteq webhooks => NoDuplicates'
  BY <1>2, <1>3, <1>6 DEF NoDuplicates
<1>w. instance[p].pc = "work" => instance[p] \in Working
  BY Kinds
<1>c. ASSUME instance[p].pc = "work", NEW h, NEW found, Considers(p, h, found)
      PROVE  /\ instance'[p].url = instance[p].url
             /\ instance'[p].left = instance[p].left \ {h}
             /\ instance'[p].registered = instance[p].registered \union found
  <2>1. instance'[p] = [instance[p] EXCEPT !.left = @ \ {h},
                                           !.registered = @ \union found]
    BY <1>c, BecomesOnly DEF Considers
  <2>2. QED
    BY <2>1, <1>c, <1>w DEF Working
<1>7. CASE ListWebhooks(p)
  <2>1. \/ Serves(p)
        \/ Becomes(p, [pc |-> "work", url |-> instance[p].url, left |-> webhooks,
                       registered |-> {}])
    BY <1>7 DEF ListWebhooks
  <2>2. \/ instance'[p] = [pc |-> "up", url |-> instance[p].url]
        \/ instance'[p] = [pc |-> "work", url |-> instance[p].url, left |-> webhooks,
                           registered |-> {}]
    BY <2>1, BecomesOnly DEF Serves
  <2>3. webhooks' = webhooks
    BY <1>7 DEF ListWebhooks
  <2>4. QED
    BY <2>2, <2>3, <1>d DEF Knows
<1>8. CASE KeepWebhook(p)
  <2>1. PICK h \in instance[p].left : Considers(p, h, {h.event} \intersect desiredEvents)
    BY <1>8 DEF KeepWebhook
  <2>2. instance[p].pc = "work" /\ webhooks' = webhooks
    BY <1>8 DEF KeepWebhook
  <2>3. QED
    BY <2>1, <2>2, <1>c, <1>d, <1>6 DEF Knows
<1>9. CASE KeepForeignWebhook(p)
  <2>1. PICK h \in instance[p].left :
          h.url # instance[p].url /\ Considers(p, h, {})
    BY <1>9 DEF KeepForeignWebhook
  <2>2. instance[p].pc = "work" /\ webhooks' = webhooks
    BY <1>9 DEF KeepForeignWebhook
  <2>3. QED
    BY <2>1, <2>2, <1>c, <1>d, <1>6 DEF Knows
<1>10. CASE DeleteStaleWebhook(p)
  <2>1. PICK h \in instance[p].left :
          h.url # instance[p].url /\ Considers(p, h, {})
    BY <1>10 DEF DeleteStaleWebhook
  <2>2. instance[p].pc = "work" /\ webhooks' \subseteq webhooks
    BY <1>10 DEF DeleteStaleWebhook
  <2>3. QED
    BY <2>1, <2>2, <1>c, <1>d, <1>6 DEF Knows
<1>11. CASE CreateWebhook(p)
  <2>1. PICK event \in Missing(p), result \in Results, id \in Ids \ issued :
          /\ IF result = "error" THEN UNCHANGED <<webhooks, issued>>
             ELSE webhooks' = webhooks \union
                    {[id |-> id, event |-> event, url |-> instance[p].url]}
          /\ Becomes(p, [instance[p] EXCEPT !.registered = @ \union {event}])
    BY <1>11 DEF CreateWebhook
  <2> DEFINE new == [id |-> id, event |-> event, url |-> instance[p].url]
  <2>2. instance[p].pc = "work" /\ instance[p].left = {}
    BY <1>11 DEF CreateWebhook
  <2>3. instance'[p] = [instance[p] EXCEPT !.registered = @ \union {event}]
    BY <2>1, BecomesOnly
  <2>4. /\ instance'[p].url = instance[p].url
        /\ instance'[p].registered = instance[p].registered \union {event}
    BY <2>2, <2>3, <1>w DEF Working
  <2>5. new.event = event /\ new.url = instance[p].url
    OBVIOUS
  <2>6. event \in desiredEvents /\ event \notin instance[p].registered
    BY <2>1 DEF Missing
  \* There was none: it would have been noted or be left to consider.
  <2>7. \A h \in webhooks : ~(h.event = event /\ h.url = instance[p].url)
    BY <2>2, <2>6, <1>6 DEF Knows
  <2> HIDE DEF new
  <2>8. webhooks' \subseteq webhooks \union {new}
    BY <2>1 DEF new
  <2>9. Knows(p)'
    BY <2>2, <2>4, <2>5, <2>8, <1>6 DEF Knows
  <2>10. NoDuplicates'
    BY <2>5, <2>7, <2>8, <1>2, <1>3, <1>6 DEF NoDuplicates
  <2>11. QED
    BY <2>9, <2>10
<1>12. CASE FinishRegistration(p)
  <2>1. instance'[p] = [pc |-> "up", url |-> instance[p].url] /\ webhooks' = webhooks
    BY <1>12, BecomesOnly DEF FinishRegistration, Serves
  <2>2. QED
    BY <2>1, <1>d DEF Knows
<1>13. QED
  BY <1>7, <1>8, <1>9, <1>10, <1>11, <1>12 DEF Register

\* Every step keeps OneByOne.
LEMMA OneByOnePreserved == TypeOK /\ OneByOne /\ [Next]_vars => OneByOne'
<1> SUFFICES ASSUME TypeOK, OneByOne, [Next]_vars PROVE OneByOne'
  OBVIOUS
<1>1. CASE UNCHANGED vars
  BY <1>1 DEF OneByOne, Knows, NoDuplicates, Registering, vars
<1>2. ASSUME NEW p \in Instances, StartWithoutUrl(p) \/ Stop(p)
      PROVE  OneByOne'
  <2>1. PICK next : Becomes(p, next) /\ next.pc \notin {"list", "work"}
    BY <1>2 DEF StartWithoutUrl, Stop, Down
  <2>2. UNCHANGED <<webhooks, overlapped>>
    BY <1>2 DEF StartWithoutUrl, Stop
  <2>3. \A q \in Registering' : q \in Registering /\ instance'[q] = instance[q]
    BY <2>1, BecomesOnly DEF Registering
  <2>4. QED
    BY <2>2, <2>3 DEF OneByOne, Knows, NoDuplicates
<1>3. ASSUME NEW p \in Instances, NEW url \in Urls, Start(p, url)
      PROVE  OneByOne'
  <2>1. SUFFICES ASSUME ~overlapped, Registering = {}
                 PROVE  OneByOne'
    BY <1>3 DEF Start, Overlaps, OneByOne
  <2>2. instance'[p] = [pc |-> "list", url |-> url]
        /\ \A q \in Instances : q # p => instance'[q] = instance[q]
    BY <1>3, BecomesOnly DEF Start
  <2>3. Registering' = {p} /\ Knows(p)'
    BY <2>1, <2>2 DEF Registering, Knows
  <2>4. NoDuplicates'
    BY <1>3, <2>1 DEF Start, OneByOne, NoDuplicates
  <2>5. QED
    BY <2>3, <2>4 DEF OneByOne
<1>4. ASSUME NEW event, NEW url, ShopSubscribes(event, url)
      PROVE  OneByOne'
  <2>1. SUFFICES ASSUME ~overlapped, Registering = {}
                 PROVE  OneByOne'
    BY <1>4 DEF ShopSubscribes, Overlaps, OneByOne
  <2>2. PICK id \in Ids \ issued :
          webhooks' = webhooks \union {[id |-> id, event |-> event, url |-> url]}
    BY <1>4 DEF ShopSubscribes
  <2>3. Registering' = {}
    BY <1>4, <2>1 DEF ShopSubscribes, Registering
  <2>4. \A h \in webhooks : ~(h.event = event /\ h.url = url)
    BY <1>4 DEF ShopSubscribes
  <2>5. NoDuplicates'
    BY <2>1, <2>2, <2>4 DEF OneByOne, NoDuplicates
  <2>6. QED
    BY <2>3, <2>5 DEF OneByOne
<1>5. QED
  BY <1>1, <1>2, <1>3, <1>4, OneByOneRegister DEF Next

\* Instances that register one after the other never subscribe a URL twice to an event,
\* however often they are restarted and whichever answers are lost (RegisterWebhooks).
THEOREM NothingIsSubscribedTwice == Spec => []NoDuplicates
<1>1. Init => OneByOne
  BY DEF Init, OneByOne, NoDuplicates, Knows, Registering, Down
<1>2. OneByOne => NoDuplicates
  BY DEF OneByOne, NoDuplicates
<1>3. QED
  BY <1>1, <1>2, OneByOnePreserved, TypeCorrect, PTL DEF Spec
=============================================================================
