----------------------------- MODULE AccountsProofs -----------------------------
(***************************************************************************)
(* Theorems about Accounts, for any number of emails, clients, secrets,    *)
(* requests, tries and faults.                                             *)
(***************************************************************************)
EXTENDS Accounts, TLAPS

-----------------------------------------------------------------------------
(* What a step does to the database.                                       *)

\* The effect of a call, or none.
Done(q) == UNCHANGED database \/ (~UserExists(q) /\ Serve(q))

\* Whoever has an account keeps it.
Kept == \A e \in Emails : accounts[e] # Nobody => accounts'[e] = accounts[e]

\* A call changes the database as it may: it takes no account away, a
\* registration leaves its own, and only the administrators' calls are counted.
LEMMA DoneKeeps ==
  ASSUME TypeOK, NEW q \in RequestRecords, Done(q)
  PROVE  /\ accounts' \in [Emails -> Clients \union {Nobody}]
         /\ {e \in Emails : accounts[e] # Nobody} \subseteq {e \in Emails : accounts'[e] # Nobody}
         /\ secret' = secret
         /\ changes' \in [Clicks -> Nat]
         /\ Kept
         /\ \A n \in Clicks : \/ changes'[n] = changes[n]
                              \/ n = q.click /\ q.call \in AdminRoutes
<1>1. CASE UNCHANGED database
  BY <1>1 DEF TypeOK, database, Kept
<1>2. CASE ~UserExists(q) /\ RegisterNewUser(q)
  BY <1>2, ClientAssumption DEF TypeOK, UserExists, RegisterNewUser, SaveUser, RequestRecords, Kept
<1>3. CASE AddSneaker(q) \/ UpdateProductImage(q)
  BY <1>3 DEF TypeOK, AddSneaker, UpdateProductImage, RequestRecords, AdminRoutes, Kept
<1>4. QED
  BY <1>1, <1>2, <1>3 DEF Done, Serve

\* A registration that is done leaves the account with its client.
LEMMA RegisteredKeeps ==
  ASSUME TypeOK, NEW q \in RequestRecords, q.call = "register", Serve(q)
  PROVE  accounts'[q.email] = q.client
BY DEF TypeOK, Serve, RegisterNewUser, SaveUser, AddSneaker, UpdateProductImage, RequestRecords

\* How a call ends never takes the fault counter out of its range.
LEMMA EndsCounts ==
  ASSUME faults \in 0..MaxFaults, NEW step, NEW result, Ends(step, result)
  PROVE  faults' \in 0..MaxFaults
BY FaultAssumption DEF Ends, Fault

\* A request that is at work is one of the records.
LEMMA AtWork ==
  ASSUME TypeOK, NEW r \in Requests, request[r] # Idle
  PROVE  request[r] \in RequestRecords
BY DEF TypeOK

\* Idle is not one of them, and NoToken is no token.
LEMMA IdleIsApart == Idle \notin RequestRecords /\ NoToken \notin Tokens
BY CallAssumption DEF Idle, RequestRecords, RequestSteps, Steps, Writes, AdminRoutes, NoToken, Tokens, Clicks

\* The tries of a call that changes something.
LEMMA SendCases ==
  ASSUME TypeOK, NEW r \in Requests, request[r] # Idle, Send(r)
  PROVE  /\ \/ Becomes(r, [request[r] EXCEPT !.pc = "answer", !.result = "error"])
            \/ /\ Becomes(r, [request[r] EXCEPT !.pc = "answer", !.result = "ok"])
               /\ Serve(request[r])
            \/ /\ Becomes(r, [request[r] EXCEPT !.tries = @ + 1])
               /\ request[r].tries < Tries
         /\ Done(request[r])
         /\ late' \subseteq late \union {request[r]}
         /\ faults' \in 0..MaxFaults
         /\ Unmoved
         /\ UNCHANGED history
<1>1. Unmoved /\ UNCHANGED history
  BY DEF Send
<1>2. CASE UserExists(request[r])
  BY <1>1, <1>2 DEF Send, Answer, Done, TypeOK
<1>3. CASE ~UserExists(request[r])
  <2>1. Try(r, request[r].pc, Serve(request[r]), UNCHANGED database,
            LAMBDA result : Answer(r, result))
    BY <1>3 DEF Send
  <2>2. ASSUME NEW result \in Results,
               /\ Ends(request[r].pc, result)
               /\ IF result = "error" THEN UNCHANGED database ELSE Serve(request[r])
               /\ Answer(r, IF result = "ok" THEN "ok" ELSE "error")
               /\ UNCHANGED late
        PROVE  /\ \/ Becomes(r, [request[r] EXCEPT !.pc = "answer", !.result = "error"])
                  \/ /\ Becomes(r, [request[r] EXCEPT !.pc = "answer", !.result = "ok"])
                     /\ Serve(request[r])
               /\ Done(request[r])
               /\ faults' \in 0..MaxFaults
    BY <1>3, <2>2, EndsCounts DEF Done, Answer, TypeOK
  <2>3. CASE \E result \in Results :
               /\ Ends(request[r].pc, result)
               /\ IF result = "error" THEN UNCHANGED database ELSE Serve(request[r])
               /\ Answer(r, IF result = "ok" THEN "ok" ELSE "error")
               /\ UNCHANGED late
    BY <1>1, <2>2, <2>3
  <2>4. CASE /\ Fault
             /\ \/ Serve(request[r]) /\ UNCHANGED late
                \/ UNCHANGED database /\ UNCHANGED late
                \/ UNCHANGED database /\ late' = late \union {request[r]}
             /\ IF TriesAgain(r) THEN Becomes(r, [request[r] EXCEPT !.tries = @ + 1])
                ELSE Answer(r, "error")
    <3>1. faults' \in 0..MaxFaults
      BY <2>4, FaultAssumption DEF Fault, TypeOK
    <3>2. Done(request[r]) /\ late' \subseteq late \union {request[r]}
      BY <1>3, <2>4 DEF Done
    <3>3. CASE TriesAgain(r)
      BY <1>1, <2>4, <3>1, <3>2, <3>3 DEF TriesAgain
    <3>4. CASE ~TriesAgain(r)
      BY <1>1, <2>4, <3>1, <3>2, <3>4 DEF Answer
    <3>5. QED
      BY <3>3, <3>4
  <2>5. QED
    BY <2>1, <2>3, <2>4 DEF Try, GivesUp
<1>4. QED
  BY <1>2, <1>3

-----------------------------------------------------------------------------
(* Type correctness.                                                       *)

LEMMA BecomesTypes ==
  ASSUME TypeOK, NEW r \in Requests, NEW next \in RequestRecords \union {Idle}, Becomes(r, next)
  PROVE  request' \in [Requests -> RequestRecords \union {Idle}]
BY DEF TypeOK, Becomes

\* The state predicates that a step of a request leaves to the request alone.
LEMMA StepTypes ==
  ASSUME TypeOK, Unmoved, UNCHANGED <<created, served, vouched>>,
         NEW q \in RequestRecords, Done(q),
         request' \in [Requests -> RequestRecords \union {Idle}],
         late' \subseteq late \/ (q.call \in Writes /\ late' \subseteq late \union {q}),
         lasting' \subseteq Clicks, faults' \in 0..MaxFaults
  PROVE  TypeOK'
<1>1. accounts' \in [Emails -> Clients \union {Nobody}] /\ changes' \in [Clicks -> Nat]
      /\ {e \in Emails : accounts[e] # Nobody} \subseteq {e \in Emails : accounts'[e] # Nobody}
      /\ secret' = secret
  BY DoneKeeps
<1>2. admins' \subseteq {e \in Emails : accounts'[e] # Nobody}
  BY <1>1 DEF TypeOK, Unmoved
<1>3. late' \subseteq RequestRecords /\ \A x \in late' : x.call \in Writes
  BY DEF TypeOK
<1>4. QED
  BY <1>1, <1>2, <1>3 DEF TypeOK, Unmoved

\* How a record goes on.
LEMMA RecordsGoOn ==
  ASSUME NEW q \in RequestRecords
  PROVE  /\ \A pc \in RequestSteps : [q EXCEPT !.pc = pc] \in RequestRecords
         /\ \A result \in {"ok", "error"} :
              [q EXCEPT !.pc = "answer", !.result = result] \in RequestRecords
         /\ q.tries < Tries => [q EXCEPT !.tries = @ + 1] \in RequestRecords
         /\ \A k \in Tokens : [q EXCEPT !.pc = "answer", !.bearer = k] \in RequestRecords
         /\ \A pc \in RequestSteps, e \in Emails :
              [q EXCEPT !.pc = pc, !.email = e] \in RequestRecords
         /\ \A mine \in SUBSET Emails :
              [q EXCEPT !.pc = "answer", !.rows = mine] \in RequestRecords
<1>1. "answer" \in RequestSteps
  BY DEF RequestSteps
<1>2. q.tries < Tries => q.tries + 1 \in 1..Tries
  BY TriesAssumption DEF RequestRecords
<1>3. QED
  BY <1>1, <1>2 DEF RequestRecords

LEMMA SendTypes ==
  ASSUME TypeOK, NEW r \in Requests, request[r] # Idle, Send(r), request[r].call \in Writes
  PROVE  TypeOK'
<1>1. request[r] \in RequestRecords
  BY AtWork
<1>2. request' \in [Requests -> RequestRecords \union {Idle}]
  BY <1>1, SendCases, RecordsGoOn, BecomesTypes
<1>3. QED
  BY <1>1, <1>2, SendCases, StepTypes DEF history, TypeOK

\* The token of a login that is right.
LEMMA LoginTypes ==
  ASSUME TypeOK, NEW q \in RequestRecords, NEW result
  PROVE  LoginResponse(q, result) \in Tokens \union {NoToken}
BY DEF TypeOK, LoginResponse, Login, NewToken, App, Tokens, RequestRecords

\* A read ends with a record, and counts its fault.
LEMMA AnswerTypes ==
  ASSUME TypeOK, NEW r \in Requests, request[r] # Idle, NEW result \in {"ok", "error"},
         Answer(r, result)
  PROVE  request' \in [Requests -> RequestRecords \union {Idle}]
BY AtWork, RecordsGoOn, BecomesTypes DEF Answer

\* A new request of any kind.
LEMMA SentTypes ==
  ASSUME TypeOK, NEW r \in Requests, NEW op \in Operations, NEW c \in Clients, NEW e \in Emails,
         NEW pc \in RequestSteps, NEW bearer \in Tokens \union {NoToken},
         Sent(r, op, c, e, pc, bearer), vouched' \subseteq Clicks
  PROVE  TypeOK'
<1>1. calls + 1 \in Clicks /\ calls' \in 0..MaxCalls
  BY CallAssumption DEF Sent, Starts, TypeOK, Clicks
<1>2. [call |-> op, client |-> c, click |-> calls + 1, email |-> e, about |-> e,
       pc |-> pc, tries |-> 1, bearer |-> bearer, rows |-> {}, result |-> "ok"] \in RequestRecords
  BY <1>1, TriesAssumption DEF RequestRecords
<1>3. request' \in [Requests -> RequestRecords \union {Idle}]
  BY <1>2, BecomesTypes DEF Sent
<1>4. QED
  BY <1>1, <1>3 DEF Sent, TypeOK, database
\* A read of one of the routes.
LEMMA ReadsTypes ==
  ASSUME TypeOK, NEW r \in Requests, NEW route, NEW mine \in SUBSET Emails, Reads(r, route, mine)
  PROVE  TypeOK'
<1>1. request[r] # Idle
  BY DEF Reads, At
<1>2. PICK result \in {"ok", "error"} :
        /\ Ends("read", result)
        /\ IF result = "ok" /\ mine # {}
           THEN Becomes(r, [request[r] EXCEPT !.pc = "answer", !.rows = mine])
           ELSE Answer(r, "error")
  BY DEF Reads, Read
<1>3. request' \in [Requests -> RequestRecords \union {Idle}]
  BY <1>1, <1>2, AtWork, RecordsGoOn, BecomesTypes, AnswerTypes
<1>4. faults' \in 0..MaxFaults
  BY <1>2, EndsCounts DEF TypeOK
<1>5. QED
  BY <1>3, <1>4 DEF Reads, TypeOK, Unmoved, database, history

\* Every step of a request keeps the types.
LEMMA RequestTypes ==
  ASSUME TypeOK, NEW r \in Requests, Step(r)
  PROVE  TypeOK'
<1>a. \A e \in Emails : /\ CartOf(GetCart(e)) \in SUBSET Emails
                        /\ FavouritesOf(GetFavourites(e)) \in SUBSET Emails
                        /\ IsFavouriteOf(IsFavourite(e)) \in SUBSET Emails
                        /\ OrdersOf(GetUserOrders(e)) \in SUBSET Emails
  BY DEF CartOf, GetCart, CartInterceptor, FavouritesOf, GetFavourites, FavouritesInterceptor,
         IsFavouriteOf, IsFavourite, OrdersOf, GetUserOrders, UserIDFromContext, RowsOfUser
<1>b. request[r] # Idle => request[r].email \in Emails /\ request[r] \in RequestRecords
  BY AtWork DEF RequestRecords
<1>1. CASE CallRegister(r) \/ CallAddSneaker(r) \/ CallUpdateProductImage(r)
  BY <1>1, SendTypes DEF CallRegister, CallAddSneaker, CallUpdateProductImage, At, Writes, AdminRoutes
<1>2. CASE CallLogin(r)
  <2>1. PICK result \in {"ok", "error"} :
          /\ Ends("login", result)
          /\ IF LoginResponse(request[r], result) # NoToken
             THEN /\ Becomes(r, [request[r] EXCEPT !.pc = "answer",
                                   !.bearer = LoginResponse(request[r], result)])
                  /\ lasting' = IF synced /\ started.sso = started.gateway
                                THEN lasting \union {request[r].click} ELSE lasting
             ELSE Answer(r, "error") /\ UNCHANGED lasting
    BY <1>2 DEF CallLogin, Read
  <2>2. request[r] # Idle /\ request[r].click \in Clicks
    BY <1>2, <1>b DEF CallLogin, At, RequestRecords
  <2>3. request' \in [Requests -> RequestRecords \union {Idle}]
    BY <1>b, <2>1, <2>2, LoginTypes, RecordsGoOn, BecomesTypes, AnswerTypes
  <2>4. lasting' \subseteq Clicks
    BY <2>1, <2>2 DEF TypeOK
  <2>5. faults' \in 0..MaxFaults
    BY <2>1, EndsCounts DEF TypeOK
  <2>6. QED
    BY <1>2, <2>3, <2>4, <2>5 DEF CallLogin, TypeOK, Unmoved, database
<1>3. CASE Authenticate(r)
  <2>1. request[r] # Idle
    BY <1>3 DEF Authenticate, Idle
  <2>2. CASE IsValid(request[r].bearer)
    <3>1. request[r].bearer.email \in Emails
      BY <1>b, <2>1, <2>2 DEF IsValid, RequestRecords, Tokens
    <3>2. request' \in [Requests -> RequestRecords \union {Idle}]
      BY <1>3, <1>b, <2>1, <2>2, <3>1, RecordsGoOn, BecomesTypes
         DEF Authenticate, RequestSteps, Steps, Writes, AdminRoutes
    <3>3. QED
      BY <1>3, <3>2 DEF Authenticate, TypeOK, Unmoved, database, history
  <2>3. CASE ~IsValid(request[r].bearer)
    <3>1. request' \in [Requests -> RequestRecords \union {Idle}]
      BY <1>3, <2>1, <2>3, AnswerTypes DEF Authenticate
    <3>2. QED
      BY <1>3, <3>1 DEF Authenticate, TypeOK, Unmoved, database, history
  <2>4. QED
    BY <2>2, <2>3
<1>4. CASE CheckAdmin(r)
  <2>1. PICK result \in {"ok", "error"} :
          /\ Ends("admin", result)
          /\ IF IsAdminResponse(request[r].email, result)
             THEN Goes(r, request[r].call) ELSE Answer(r, "error")
    BY <1>4 DEF CheckAdmin, Read
  <2>2. request[r] # Idle /\ request[r].call \in RequestSteps
    BY <1>4 DEF CheckAdmin, At, RequestSteps, Steps, Writes, AdminRoutes
  <2>3. request' \in [Requests -> RequestRecords \union {Idle}]
    BY <1>b, <2>1, <2>2, RecordsGoOn, BecomesTypes, AnswerTypes DEF Goes
  <2>4. faults' \in 0..MaxFaults
    BY <2>1, EndsCounts DEF TypeOK
  <2>5. QED
    BY <1>4, <2>3, <2>4 DEF CheckAdmin, TypeOK, Unmoved, database, history
<1>5. CASE CallGetCart(r) \/ CallGetFavourites(r) \/ CallIsFavourite(r) \/ CallGetUserOrders(r)
  BY <1>5, <1>a, <1>b, ReadsTypes
     DEF CallGetCart, CallGetFavourites, CallIsFavourite, CallGetUserOrders, Reads, At
<1>6. CASE CallGetOrder(r)
  <2>1. OrderOf(GetOrder(request[r].about)) \intersect {request[r].email} \in SUBSET Emails
    BY <1>6, <1>b DEF CallGetOrder, Reads, At
  <2>2. QED
    BY <1>6, <2>1, ReadsTypes DEF CallGetOrder
<1>7. CASE RegisterAnswered(r) \/ LoginAnswered(r) \/ VisitAnswered(r) \/ ProductAnswered(r)
  <2>1. request[r] \in RequestRecords
    BY <1>7, <1>b DEF RegisterAnswered, LoginAnswered, VisitAnswered, ProductAnswered, Answered, At
  <2>2. request' \in [Requests -> RequestRecords \union {Idle}]
    BY <1>7, BecomesTypes
       DEF RegisterAnswered, LoginAnswered, VisitAnswered, ProductAnswered, Answered, Return
  <2>3. CASE RegisterAnswered(r)
    BY <2>1, <2>2, <2>3 DEF RegisterAnswered, Answered, TypeOK, RequestRecords, database
  <2>4. CASE LoginAnswered(r)
    BY <2>1, <2>2, <2>4 DEF LoginAnswered, Answered, TypeOK, RequestRecords, database
  <2>5. CASE VisitAnswered(r)
    BY <2>1, <2>2, <2>5 DEF VisitAnswered, Answered, TypeOK, RequestRecords, database
  <2>6. CASE ProductAnswered(r)
    BY <2>1, <2>2, <2>6 DEF ProductAnswered, Answered, TypeOK, RequestRecords, database
  <2>7. QED
    BY <1>7, <2>3, <2>4, <2>5, <2>6
<1>8. QED
  BY <1>1, <1>2, <1>3, <1>4, <1>5, <1>6, <1>7 DEF Step
LEMMA CutTypes ==
  ASSUME TypeOK, NEW r \in Requests, Cut(r)
  PROVE  /\ TypeOK'
         /\ request[r] \in RequestRecords
         /\ Done(request[r])
         /\ \/ late' \subseteq late
            \/ /\ request[r].call \in Writes /\ request[r].pc = request[r].call
               /\ late' \subseteq late \union {request[r]}
<1>1. request[r] \in RequestRecords
  BY AtWork DEF Cut
<1>2. Done(request[r])
  BY DEF Cut, Done
<1>3. \/ late' \subseteq late
      \/ /\ request[r].call \in Writes /\ request[r].pc = request[r].call
         /\ late' \subseteq late \union {request[r]}
  BY DEF Cut
<1>4. request' \in [Requests -> RequestRecords \union {Idle}]
  BY AnswerTypes DEF Cut
<1>5. faults' \in 0..MaxFaults
  BY FaultAssumption DEF Cut, Fault, TypeOK
<1>6. QED
  BY <1>1, <1>2, <1>3, <1>4, <1>5, StepTypes DEF Cut, history, TypeOK

LEMMA TakeEffectTypes ==
  ASSUME TypeOK, NEW q \in late, TakeEffect(q)
  PROVE  TypeOK' /\ q \in RequestRecords /\ Done(q) /\ late' \subseteq late
<1>1. q \in RequestRecords
  BY DEF TypeOK
<1>2. Done(q)
  BY DEF TakeEffect, Done
<1>3. late' \subseteq late
  BY DEF TakeEffect
<1>4. QED
  BY <1>1, <1>2, <1>3, StepTypes DEF TakeEffect, history, TypeOK

\* Every step keeps the types.
LEMMA TypesStay ==
  ASSUME TypeOK, [Next]_vars
  PROVE  TypeOK'
<1>1. ASSUME NEW r \in Requests, NEW c \in Clients, Request(r, c)
      PROVE  TypeOK'
  <2>2. token[c] # NoToken => token[c] \in Tokens /\ token[c].email \in Emails
    BY DEF TypeOK, Tokens
  <2>3. ASSUME NEW e \in Emails, PostRegister(r, c, e) \/ PostLogin(r, c, e)
        PROVE  TypeOK'
    <3>1. vouched' \subseteq Clicks
      BY <2>3 DEF PostRegister, PostLogin, TypeOK
    <3>2. QED
      BY <2>3, <3>1, SentTypes
         DEF PostRegister, PostLogin, Operations, RequestSteps, Steps, Writes
  <2>4. ASSUME NEW route \in Routes, NEW e \in Emails, Visit(r, c, route, e)
        PROVE  TypeOK'
    <3>1. vouched' \subseteq Clicks
      BY <2>4 DEF Visit, TypeOK
    <3>2. QED
      BY <2>2, <2>4, <3>1, SentTypes DEF Visit, Operations, RequestSteps
  <2>5. ASSUME NEW route \in AdminRoutes, PostProduct(r, c, route)
        PROVE  TypeOK'
    <3>1. calls + 1 \in Clicks
      BY <2>5, CallAssumption DEF PostProduct, Sent, Starts, TypeOK, Clicks
    <3>2. vouched' \subseteq Clicks
      BY <2>5, <3>1 DEF PostProduct, TypeOK
    <3>3. QED
      BY <2>2, <2>5, <3>2, SentTypes DEF PostProduct, Operations, RequestSteps
  <2>6. QED
    BY <1>1, <2>3, <2>4, <2>5 DEF Request
<1>2. ASSUME NEW r \in Requests, Step(r) \/ Cut(r)
      PROVE  TypeOK'
  BY <1>2, RequestTypes, CutTypes
<1>3. ASSUME NEW q \in late, TakeEffect(q)
      PROVE  TypeOK'
  BY <1>3, TakeEffectTypes
<1>4. ASSUME NEW s \in Secrets \union {Unset}, StartSso(s)
      PROVE  TypeOK'
  <2>1. faults' \in 0..MaxFaults
    BY <1>4, FaultAssumption DEF StartSso, Fault, TypeOK
  <2>2. secret' \in Secrets \union {Generated} /\ synced' \in BOOLEAN
    BY <1>4 DEF StartSso, UpdateAppSecret, TypeOK
  <2>3. started' \in [sso : Secrets \union {Unset}, gateway : Secrets]
    BY <1>4 DEF StartSso, TypeOK
  <2>4. QED
    BY <1>4, <2>1, <2>2, <2>3 DEF StartSso, TypeOK, history
<1>5. ASSUME NEW s \in Secrets, StartGateway(s)
      PROVE  TypeOK'
  BY <1>5, FaultAssumption DEF StartGateway, Fault, TypeOK, database
<1>6. ASSUME NEW e \in Emails, NEW yes \in BOOLEAN, SetAdmin(e, yes)
      PROVE  TypeOK'
  BY <1>6 DEF SetAdmin, TypeOK, database
<1>7. ASSUME NEW n \in Clicks, TokenExpires(n)
      PROVE  TypeOK'
  BY <1>7 DEF TokenExpires, TypeOK, database, history
<1>8. CASE UNCHANGED vars
  BY <1>8 DEF vars, database, history, TypeOK
<1>9. QED
  BY <1>1, <1>2, <1>3, <1>4, <1>5, <1>6, <1>7, <1>8 DEF Next

LEMMA TypesStart ==
  ASSUME Init
  PROVE  TypeOK
<1>1. PICK s \in Secrets : /\ started = [sso |-> s, gateway |-> s]
                           /\ \/ synced = TRUE /\ secret = s
                              \/ synced = FALSE /\ secret = Generated
  BY DEF Init
<1>2. started \in [sso : Secrets \union {Unset}, gateway : Secrets]
  BY <1>1
<1>3. secret \in Secrets \union {Generated} /\ synced \in BOOLEAN
  BY <1>1
<1>4. QED
  BY <1>2, <1>3, CallAssumption, FaultAssumption DEF Init, TypeOK

\* The variables stay in their ranges: a call is tried no more than Tries times.
THEOREM TypesHold == Spec => []TypeOK
BY TypesStart, TypesStay, PTL DEF Spec
-----------------------------------------------------------------------------
(* The inductive invariant.                                                *)

\* A token that client c holds is for an account of its own, comes from a login
\* of the past, and is signed for the gateway when the login is to last.
GoodToken(k, c) ==
  /\ accounts[k.email] = c
  /\ k.click <= calls
  /\ k.click \in lasting => k.secret = started.gateway

\* The steps behind AuthMiddleware.
Authenticated == AdminRoutes \union {"admin", "read"}

\* What is known of a request at work.
GoodRequest(q) ==
  /\ q.click <= calls
  /\ q.bearer # NoToken => GoodToken(q.bearer, q.client)
  /\ q.pc = "login" => q.click \notin lasting
  /\ q.pc \in Authenticated => q.bearer # NoToken /\ q.email = q.bearer.email
  /\ q.call = "register" /\ q.pc = "answer" /\ q.result = "ok" => accounts[q.email] = q.client
  /\ \A e \in q.rows : accounts[e] = q.client
  /\ q.call \in AdminRoutes /\ q.bearer # NoToken /\ q.bearer.email \in admins => q.click \in vouched
  /\ q.pc \in AdminRoutes => q.click \in vouched

GoodRequests == \A r \in Requests : request[r] # Idle => GoodRequest(request[r])

\* Each request has a number of its own.
Numbered ==
  \A r, s \in Requests :
    r # s /\ request[r] # Idle /\ request[s] # Idle => request[r].click # request[s].click

\* No token has the number of a login in progress.
LoginsAreNew ==
  \A r \in Requests :
    request[r] # Idle /\ request[r].pc = "login" =>
      /\ \A c \in Clients : token[c] # NoToken => token[c].click # request[r].click
      /\ \A s \in Requests :
           request[s] # Idle /\ request[s].bearer # NoToken =>
             request[s].bearer.click # request[r].click

GoodTokens == \A c \in Clients : token[c] # NoToken => GoodToken(token[c], c)

\* The tries of administrators that were given up are vouched for.
LateIsVouched == \A q \in late : q.call \in AdminRoutes => q.click \in vouched

\* The secret that the sso service has written is its own, and logins that are to
\* last are of the past.
Secure == (synced => secret = started.sso) /\ lasting \subseteq 1..calls

Promises == AccountsAreKept /\ OwnDataOnly /\ AdminsChange

Inv ==
  /\ TypeOK
  /\ GoodRequests
  /\ Numbered
  /\ LoginsAreNew
  /\ GoodTokens
  /\ LateIsVouched
  /\ Secure
  /\ Promises
-----------------------------------------------------------------------------
(* What the steps of others leave as it is.                                *)

\* Nothing happens that what is known of tokens and requests depends on, except
\* that the login with number n may be noted as one that is to last.
Steady(n) ==
  /\ Kept
  /\ admins' \subseteq admins
  /\ vouched \subseteq vouched'
  /\ calls <= calls'
  /\ lasting' \subseteq lasting \union {n}
  /\ started'.gateway = started.gateway \/ lasting' = {}

LEMMA TokenStays ==
  ASSUME TypeOK, TypeOK', NEW n, Steady(n), NEW k \in Tokens, NEW c \in Clients,
         GoodToken(k, c), k.click # n
  PROVE  GoodToken(k, c)'
<1>1. accounts'[k.email] = c
  BY ClientAssumption DEF Steady, Kept, GoodToken, Tokens
<1>2. k.click <= calls'
  BY CallAssumption DEF Steady, GoodToken, Tokens, TypeOK, Clicks
<1>3. k.click \in lasting' => k.secret = started'.gateway
  BY DEF Steady, GoodToken
<1>4. QED
  BY <1>1, <1>2, <1>3 DEF GoodToken

LEMMA RequestStays ==
  ASSUME TypeOK, TypeOK', NEW n, Steady(n), NEW q \in RequestRecords, GoodRequest(q),
         q.pc = "login" => q.click # n,
         q.bearer # NoToken => q.bearer.click # n
  PROVE  GoodRequest(q)'
<1>1. q.client \in Clients /\ q.bearer \in Tokens \union {NoToken} /\ q.click \in Clicks
      /\ q.email \in Emails /\ q.rows \subseteq Emails
  BY DEF RequestRecords
<1>2. q.bearer # NoToken => GoodToken(q.bearer, q.client)'
  BY <1>1, TokenStays DEF GoodRequest
<1>3. q.click <= calls'
  BY <1>1, CallAssumption DEF Steady, GoodRequest, TypeOK, Clicks
<1>4. \A e \in Emails : accounts[e] = q.client => accounts'[e] = q.client
  BY <1>1, ClientAssumption DEF Steady, Kept
<1>5. q.pc = "login" => q.click \notin lasting'
  BY DEF Steady, GoodRequest
<1>6. QED
  BY <1>1, <1>2, <1>3, <1>4, <1>5 DEF Steady, GoodRequest

\* The tokens, and what was told and sent to the clients, while the login with
\* number n may be noted.
LEMMA WorldStays ==
  ASSUME Inv, TypeOK', NEW n, Steady(n), UNCHANGED <<token, created, served>>,
         \A c \in Clients : token[c] # NoToken => token[c].click # n,
         \A m \in Clicks : changes'[m] = changes[m] \/ m \in vouched'
  PROVE  GoodTokens' /\ Promises'
<1>1. TypeOK
  BY DEF Inv
<1>2. GoodTokens'
  <2>1. SUFFICES ASSUME NEW c \in Clients, (token[c] # NoToken)'
                 PROVE  GoodToken(token[c], c)'
    BY DEF GoodTokens
  <2>2. PICK k : k = token[c]
    OBVIOUS
  <2>3. token'[c] = k /\ k \in Tokens /\ GoodToken(k, c) /\ k.click # n
    BY <1>1, <2>1, <2>2 DEF Inv, GoodTokens, TypeOK
  <2>4. GoodToken(k, c)'
    BY <1>1, <2>3, TokenStays
  <2>5. QED
    BY <2>3, <2>4 DEF GoodToken
<1>3. AccountsAreKept'
  BY <1>1, ClientAssumption DEF Inv, Promises, AccountsAreKept, Steady, Kept, TypeOK
<1>4. OwnDataOnly'
  BY <1>1, ClientAssumption DEF Inv, Promises, OwnDataOnly, Steady, Kept, TypeOK
<1>5. AdminsChange'
  BY <1>1 DEF Inv, Promises, AdminsChange, Steady
<1>6. QED
  BY <1>2, <1>3, <1>4, <1>5 DEF Promises

\* One request goes on or ends, the others stay where they are.
LEMMA OthersStay ==
  ASSUME Inv, TypeOK', NEW n, Steady(n), NEW r \in Requests, NEW next, Becomes(r, next),
         next = Idle \/ GoodRequest(next)',
         \A s \in Requests \ {r} : request[s] # Idle =>
           /\ request[s].pc = "login" => request[s].click # n
           /\ request[s].bearer # NoToken => request[s].bearer.click # n
  PROVE  GoodRequests'
<1>1. TypeOK
  BY DEF Inv
<1>2. SUFFICES ASSUME NEW s \in Requests, (request[s] # Idle)'
               PROVE  GoodRequest(request[s])'
  BY DEF GoodRequests
<1>3. CASE s = r
  <2>1. request'[s] = next
    BY <1>1, <1>3 DEF Becomes, TypeOK
  <2>2. GoodRequest(next)'
    BY <1>2, <2>1
  <2>3. QED
    BY <2>1, <2>2 DEF GoodRequest, GoodToken
<1>4. CASE s # r
  <2>1. PICK q : q = request[s]
    OBVIOUS
  <2>2. request'[s] = q
    BY <1>1, <1>4, <2>1 DEF Becomes, TypeOK
  <2>3. q \in RequestRecords /\ GoodRequest(q)
    BY <1>1, <1>2, <2>1, <2>2, AtWork DEF Inv, GoodRequests
  <2>4. /\ q.pc = "login" => q.click # n
        /\ q.bearer # NoToken => q.bearer.click # n
    BY <1>2, <1>4, <2>1, <2>2
  <2>5. GoodRequest(q)'
    BY <1>1, <2>3, <2>4, RequestStays
  <2>6. QED
    BY <2>2, <2>5 DEF GoodRequest, GoodToken
<1>5. QED
  BY <1>3, <1>4

\* A request at work goes on.
LEMMA MoveStays ==
  ASSUME Inv, TypeOK', NEW r \in Requests, request[r] # Idle, NEW next \in RequestRecords,
         Becomes(r, next), GoodRequest(next)',
         next.click = request[r].click, next.pc # "login",
         next.bearer = request[r].bearer \/ next.bearer.click = next.click,
         NEW n, Steady(n), n = 0 \/ (n = next.click /\ request[r].pc = "login"),
         UNCHANGED <<token, created, served, secret, synced, started, calls>>,
         \A m \in Clicks : changes'[m] = changes[m] \/ m \in vouched',
         \A q \in late' : q \in late \/ (q.call \in AdminRoutes => q.click \in vouched)
  PROVE  Inv'
<1>1. TypeOK /\ Numbered /\ LoginsAreNew
  BY DEF Inv
<1>2. /\ request'[r] = next
      /\ \A s \in Requests : s # r => request'[s] = request[s]
  BY <1>1 DEF Becomes, TypeOK
<1>3. request[r] \in RequestRecords
  BY <1>1, AtWork
<1>n. \A k \in Tokens : k.click # 0
  BY CallAssumption DEF Tokens, Clicks
<1>m. \A q \in RequestRecords : q.click # 0 /\ (q.bearer # NoToken => q.bearer \in Tokens)
  BY CallAssumption DEF RequestRecords, Clicks
<1>4. \A s \in Requests \ {r} : request[s] # Idle =>
         /\ request[s].pc = "login" => request[s].click # n
         /\ request[s].bearer # NoToken => request[s].bearer.click # n
  <2>1. SUFFICES ASSUME NEW s \in Requests \ {r}, request[s] # Idle
                 PROVE  /\ request[s].click # n
                        /\ request[s].bearer # NoToken => request[s].bearer.click # n
    OBVIOUS
  <2>2. request[s] \in RequestRecords
    BY <1>1, <2>1, AtWork
  <2>3. CASE n = 0
    BY <1>n, <1>m, <2>2, <2>3
  <2>4. CASE n = request[r].click /\ request[r].pc = "login"
    BY <1>1, <2>1, <2>4 DEF Numbered, LoginsAreNew
  <2>5. QED
    BY <2>3, <2>4
<1>5. \A c \in Clients : token[c] # NoToken => token[c].click # n
  <2>1. SUFFICES ASSUME NEW c \in Clients, token[c] # NoToken
                 PROVE  token[c].click # n
    OBVIOUS
  <2>2. token[c] \in Tokens
    BY <1>1, <2>1 DEF TypeOK
  <2>3. QED
    BY <1>1, <1>n, <2>1, <2>2 DEF LoginsAreNew
<1>6. GoodRequests'
  BY <1>4, OthersStay
<1>7. GoodTokens' /\ Promises'
  BY <1>5, WorldStays
<1>8. Numbered'
  BY <1>1, <1>2 DEF Numbered
<1>9. LoginsAreNew'
  <2>1. SUFFICES ASSUME NEW s \in Requests, request'[s] # Idle, request'[s].pc = "login"
                 PROVE  /\ \A c \in Clients : token[c] # NoToken => token[c].click # request'[s].click
                        /\ \A t \in Requests :
                             request'[t] # Idle /\ request'[t].bearer # NoToken =>
                               request'[t].bearer.click # request'[s].click
    BY DEF LoginsAreNew
  <2>2. s # r /\ request'[s] = request[s]
    BY <1>2, <2>1
  <2>3. \A c \in Clients : token[c] # NoToken => token[c].click # request'[s].click
    BY <1>1, <2>1, <2>2 DEF LoginsAreNew
  <2>4. ASSUME NEW t \in Requests, request'[t] # Idle, request'[t].bearer # NoToken
        PROVE  request'[t].bearer.click # request'[s].click
    <3>1. CASE t # r
      BY <1>1, <1>2, <2>1, <2>2, <2>4, <3>1 DEF LoginsAreNew
    <3>2. CASE t = r /\ next.bearer = request[r].bearer
      BY <1>1, <1>2, <2>1, <2>2, <2>4, <3>2 DEF LoginsAreNew
    <3>3. CASE t = r /\ next.bearer.click = next.click
      BY <1>1, <1>2, <2>1, <2>2, <2>4, <3>3 DEF Numbered
    <3>4. QED
      BY <3>1, <3>2, <3>3
  <2>5. QED
    BY <2>3, <2>4
<1>10. LateIsVouched'
  BY DEF Inv, LateIsVouched, Steady
<1>11. Secure'
  <2>1. 0 \notin lasting' /\ lasting \subseteq 1..calls
    BY CallAssumption DEF TypeOK, Clicks, Inv, Secure
  <2>2. GoodRequest(request[r]) /\ request[r].click \in Clicks
    BY <1>3 DEF Inv, GoodRequests, RequestRecords
  <2>3. n # 0 => n \in 1..calls
    BY <2>2, CallAssumption DEF GoodRequest, Clicks, TypeOK, Inv
  <2>4. lasting' \subseteq 1..calls
    BY <2>1, <2>3 DEF Steady
  <2>5. QED
    BY <2>4 DEF Inv, Secure
<1>12. QED
  BY <1>6, <1>7, <1>8, <1>9, <1>10, <1>11 DEF Inv
-----------------------------------------------------------------------------
(* The steps of requests.                                                  *)

\* A step that no token and no request depends on.
LEMMA QuietIsSteady ==
  ASSUME TypeOK, TypeOK', NEW q \in RequestRecords, Done(q), Unmoved,
         UNCHANGED <<vouched, lasting>>
  PROVE  Steady(0)
<1>1. Kept
  BY DoneKeeps
<1>2. QED
  BY <1>1 DEF Steady, Unmoved, TypeOK

\* A request that goes on with the same bearer, when what it is known for is still
\* known and its new step needs no more.
LEMMA GoesOn ==
  ASSUME TypeOK, TypeOK', NEW q \in RequestRecords, GoodRequest(q), Steady(0)
  PROVE  GoodRequest(q)'
<1>1. q.click # 0 /\ q.bearer \in Tokens \union {NoToken} /\ \A k \in Tokens : k.click # 0
  BY CallAssumption DEF RequestRecords, Clicks, Tokens
<1>2. QED
  BY <1>1, RequestStays

\* A registration or a call of an administrator.
LEMMA WriteStays ==
  ASSUME Inv, TypeOK', NEW r \in Requests, NEW q \in RequestRecords, q = request[r],
         q.call \in Writes, q.pc = q.call, NEW next \in RequestRecords, Becomes(r, next),
         \/ next = [q EXCEPT !.pc = "answer", !.result = "error"]
         \/ next = [q EXCEPT !.pc = "answer", !.result = "ok"] /\ Serve(q)
         \/ next = [q EXCEPT !.tries = @ + 1],
         Done(q), late' \subseteq late \union {q}, Unmoved, UNCHANGED history
  PROVE  Inv'
<1>1. TypeOK /\ q # Idle /\ GoodRequest(q)
  BY IdleIsApart DEF Inv, GoodRequests
<1>2. Steady(0)
  BY <1>1, QuietIsSteady DEF history
<1>3. GoodRequest(q)'
  BY <1>1, <1>2, GoesOn
<1>4. q.pc # "login" /\ q.pc # "answer"
  BY DEF Writes, AdminRoutes
<1>5. next.click = q.click /\ next.bearer = q.bearer /\ next.pc # "login" /\ next.call = q.call
      /\ next.email = q.email /\ next.client = q.client /\ next.rows = q.rows
      /\ next.pc \in {q.pc, "answer"}
  BY <1>4 DEF RequestRecords
<1>6. next.call = "register" /\ next.pc = "answer" /\ next.result = "ok" =>
        accounts'[next.email] = next.client
  BY <1>1, <1>4, RegisteredKeeps DEF RequestRecords
<1>7. GoodRequest(next)'
  BY <1>3, <1>5, <1>6 DEF GoodRequest, GoodToken, Authenticated, AdminRoutes
<1>8. \A m \in Clicks : changes'[m] = changes[m] \/ m \in vouched'
  BY <1>1, DoneKeeps DEF GoodRequest, history
<1>9. \A x \in late' : x \in late \/ (x.call \in AdminRoutes => x.click \in vouched)
  BY <1>1 DEF GoodRequest
<1>10. secret' = secret
  BY <1>1, DoneKeeps
<1>11. QED
  BY <1>1, <1>2, <1>5, <1>7, <1>8, <1>9, <1>10, MoveStays DEF Unmoved, history

LEMMA SendStays ==
  ASSUME Inv, TypeOK', NEW r \in Requests, request[r] # Idle, request[r].call \in Writes,
         request[r].pc = request[r].call, Send(r)
  PROVE  Inv'
<1>1. PICK q : q = request[r]
  OBVIOUS
<1>2. TypeOK /\ q \in RequestRecords
  BY <1>1, AtWork DEF Inv
<1>3. PICK next \in RequestRecords :
        /\ Becomes(r, next)
        /\ \/ next = [q EXCEPT !.pc = "answer", !.result = "error"]
           \/ next = [q EXCEPT !.pc = "answer", !.result = "ok"] /\ Serve(q)
           \/ next = [q EXCEPT !.tries = @ + 1]
  BY <1>1, <1>2, SendCases, RecordsGoOn
<1>4. Done(q) /\ late' \subseteq late \union {q} /\ Unmoved /\ UNCHANGED history
  BY <1>1, <1>2, SendCases
<1>5. QED
  BY <1>1, <1>2, <1>3, <1>4, WriteStays

\* A request that is answered with an error, when nothing else happens to it.
LEMMA ErrorStays ==
  ASSUME Inv, TypeOK', NEW r \in Requests, NEW q \in RequestRecords, q = request[r],
         Answer(r, "error"), NEW x \in RequestRecords, Done(x), Unmoved, UNCHANGED history,
         x.call \in AdminRoutes => x.click \in vouched,
         late' \subseteq late \union {x}
  PROVE  Inv'
<1>1. TypeOK /\ q # Idle /\ GoodRequest(q)
  BY IdleIsApart DEF Inv, GoodRequests
<1>2. Steady(0)
  BY <1>1, QuietIsSteady DEF history
<1>3. GoodRequest(q)'
  BY <1>1, <1>2, GoesOn
<1>4. PICK next \in RequestRecords : next = [q EXCEPT !.pc = "answer", !.result = "error"]
  BY RecordsGoOn
<1>5. next.click = q.click /\ next.bearer = q.bearer /\ next.pc = "answer" /\ next.call = q.call
      /\ next.email = q.email /\ next.client = q.client /\ next.rows = q.rows
      /\ next.result = "error"
  BY <1>4 DEF RequestRecords
<1>6. GoodRequest(next)'
  BY <1>3, <1>5 DEF GoodRequest, GoodToken, Authenticated, AdminRoutes
<1>7. \A m \in Clicks : changes'[m] = changes[m] \/ m \in vouched'
  BY <1>1, DoneKeeps DEF history
<1>8. Becomes(r, next) /\ secret' = secret
  BY <1>1, <1>4, DoneKeeps DEF Answer
<1>9. QED
  BY <1>1, <1>2, <1>5, <1>6, <1>7, <1>8, MoveStays DEF Unmoved, history
\* A request that goes on while nothing else happens.
LEMMA QuietMoveStays ==
  ASSUME Inv, TypeOK', NEW r \in Requests, NEW q \in RequestRecords, q = request[r],
         NEW next \in RequestRecords, Becomes(r, next),
         next.click = q.click, next.bearer = q.bearer, next.pc # "login",
         GoodRequest(q)' => GoodRequest(next)',
         UNCHANGED <<database, late, history>>, Unmoved
  PROVE  Inv'
<1>1. TypeOK /\ q # Idle /\ GoodRequest(q)
  BY IdleIsApart DEF Inv, GoodRequests
<1>2. Steady(0)
  BY <1>1, QuietIsSteady DEF history, Done
<1>3. GoodRequest(next)'
  BY <1>1, <1>2, GoesOn
<1>4. QED
  BY <1>1, <1>2, <1>3, MoveStays DEF Unmoved, history, database

\* A request that is answered with an error while nothing else happens.
LEMMA QuietErrorStays ==
  ASSUME Inv, TypeOK', NEW r \in Requests, NEW q \in RequestRecords, q = request[r],
         Answer(r, "error"), UNCHANGED <<database, late, history>>, Unmoved
  PROVE  Inv'
<1>1. PICK next \in RequestRecords : next = [q EXCEPT !.pc = "answer", !.result = "error"]
  BY RecordsGoOn
<1>2. Becomes(r, next)
  BY <1>1 DEF Answer
<1>3. next.click = q.click /\ next.bearer = q.bearer /\ next.pc = "answer" /\ next.call = q.call
      /\ next.client = q.client /\ next.rows = q.rows /\ next.email = q.email
      /\ next.result = "error"
  BY <1>1 DEF RequestRecords
<1>4. GoodRequest(q)' => GoodRequest(next)'
  BY <1>3 DEF GoodRequest, GoodToken, Authenticated, AdminRoutes
<1>5. QED
  BY <1>2, <1>3, <1>4, QuietMoveStays

LEMMA LoginStays ==
  ASSUME Inv, TypeOK', NEW r \in Requests, CallLogin(r)
  PROVE  Inv'
<1>1. PICK q : q = request[r]
  OBVIOUS
<1>2. TypeOK /\ q \in RequestRecords /\ q # Idle /\ GoodRequest(q)
      /\ q.call = "login" /\ q.pc = "login"
  BY <1>1, AtWork DEF Inv, GoodRequests, CallLogin, At
<1>3. PICK result \in {"ok", "error"} :
        IF LoginResponse(q, result) # NoToken
        THEN /\ Becomes(r, [q EXCEPT !.pc = "answer", !.bearer = LoginResponse(q, result)])
             /\ lasting' = IF synced /\ started.sso = started.gateway
                           THEN lasting \union {q.click} ELSE lasting
        ELSE Answer(r, "error") /\ UNCHANGED lasting
  BY <1>1 DEF CallLogin, Read
<1>4. CASE LoginResponse(q, result) = NoToken
  <2>1. Answer(r, "error") /\ UNCHANGED <<database, late, history>> /\ Unmoved
    BY <1>3, <1>4 DEF CallLogin, history
  <2>2. QED
    BY <1>1, <1>2, <2>1, QuietErrorStays
<1>5. CASE LoginResponse(q, result) # NoToken
  <2>1. PICK k \in Tokens : k = LoginResponse(q, result)
    BY <1>2, <1>5, LoginTypes
  <2>2. k.click = q.click /\ k.email = q.email /\ k.secret = secret /\ accounts[q.email] = q.client
    BY <1>5, <2>1 DEF LoginResponse, Login, NewToken, App, CredentialsMatch
  <2>3. PICK next \in RequestRecords : next = [q EXCEPT !.pc = "answer", !.bearer = k]
    BY <1>2, <2>1, RecordsGoOn
  <2>4. /\ next.click = q.click /\ next.bearer = k /\ next.pc = "answer" /\ next.call = "login"
        /\ next.client = q.client /\ next.rows = q.rows
    BY <1>2, <2>3 DEF RequestRecords
  <2>5. Becomes(r, next) /\ UNCHANGED <<database, created, served, vouched, late>> /\ Unmoved
    BY <1>2, <1>3, <1>5, <2>1, <2>3 DEF CallLogin
  <2>6. lasting' = IF synced /\ started.sso = started.gateway
                   THEN lasting \union {q.click} ELSE lasting
    BY <1>3, <1>5
  <2>7. Steady(q.click)
    BY <1>2, <2>5, <2>6 DEF Steady, Kept, Unmoved, database, TypeOK
  <2>8. GoodToken(k, q.client)'
    <3>1. accounts'[k.email] = q.client /\ k.click <= calls'
      BY <1>2, <2>2, <2>5 DEF database, Unmoved, GoodRequest
    <3>2. k.click \in lasting' => k.secret = started'.gateway
      BY <1>2, <2>2, <2>5, <2>6 DEF GoodRequest, Unmoved, Inv, Secure
    <3>3. QED
      BY <3>1, <3>2 DEF GoodToken
  <2>9. GoodRequest(next)'
    <3>1. \A e \in next.rows : accounts'[e] = next.client
      BY <1>2, <2>4, <2>5 DEF GoodRequest, database
    <3>2. next.click <= calls'
      BY <1>2, <2>4, <2>5 DEF GoodRequest, Unmoved
    <3>3. QED
      BY <2>4, <2>8, <3>1, <3>2 DEF GoodRequest, Authenticated, AdminRoutes
  <2>10. QED
    BY <1>1, <1>2, <2>2, <2>4, <2>5, <2>7, <2>9, MoveStays DEF Unmoved, database, Inv, LateIsVouched
<1>6. QED
  BY <1>4, <1>5

LEMMA AuthenticateStays ==
  ASSUME Inv, TypeOK', NEW r \in Requests, Authenticate(r)
  PROVE  Inv'
<1>1. PICK q : q = request[r]
  OBVIOUS
<1>2. TypeOK /\ q \in RequestRecords /\ q.pc = "auth"
  BY <1>1, AtWork DEF Inv, Authenticate, Idle
<1>3. UNCHANGED <<database, late, history>> /\ Unmoved
  BY DEF Authenticate
<1>4. CASE IsValid(q.bearer)
  <2>1. q.bearer \in Tokens /\ q.bearer # NoToken
    BY <1>2, <1>4 DEF IsValid, RequestRecords
  <2>2. PICK pc \in {"admin", "read"} : pc = IF q.call \in AdminRoutes THEN "admin" ELSE "read"
    OBVIOUS
  <2>3. pc \in RequestSteps /\ q.bearer.email \in Emails
    BY <2>1, <2>2 DEF RequestSteps, Steps, Tokens
  <2>4. PICK next \in RequestRecords : next = [q EXCEPT !.pc = pc, !.email = q.bearer.email]
    BY <1>2, <2>3, RecordsGoOn
  <2>5. Becomes(r, next)
    BY <1>1, <1>4, <2>2, <2>4 DEF Authenticate
  <2>6. /\ next.click = q.click /\ next.bearer = q.bearer /\ next.pc = pc /\ next.call = q.call
        /\ next.client = q.client /\ next.rows = q.rows /\ next.email = q.bearer.email
    BY <1>2, <2>4 DEF RequestRecords
  <2>7. GoodRequest(q)' => GoodRequest(next)'
    BY <2>1, <2>2, <2>6 DEF GoodRequest, GoodToken, Authenticated, AdminRoutes
  <2>8. QED
    BY <1>1, <1>2, <1>3, <2>2, <2>5, <2>6, <2>7, QuietMoveStays
<1>5. CASE ~IsValid(q.bearer)
  <2>1. Answer(r, "error")
    BY <1>1, <1>5 DEF Authenticate
  <2>2. QED
    BY <1>1, <1>2, <1>3, <2>1, QuietErrorStays
<1>6. QED
  BY <1>4, <1>5
LEMMA CheckAdminStays ==
  ASSUME Inv, TypeOK', NEW r \in Requests, CheckAdmin(r)
  PROVE  Inv'
<1>1. PICK q : q = request[r]
  OBVIOUS
<1>2. /\ TypeOK /\ q \in RequestRecords /\ q # Idle /\ GoodRequest(q)
      /\ q.pc = "admin" /\ q.call \in AdminRoutes
  BY <1>1, AtWork DEF Inv, GoodRequests, CheckAdmin, At
<1>3. UNCHANGED <<database, late, history>> /\ Unmoved
  BY DEF CheckAdmin
<1>4. PICK result \in {"ok", "error"} :
        IF IsAdminResponse(q.email, result) THEN Goes(r, q.call) ELSE Answer(r, "error")
  BY <1>1 DEF CheckAdmin, Read
<1>5. CASE IsAdminResponse(q.email, result)
  <2>1. q.email \in admins /\ q.bearer # NoToken /\ q.email = q.bearer.email
    BY <1>2, <1>5 DEF IsAdminResponse, IsAdmin, GoodRequest, Authenticated
  <2>2. q.click \in vouched
    BY <1>2, <2>1 DEF GoodRequest
  <2>3. PICK next \in RequestRecords : next = [q EXCEPT !.pc = q.call]
    BY <1>2, RecordsGoOn DEF RequestSteps, Steps, Writes, AdminRoutes
  <2>4. Becomes(r, next)
    BY <1>1, <1>4, <1>5, <2>3 DEF Goes
  <2>5. next.click = q.click /\ next.bearer = q.bearer /\ next.pc = q.call /\ next.call = q.call
        /\ next.client = q.client /\ next.rows = q.rows /\ next.email = q.email
    BY <1>2, <2>3 DEF RequestRecords
  <2>6. GoodRequest(q)' => GoodRequest(next)'
    BY <1>2, <1>3, <2>1, <2>2, <2>5 DEF GoodRequest, GoodToken, Authenticated, AdminRoutes, history
  <2>7. next.pc # "login"
    BY <1>2, <2>5 DEF AdminRoutes
  <2>8. QED
    BY <1>1, <1>2, <1>3, <2>4, <2>5, <2>6, <2>7, QuietMoveStays
<1>6. CASE ~IsAdminResponse(q.email, result)
  BY <1>1, <1>2, <1>3, <1>4, <1>6, QuietErrorStays
<1>7. QED
  BY <1>5, <1>6

LEMMA ReadsStays ==
  ASSUME Inv, TypeOK', NEW r \in Requests, NEW route \in Routes, NEW mine,
         mine \subseteq {request[r].email}, Reads(r, route, mine)
  PROVE  Inv'
<1>1. PICK q : q = request[r]
  OBVIOUS
<1>2. TypeOK /\ q \in RequestRecords /\ GoodRequest(q) /\ q.pc = "read" /\ q.call = route
  BY <1>1, AtWork DEF Inv, GoodRequests, Reads, At
<1>3. UNCHANGED <<database, late, history>> /\ Unmoved
  BY DEF Reads
<1>4. PICK result \in {"ok", "error"} :
        IF result = "ok" /\ mine # {}
        THEN Becomes(r, [q EXCEPT !.pc = "answer", !.rows = mine])
        ELSE Answer(r, "error")
  BY <1>1 DEF Reads, Read
<1>5. CASE result = "ok" /\ mine # {}
  <2>1. mine \in SUBSET Emails /\ \A e \in mine : e = q.email
    BY <1>1, <1>2 DEF RequestRecords
  <2>2. PICK next \in RequestRecords : next = [q EXCEPT !.pc = "answer", !.rows = mine]
    BY <1>2, <2>1, RecordsGoOn
  <2>3. next.click = q.click /\ next.bearer = q.bearer /\ next.pc = "answer" /\ next.call = route
        /\ next.client = q.client /\ next.rows = mine /\ next.email = q.email
    BY <1>2, <2>2 DEF RequestRecords
  <2>4. accounts[q.email] = q.client
    BY <1>2 DEF GoodRequest, GoodToken, Authenticated
  <2>5. route \notin AdminRoutes /\ route # "register"
    BY DEF Routes, AdminRoutes
  <2>6. GoodRequest(q)' => GoodRequest(next)'
    BY <1>3, <2>1, <2>3, <2>4, <2>5 DEF GoodRequest, GoodToken, Authenticated, AdminRoutes, database
  <2>7. QED
    BY <1>1, <1>2, <1>3, <1>4, <1>5, <2>2, <2>3, <2>6, QuietMoveStays
<1>6. CASE ~(result = "ok" /\ mine # {})
  BY <1>1, <1>2, <1>3, <1>4, <1>6, QuietErrorStays
<1>7. QED
  BY <1>5, <1>6

\* Each route asks for, or lets through, the rows of the caller only.
LEMMA RoutesAreOwn ==
  ASSUME NEW e, NEW about
  PROVE  /\ CartOf(GetCart(e)) \subseteq {e}
         /\ FavouritesOf(GetFavourites(e)) \subseteq {e}
         /\ IsFavouriteOf(IsFavourite(e)) \subseteq {e}
         /\ OrdersOf(GetUserOrders(e)) \subseteq {e}
         /\ OrderOf(GetOrder(about)) \intersect {e} \subseteq {e}
BY DEF CartOf, GetCart, CartInterceptor, FavouritesOf, GetFavourites, FavouritesInterceptor,
       IsFavouriteOf, IsFavourite, OrdersOf, GetUserOrders, UserIDFromContext, RowsOfUser

LEMMA CutStays ==
  ASSUME Inv, TypeOK', NEW r \in Requests, Cut(r)
  PROVE  Inv'
<1>1. PICK q : q = request[r]
  OBVIOUS
<1>2. TypeOK /\ q \in RequestRecords /\ q # Idle /\ GoodRequest(q) /\ Done(q)
  BY <1>1, AtWork, CutTypes DEF Inv, GoodRequests, Cut
<1>3. Answer(r, "error") /\ UNCHANGED history /\ Unmoved
  BY DEF Cut
<1>4. CASE UNCHANGED <<database, late>>
  BY <1>1, <1>2, <1>3, <1>4, QuietErrorStays
<1>5. CASE q.call \in Writes /\ q.pc = q.call /\ late' \subseteq late \union {q}
  <2>1. q.call \in AdminRoutes => q.click \in vouched
    BY <1>2, <1>5 DEF GoodRequest
  <2>2. QED
    BY <1>1, <1>2, <1>3, <1>5, <2>1, ErrorStays
<1>6. QED
  BY <1>1, <1>4, <1>5 DEF Cut

\* Nothing happens to the requests and their clients.
LEMMA IdlyStays ==
  ASSUME Inv, TypeOK', Steady(0), UNCHANGED <<request, token, created, served>>,
         \A m \in Clicks : changes'[m] = changes[m] \/ m \in vouched',
         late' \subseteq late, Secure'
  PROVE  Inv'
<1>1. TypeOK
  BY DEF Inv
<1>2. GoodRequests'
  <2>1. SUFFICES ASSUME NEW s \in Requests, (request[s] # Idle)'
                 PROVE  GoodRequest(request[s])'
    BY DEF GoodRequests
  <2>2. PICK x : x = request[s]
    OBVIOUS
  <2>3. request'[s] = x /\ x \in RequestRecords /\ GoodRequest(x)
    BY <1>1, <2>1, <2>2, AtWork DEF Inv, GoodRequests
  <2>4. GoodRequest(x)'
    BY <1>1, <2>3, GoesOn
  <2>5. QED
    BY <2>3, <2>4 DEF GoodRequest, GoodToken
<1>3. \A c \in Clients : token[c] # NoToken => token[c].click # 0
  BY <1>1, CallAssumption DEF TypeOK, Tokens, Clicks
<1>4. GoodTokens' /\ Promises'
  BY <1>3, WorldStays
<1>5. Numbered' /\ LoginsAreNew'
  BY DEF Inv, Numbered, LoginsAreNew
<1>6. LateIsVouched'
  BY DEF Inv, LateIsVouched, Steady
<1>7. QED
  BY <1>2, <1>4, <1>5, <1>6 DEF Inv

LEMMA TakeEffectStays ==
  ASSUME Inv, TypeOK', NEW q \in late, TakeEffect(q)
  PROVE  Inv'
<1>1. TypeOK /\ q \in RequestRecords /\ Done(q) /\ late' \subseteq late
  BY TakeEffectTypes DEF Inv
<1>2. UNCHANGED <<history, request, token>> /\ Unmoved
  BY DEF TakeEffect, Unmoved
<1>3. Steady(0)
  BY <1>1, <1>2, QuietIsSteady DEF history
<1>4. \A m \in Clicks : changes'[m] = changes[m] \/ m \in vouched'
  BY <1>1, <1>2, DoneKeeps DEF Inv, LateIsVouched, history
<1>5. Secure'
  BY <1>1, <1>2, DoneKeeps DEF Inv, Secure, history, Unmoved
<1>6. QED
  BY <1>1, <1>2, <1>3, <1>4, <1>5, IdlyStays DEF history

\* A request ends: the client's token may be removed, or become the one that the
\* request has brought; what the client learns is true.
LEMMA ReturnStays ==
  ASSUME Inv, TypeOK', NEW r \in Requests, NEW q \in RequestRecords, q = request[r], Return(r),
         UNCHANGED <<database, admins, started, synced, vouched, lasting, calls, late>>,
         \A c \in Clients : token'[c] \in {token[c], NoToken} \/ (c = q.client /\ token'[c] = q.bearer),
         \A c \in Clients : served'[c] \subseteq served[c] \union (IF c = q.client THEN q.rows ELSE {}),
         \A a \in created' : \/ a \in created
                             \/ a = [email |-> q.email, client |-> q.client]
                                /\ accounts[q.email] = q.client
  PROVE  Inv'
<1>1. TypeOK /\ q # Idle /\ GoodRequest(q)
  BY IdleIsApart DEF Inv, GoodRequests
<1>2. Steady(0)
  BY <1>1 DEF Steady, Kept, database, TypeOK
<1>3. /\ request'[r] = Idle
      /\ \A s \in Requests : s # r => request'[s] = request[s]
  BY <1>1 DEF Return, Becomes, TypeOK
<1>4. GoodRequests'
  <2>1. \A s \in Requests : request[s] # Idle =>
           request[s].click # 0 /\ (request[s].bearer # NoToken => request[s].bearer.click # 0)
    BY <1>1, AtWork, CallAssumption DEF RequestRecords, Tokens, Clicks
  <2>2. QED
    BY <1>2, <2>1, OthersStay DEF Return
<1>5. Numbered'
  BY <1>3 DEF Inv, Numbered
<1>6. LoginsAreNew'
  <2>1. SUFFICES ASSUME NEW s \in Requests, request'[s] # Idle, request'[s].pc = "login"
                 PROVE  /\ \A c \in Clients : token'[c] # NoToken => token'[c].click # request'[s].click
                        /\ \A t \in Requests :
                             request'[t] # Idle /\ request'[t].bearer # NoToken =>
                               request'[t].bearer.click # request'[s].click
    BY DEF LoginsAreNew
  <2>2. s # r /\ request'[s] = request[s]
    BY <1>3, <2>1
  <2>3. \A c \in Clients : token'[c] # NoToken => token'[c].click # request'[s].click
    BY <1>1, <2>1, <2>2 DEF Inv, LoginsAreNew
  <2>4. \A t \in Requests : request'[t] # Idle /\ request'[t].bearer # NoToken =>
                              request'[t].bearer.click # request'[s].click
    BY <1>3, <2>1, <2>2 DEF Inv, LoginsAreNew
  <2>5. QED
    BY <2>3, <2>4
<1>7. GoodTokens'
  BY <1>1 DEF Inv, GoodTokens, GoodToken, GoodRequest, database
<1>8. OwnDataOnly'
  BY <1>1 DEF Inv, Promises, OwnDataOnly, GoodRequest, database
<1>9. AccountsAreKept'
  BY DEF Inv, Promises, AccountsAreKept, database
<1>10. AdminsChange' /\ LateIsVouched' /\ Secure'
  BY DEF Inv, Promises, AdminsChange, LateIsVouched, Secure, database
<1>11. QED
  BY <1>4, <1>5, <1>6, <1>7, <1>8, <1>9, <1>10 DEF Inv, Promises

LEMMA AnsweredStays ==
  ASSUME Inv, TypeOK', NEW r \in Requests,
         RegisterAnswered(r) \/ LoginAnswered(r) \/ VisitAnswered(r) \/ ProductAnswered(r)
  PROVE  Inv'
<1>1. PICK q : q = request[r]
  OBVIOUS
<1>2. /\ TypeOK /\ q \in RequestRecords /\ GoodRequest(q) /\ q.pc = "answer"
      /\ Return(r)
      /\ UNCHANGED <<database, admins, started, synced, vouched, lasting, calls, late>>
  BY <1>1, AtWork
     DEF Inv, GoodRequests, RegisterAnswered, LoginAnswered, VisitAnswered, ProductAnswered,
         Answered, At
<1>3. q.client \in Clients
  BY <1>2 DEF RequestRecords
<1>4. CASE RegisterAnswered(r)
  <2>1. q.call = "register" /\ UNCHANGED served
    BY <1>1, <1>4 DEF RegisterAnswered, Answered, At
  <2>2. \A c \in Clients : token'[c] \in {token[c], NoToken}
    BY <1>1, <1>2, <1>4 DEF RegisterAnswered, TypeOK
  <2>3. \A a \in created' : \/ a \in created
                            \/ a = [email |-> q.email, client |-> q.client]
                               /\ accounts[q.email] = q.client
    BY <1>1, <1>2, <1>4, <2>1 DEF RegisterAnswered, GoodRequest
  <2>4. QED
    BY <1>1, <1>2, <2>1, <2>2, <2>3, ReturnStays
<1>5. CASE LoginAnswered(r)
  <2>1. UNCHANGED <<created, served>>
    BY <1>5 DEF LoginAnswered
  <2>2. \A c \in Clients : token'[c] \in {token[c], NoToken} \/ (c = q.client /\ token'[c] = q.bearer)
    BY <1>1, <1>2, <1>5 DEF LoginAnswered, TypeOK
  <2>3. QED
    BY <1>1, <1>2, <2>1, <2>2, ReturnStays
<1>6. CASE VisitAnswered(r)
  <2>1. UNCHANGED <<created, token>>
    BY <1>6 DEF VisitAnswered
  <2>2. \A c \in Clients : served'[c] \subseteq served[c] \union (IF c = q.client THEN q.rows ELSE {})
    BY <1>1, <1>2, <1>6 DEF VisitAnswered, TypeOK
  <2>3. QED
    BY <1>1, <1>2, <2>1, <2>2, ReturnStays
<1>7. CASE ProductAnswered(r)
  BY <1>1, <1>2, <1>7, ReturnStays DEF ProductAnswered
<1>8. QED
  BY <1>4, <1>5, <1>6, <1>7

LEMMA StepStays ==
  ASSUME Inv, TypeOK', NEW r \in Requests, Step(r)
  PROVE  Inv'
<1>1. CASE CallRegister(r) \/ CallAddSneaker(r) \/ CallUpdateProductImage(r)
  BY <1>1, SendStays
     DEF CallRegister, CallAddSneaker, CallUpdateProductImage, At, Writes, AdminRoutes
<1>2. CASE CallGetCart(r) \/ CallGetFavourites(r) \/ CallIsFavourite(r) \/ CallGetUserOrders(r)
           \/ CallGetOrder(r)
  BY <1>2, RoutesAreOwn, ReadsStays
     DEF CallGetCart, CallGetFavourites, CallIsFavourite, CallGetUserOrders, CallGetOrder, Routes
<1>3. QED
  BY <1>1, <1>2, LoginStays, AuthenticateStays, CheckAdminStays, AnsweredStays DEF Step

-----------------------------------------------------------------------------
(* The clicks and the services' starts.                                    *)

\* A request starts with the client's token, or with none.
LEMMA SentStays ==
  ASSUME Inv, TypeOK', NEW r \in Requests, NEW op \in Operations, NEW c \in Clients,
         NEW e \in Emails, NEW pc \in {"register", "login", "auth"},
         NEW bearer \in {token[c], NoToken}, Sent(r, op, c, e, pc, bearer),
         vouched \subseteq vouched', token' = token,
         op \in AdminRoutes /\ bearer # NoToken /\ bearer.email \in admins => calls + 1 \in vouched'
  PROVE  Inv'
<1>1. TypeOK
  BY DEF Inv
<1>2. /\ request[r] = Idle /\ calls' = calls + 1 /\ calls < MaxCalls
      /\ UNCHANGED <<database, admins, started, synced, token, expired, created, served, lasting, late>>
  BY DEF Sent, Starts
<1>3. PICK next : next = [call |-> op, client |-> c, click |-> calls + 1, email |-> e, about |-> e,
                          pc |-> pc, tries |-> 1, bearer |-> bearer, rows |-> {}, result |-> "ok"]
  OBVIOUS
<1>4. /\ Becomes(r, next)
      /\ request'[r] = next
      /\ \A s \in Requests : s # r => request'[s] = request[s]
  BY <1>1, <1>3 DEF Sent, Becomes, TypeOK
<1>5. calls \in Nat
  BY <1>1, CallAssumption DEF TypeOK
<1>6. Steady(0)
  BY <1>2, <1>5 DEF Steady, Kept, database
<1>7. GoodRequest(next)'
  <2>1. bearer # NoToken => GoodToken(bearer, c)
    BY DEF Inv, GoodTokens
  <2>2. PICK k : k = bearer
    OBVIOUS
  <2>3. k # NoToken => GoodToken(k, c)'
    BY <1>2, <1>5, <1>1, <2>1, <2>2, CallAssumption DEF GoodToken, database, TypeOK, Tokens, Clicks
  <2>4. calls + 1 \notin lasting
    BY <1>5 DEF Inv, Secure
  <2>5. /\ next.click = calls' /\ next.bearer = k /\ next.call = op /\ next.pc = pc
        /\ next.client = c /\ next.rows = {} /\ pc \notin Authenticated /\ pc # "answer"
    BY <1>2, <1>3, <2>2 DEF Authenticated, AdminRoutes
  <2>6. op \in AdminRoutes /\ k # NoToken /\ k.email \in admins' => calls' \in vouched'
    BY <1>2, <2>2
  <2>7. QED
    BY <1>2, <1>5, <2>3, <2>4, <2>5, <2>6 DEF GoodRequest, Authenticated
<1>8. \A s \in Requests : request[s] # Idle =>
        /\ request[s].click \in 1..calls
        /\ request[s].bearer # NoToken => request[s].bearer.click \in 1..calls
  <2>1. SUFFICES ASSUME NEW s \in Requests, request[s] # Idle
                 PROVE  /\ request[s].click \in 1..calls
                        /\ request[s].bearer # NoToken => request[s].bearer.click \in 1..calls
    OBVIOUS
  <2>2. request[s] \in RequestRecords /\ GoodRequest(request[s])
    BY <1>1, <2>1, AtWork DEF Inv, GoodRequests
  <2>3. QED
    BY <1>5, <2>2, CallAssumption DEF GoodRequest, GoodToken, RequestRecords, Tokens, Clicks
<1>9. \A d \in Clients : token[d] # NoToken => token[d].click \in 1..calls
  BY <1>1, <1>5, CallAssumption DEF Inv, GoodTokens, GoodToken, TypeOK, Tokens, Clicks
<1>10. GoodRequests'
  BY <1>4, <1>6, <1>7, <1>8, OthersStay
<1>11. next.click = calls + 1 /\ next.bearer = bearer /\ next.pc = pc
  BY <1>3
<1>12. Numbered'
  BY <1>4, <1>5, <1>8, <1>11 DEF Inv, Numbered
<1>13. LoginsAreNew'
  <2>1. SUFFICES ASSUME NEW s \in Requests, request'[s] # Idle, request'[s].pc = "login"
                 PROVE  /\ \A d \in Clients : token'[d] # NoToken => token'[d].click # request'[s].click
                        /\ \A t \in Requests :
                             request'[t] # Idle /\ request'[t].bearer # NoToken =>
                               request'[t].bearer.click # request'[s].click
    BY DEF LoginsAreNew
  <2>2. CASE s = r
    <3>1. request'[s].click = calls + 1
      BY <1>4, <1>11, <2>2
    <3>2. \A t \in Requests : request'[t] # Idle /\ request'[t].bearer # NoToken =>
            request'[t].bearer.click \in 1..calls
      BY <1>4, <1>8, <1>9, <1>11
    <3>3. QED
      BY <1>5, <1>9, <3>1, <3>2
  <2>3. CASE s # r
    <3>1. request'[s] = request[s]
      BY <1>4, <2>3
    <3>2. QED
      BY <1>4, <1>11, <2>1, <3>1 DEF Inv, LoginsAreNew
  <2>4. QED
    BY <2>2, <2>3
<1>14. GoodTokens' /\ Promises'
  BY <1>1, <1>2, <1>5, <1>6, <1>9, WorldStays DEF database
<1>15. LateIsVouched' /\ Secure'
  BY <1>2, <1>5 DEF Inv, LateIsVouched, Secure, database
<1>16. QED
  BY <1>10, <1>12, <1>13, <1>14, <1>15 DEF Inv
LEMMA ClickStays ==
  ASSUME Inv, TypeOK', NEW r \in Requests, NEW c \in Clients, Request(r, c)
  PROVE  Inv'
<1>1. ASSUME NEW e \in Emails, PostRegister(r, c, e) \/ PostLogin(r, c, e)
      PROVE  Inv'
  <2>1. vouched' = vouched /\ token' = token
    BY <1>1 DEF PostRegister, PostLogin, Sent
  <2>2. "register" \in Operations /\ "login" \in Operations
        /\ "register" \notin AdminRoutes /\ "login" \notin AdminRoutes
    BY DEF Operations, AdminRoutes
  <2>3. QED
    BY <1>1, <2>1, <2>2, SentStays DEF PostRegister, PostLogin
<1>2. ASSUME NEW route \in Routes, NEW e \in Emails, Visit(r, c, route, e)
      PROVE  Inv'
  <2>1. vouched' = vouched /\ token' = token
    BY <1>2 DEF Visit, Sent
  <2>2. route \in Operations /\ route \notin AdminRoutes
    BY DEF Operations, AdminRoutes, Routes
  <2>3. QED
    BY <1>2, <2>1, <2>2, SentStays DEF Visit
<1>3. ASSUME NEW route \in AdminRoutes, PostProduct(r, c, route)
      PROVE  Inv'
  <2>1. /\ vouched \subseteq vouched' /\ token' = token
        /\ token[c].email \in admins => calls + 1 \in vouched'
    BY <1>3 DEF PostProduct, Sent
  <2>2. route \in Operations /\ token[c].email \in Emails
    BY <1>3 DEF Operations, Inv, TypeOK, Tokens, PostProduct
  <2>3. QED
    BY <1>3, <2>1, <2>2, SentStays DEF PostProduct
<1>4. QED
  BY <1>1, <1>2, <1>3 DEF Request

LEMMA StartSsoStays ==
  ASSUME Inv, TypeOK', NEW s \in Secrets \union {Unset}, StartSso(s)
  PROVE  Inv'
<1>1. /\ UNCHANGED <<accounts, changes, admins, token, history, request, calls, late>>
      /\ started' = [started EXCEPT !.sso = s]
  BY DEF StartSso
<1>2. started'.sso = s /\ started'.gateway = started.gateway
  BY <1>1 DEF Inv, TypeOK
<1>3. Steady(0)
  BY <1>1, <1>2 DEF Steady, Kept, history, Inv, TypeOK
<1>4. synced' => secret' = started'.sso
  BY <1>2 DEF StartSso, UpdateAppSecret
<1>5. Secure'
  BY <1>1, <1>4 DEF Inv, Secure, history
<1>6. QED
  BY <1>1, <1>3, <1>5, IdlyStays DEF history

LEMMA StartGatewayStays ==
  ASSUME Inv, TypeOK', NEW s \in Secrets, StartGateway(s)
  PROVE  Inv'
<1>1. /\ UNCHANGED <<database, admins, synced, token, created, served, vouched, request, calls, late>>
      /\ started' = [started EXCEPT !.gateway = s]
      /\ lasting' = IF s = started.gateway THEN lasting ELSE {}
  BY DEF StartGateway
<1>2. started'.sso = started.sso /\ started'.gateway = s
  BY <1>1 DEF Inv, TypeOK
<1>3. Steady(0)
  BY <1>1, <1>2 DEF Steady, Kept, database, Inv, TypeOK
<1>4. Secure'
  BY <1>1, <1>2 DEF Inv, Secure, database
<1>5. QED
  BY <1>1, <1>3, <1>4, IdlyStays DEF database

LEMMA SetAdminStays ==
  ASSUME Inv, TypeOK', NEW e \in Emails, NEW yes \in BOOLEAN, SetAdmin(e, yes)
  PROVE  Inv'
<1>1. /\ UNCHANGED <<database, started, synced, token, created, served, lasting, request, calls, late>>
      /\ vouched \subseteq vouched'
  BY DEF SetAdmin
<1>2. ASSUME NEW s \in Requests, request[s] # Idle, request[s].call \in AdminRoutes,
             request[s].bearer # NoToken, request[s].bearer.email \in admins'
      PROVE  request[s].click \in vouched'
  <2>1. request[s] \in RequestRecords /\ GoodRequest(request[s])
    BY <1>2, AtWork DEF Inv, GoodRequests
  <2>2. CASE request[s].bearer.email \in admins
    BY <1>1, <1>2, <2>1, <2>2 DEF GoodRequest
  <2>3. CASE request[s].bearer.email \notin admins
    <3>1. yes /\ request[s].bearer.email = e /\ request[s].click \in Clicks
      BY <1>2, <2>1, <2>3 DEF SetAdmin, RequestRecords
    <3>2. QED
      BY <1>2, <3>1 DEF SetAdmin
  <2>4. QED
    BY <2>2, <2>3
<1>3. GoodRequests'
  BY <1>1, <1>2 DEF Inv, GoodRequests, GoodRequest, GoodToken, database
<1>4. Numbered' /\ LoginsAreNew' /\ GoodTokens' /\ LateIsVouched' /\ Secure'
  BY <1>1 DEF Inv, Numbered, LoginsAreNew, GoodTokens, GoodToken, LateIsVouched, Secure, database
<1>5. Promises'
  BY <1>1 DEF Inv, Promises, AccountsAreKept, OwnDataOnly, AdminsChange, database
<1>6. QED
  BY <1>3, <1>4, <1>5 DEF Inv

LEMMA TokenExpiresStays ==
  ASSUME Inv, TypeOK', NEW n \in Clicks, TokenExpires(n)
  PROVE  Inv'
<1>1. UNCHANGED <<database, admins, started, synced, token, history, request, calls, late>>
  BY DEF TokenExpires
<1>2. Steady(0)
  BY <1>1 DEF Steady, Kept, database, history, Inv, TypeOK
<1>3. Secure'
  BY <1>1 DEF Inv, Secure, database, history
<1>4. QED
  BY <1>1, <1>2, <1>3, IdlyStays DEF database, history

-----------------------------------------------------------------------------
(* The theorems.                                                           *)

LEMMA InvStarts ==
  ASSUME Init
  PROVE  Inv
<1>1. TypeOK
  BY TypesStart
<1>2. synced => secret = started.sso
  BY DEF Init
<1>3. QED
  BY <1>1, <1>2
     DEF Init, Inv, GoodRequests, Numbered, LoginsAreNew, GoodTokens, LateIsVouched, Secure,
         Promises, AccountsAreKept, OwnDataOnly, AdminsChange

LEMMA InvStays ==
  ASSUME Inv, [Next]_vars
  PROVE  Inv'
<1>1. TypeOK'
  BY TypesStay DEF Inv
<1>2. CASE UNCHANGED vars
  BY <1>1, <1>2
     DEF vars, database, history, Inv, GoodRequests, GoodRequest, GoodToken, Numbered, LoginsAreNew,
         GoodTokens, LateIsVouched, Secure, Promises, AccountsAreKept, OwnDataOnly, AdminsChange
<1>3. CASE Next
  BY <1>1, <1>3, ClickStays, StepStays, CutStays, TakeEffectStays, StartSsoStays,
     StartGatewayStays, SetAdminStays, TokenExpiresStays
     DEF Next
<1>4. QED
  BY <1>2, <1>3

LEMMA InvHolds == Spec => []Inv
BY InvStarts, InvStays, PTL DEF Spec

\* An account that a client was told of keeps its password.
THEOREM Keeping == Spec => []AccountsAreKept
<1>1. Inv => AccountsAreKept
  BY DEF Inv, Promises
<1>2. QED
  BY <1>1, InvHolds, PTL

\* A client is sent data only of accounts that its own password logs in to.
THEOREM OwnData == Spec => []OwnDataOnly
<1>1. Inv => OwnDataOnly
  BY DEF Inv, Promises
<1>2. QED
  BY <1>1, InvHolds, PTL

\* The catalogue is changed for administrators only.
THEOREM Administration == Spec => []AdminsChange
<1>1. Inv => AdminsChange
  BY DEF Inv, Promises
<1>2. QED
  BY <1>1, InvHolds, PTL

\* A login under one secret lasts through restarts with the same secret.
THEOREM Lasting == Spec => []LoginsLast
<1>1. ASSUME Inv
      PROVE  LoginsLast
  <2>1. SUFFICES ASSUME NEW c \in Clients, token[c].click \in lasting \ expired
                 PROVE  IsValid(token[c])
    BY DEF LoginsLast
  <2>2. token[c] # NoToken
    BY <1>1, <2>1, CallAssumption DEF Inv, TypeOK, NoToken, Clicks
  <2>3. QED
    BY <1>1, <2>1, <2>2 DEF Inv, GoodTokens, GoodToken, IsValid
<1>2. QED
  BY <1>1, InvHolds, PTL
=============================================================================
