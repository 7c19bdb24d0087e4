------------------------------- MODULE Accounts -------------------------------
(***************************************************************************)
(* Accounts, tokens and administrators: people at their clients, the       *)
(* gateway's routes and middlewares, and the sso service with its table of *)
(* users and the secret that tokens are signed with.                       *)
(*                                                                         *)
(* An account is known by its email, which is UNIQUE and is never deleted; *)
(* a password by the client of the person who uses it. The secret reaches  *)
(* the two services apart: the gateway checks tokens with the APP_SECRET   *)
(* it was started with, the sso service signs them with the secret that is *)
(* in the database, where it tries to write its own APP_SECRET when it     *)
(* starts.                                                                 *)
(***************************************************************************)
EXTENDS GatewayCalls, UserRoutes

CONSTANTS
  Clients,  \* browsers, each of a person with a password of their own
  Secrets   \* values of APP_SECRET

NoToken == [click |-> 0]

\* What the migration inserts, and an APP_SECRET that is not given.
Generated == "generated"
Unset == "unset"

\* The routes behind AdminMiddleware: a new product and its image.
AdminRoutes == {"add", "image"}

Operations == {"register", "login"} \union AdminRoutes \union Routes

\* The calls that change something, and their tries.
Writes == {"register"} \union AdminRoutes

\* The calls that may fail, one name each.
Steps == Writes \union {"login", "admin", "read", "sync"}

Clicks == 1..MaxCalls

ASSUME CallAssumption == Calls \subseteq Operations /\ MaxCalls \in Nat
ASSUME FaultAssumption ==
  /\ Failing \subseteq Steps
  /\ Losing \subseteq Steps
  /\ TimingOut \subseteq Writes
  /\ MaxFaults \in Nat
ASSUME ClientAssumption == Nobody \notin Clients
ASSUME SecretAssumption == Generated \notin Secrets /\ Unset \notin Secrets

VARIABLES
  accounts,  \* the client whose password each email was registered with
  admins,    \* the accounts with is_admin
  secret,    \* secret of the gateway's row in apps
  started,   \* the APP_SECRET that each service was last started with
  synced,    \* has the sso service written its own to the database?
  token,     \* the token in each client's localStorage
  expired,   \* the tokens past their exp, by the number of their login
  changes,   \* how often each request has changed the catalogue
  created,   \* history: the registrations that were answered with 201
  served,    \* history: the accounts whose data each client was sent
  vouched,   \* history: the requests during which their account was an admin
  lasting    \* history: the logins while both services had the same APP_SECRET

database == <<accounts, secret, changes>>
history == <<created, served, vouched, lasting>>
vars == <<database, admins, started, synced, token, expired, history,
          request, calls, faults, late>>

Tokens == [click : Clicks, email : Emails, secret : Secrets \union {Generated}]

RequestSteps == (Steps \ {"sync"}) \union {"auth", "answer"}

RequestRecords ==
  [call : Operations, client : Clients, click : Clicks, email : Emails, about : Emails,
   pc : RequestSteps, tries : 1..Tries, bearer : Tokens \union {NoToken},
   rows : SUBSET Emails, result : {"ok", "error"}]

TypeOK ==
  /\ accounts \in [Emails -> Clients \union {Nobody}]
  /\ admins \subseteq {e \in Emails : accounts[e] # Nobody}
  /\ secret \in Secrets \union {Generated}
  /\ started \in [sso : Secrets \union {Unset}, gateway : Secrets]
  /\ synced \in BOOLEAN
  /\ token \in [Clients -> Tokens \union {NoToken}]
  /\ expired \subseteq Clicks
  /\ changes \in [Clicks -> Nat]
  /\ created \subseteq [email : Emails, client : Clients]
  /\ served \in [Clients -> SUBSET Emails]
  /\ vouched \subseteq Clicks
  /\ lasting \subseteq Clicks
  /\ request \in [Requests -> RequestRecords \union {Idle}]
  /\ late \subseteq RequestRecords /\ \A q \in late : q.call \in Writes
  /\ calls \in 0..MaxCalls
  /\ faults \in 0..MaxFaults

\* The tables are migrated; the services have been started with one secret, but
\* it may not have been written.
Init ==
  /\ accounts = [e \in Emails |-> Nobody]
  /\ admins = {}
  /\ \E s \in Secrets :
       /\ started = [sso |-> s, gateway |-> s]
       /\ \/ synced = TRUE /\ secret = s
          \/ synced = FALSE /\ secret = Generated
  /\ token = [c \in Clients |-> NoToken]
  /\ expired = {}
  /\ changes = [n \in Clicks |-> 0]
  /\ created = {}
  /\ served = [c \in Clients |-> {}]
  /\ vouched = {}
  /\ lasting = {}
  /\ request = [r \in Requests |-> Idle]
  /\ calls = 0
  /\ faults = 0
  /\ late = {}

-----------------------------------------------------------------------------
(* Starting and running the services.                                      *)

\* Mutant: like the migration, the update replaces only a generated secret.
ReplaceGenerated(s) == secret' = IF secret = Generated THEN s ELSE secret

UpdateAppSecret(s) == secret' = s

\* app.New: an error is only logged, and with no APP_SECRET the row stays.
StartSso(s) ==
  /\ Fault
  /\ started' = [started EXCEPT !.sso = s]
  /\ \/ s # Unset /\ UpdateAppSecret(s) /\ synced' = TRUE
     \/ s # Unset /\ "sync" \in Losing /\ UpdateAppSecret(s) /\ synced' = FALSE
     \/ (s = Unset \/ "sync" \in Failing) /\ UNCHANGED secret /\ synced' = FALSE
  /\ UNCHANGED <<accounts, changes, admins, token, expired, history, request, calls, late>>

\* The requests that are still in progress are waited for, or cut.
StartGateway(s) ==
  /\ Fault
  /\ \A r \in Requests : request[r] = Idle \/ request[r].pc = "answer"
  /\ started' = [started EXCEPT !.gateway = s]
  /\ lasting' = IF s = started.gateway THEN lasting ELSE {}
  /\ UNCHANGED <<database, admins, synced, token, expired, created, served, vouched,
                 request, calls, late>>

\* An operator sets or resets is_admin.
SetAdmin(e, yes) ==
  /\ accounts[e] # Nobody
  /\ admins' = IF yes THEN admins \union {e} ELSE admins \ {e}
  /\ vouched' = IF ~yes THEN vouched
                ELSE vouched \union
                     {n \in Clicks : \E r \in Requests :
                        /\ request[r] # Idle
                        /\ request[r].call \in AdminRoutes /\ request[r].click = n
                        /\ request[r].bearer.email = e}
  /\ UNCHANGED <<database, started, synced, token, expired, created, served, lasting,
                 request, calls, faults, late>>

TokenExpires(n) ==
  /\ n \notin expired
  /\ \/ \E c \in Clients : token[c].click = n
     \/ \E r \in Requests : request[r] # Idle /\ request[r].bearer.click = n
  /\ expired' = expired \union {n}
  /\ UNCHANGED <<database, admins, started, synced, token, history, request, calls, faults, late>>

-----------------------------------------------------------------------------
(* The requests, as clients send them.                                     *)

Sent(r, op, c, e, pc, bearer) ==
  /\ Starts(r, op)
  /\ Becomes(r, [call |-> op, client |-> c, click |-> calls + 1, email |-> e, about |-> e,
                 pc |-> pc, tries |-> 1, bearer |-> bearer, rows |-> {}, result |-> "ok"])
  /\ UNCHANGED <<database, admins, started, synced, token, expired, created, served,
                 lasting, faults, late>>

\* Login.jsx sends the form, whatever token there is.
PostRegister(r, c, e) == Sent(r, "register", c, e, "register", NoToken) /\ UNCHANGED vouched

PostLogin(r, c, e) == Sent(r, "login", c, e, "login", NoToken) /\ UNCHANGED vouched

\* The interceptor of axios adds the token to the other routes: the account that
\* they are for is the gateway's to find. An order may be asked for by any id, so
\* by one of any account `about`.
Visit(r, c, route, about) ==
  /\ token[c] # NoToken
  /\ route # "order" => about = token[c].email
  /\ Sent(r, route, c, about, "auth", token[c])
  /\ UNCHANGED vouched

PostProduct(r, c, route) ==
  /\ token[c] # NoToken
  /\ Sent(r, route, c, token[c].email, "auth", token[c])
  /\ vouched' = IF token[c].email \in admins THEN vouched \union {calls + 1} ELSE vouched

-----------------------------------------------------------------------------
(* What the services do.                                                   *)

SaveUser(e, c) == accounts' = [accounts EXCEPT ![e] = c]

RegisterNewUser(q) ==
  /\ q.call = "register"
  /\ SaveUser(q.email, q.client)
  /\ UNCHANGED <<secret, changes>>

AddSneaker(q) ==
  /\ q.call = "add"
  /\ changes' = [changes EXCEPT ![q.click] = @ + 1]
  /\ UNCHANGED <<accounts, secret>>

\* A product that is not found is one of the errors of the step.
UpdateProductImage(q) ==
  /\ q.call = "image"
  /\ changes' = [changes EXCEPT ![q.click] = @ + 1]
  /\ UNCHANGED <<accounts, secret>>

Serve(q) == RegisterNewUser(q) \/ AddSneaker(q) \/ UpdateProductImage(q)

\* Mutant: ON CONFLICT (email) DO UPDATE.
Overwrite(q) == FALSE

\* The row would break the UNIQUE of users.email: an Internal error, which is not
\* tried again.
UserExists(q) == q.call = "register" /\ accounts[q.email] # Nobody

\* Mutant: the hash is not compared.
AccountExists(q) == accounts[q.email] # Nobody

\* bcrypt.CompareHashAndPassword of the row that User(email) finds.
CredentialsMatch(q) == accounts[q.email] = q.client

\* The row of the gateway in apps.
App == secret

NewToken(q, key) == [click |-> q.click, email |-> q.email, secret |-> key]

Login(q) == IF CredentialsMatch(q) THEN NewToken(q, App) ELSE NoToken

\* The answer to the gateway, no token with an error.
LoginResponse(q, result) == IF result = "ok" THEN Login(q) ELSE NoToken

IsAdmin(e) == e \in admins

\* An error is no yes.
IsAdminResponse(e, result) == result = "ok" /\ IsAdmin(e)

-----------------------------------------------------------------------------
(* The gateway.                                                            *)

Answer(r, result) == Becomes(r, [request[r] EXCEPT !.pc = "answer", !.result = result])

Unmoved == UNCHANGED <<admins, started, synced, token, expired, calls>>

\* A try of a call that changes something.
Send(r) ==
  /\ IF UserExists(request[r]) THEN Answer(r, "error") /\ UNCHANGED <<database, faults, late>>
     ELSE Try(r, request[r].pc, Serve(request[r]), UNCHANGED database,
              LAMBDA result : Answer(r, result))
  /\ Unmoved
  /\ UNCHANGED history

CallRegister(r) == At(r, "register", "register") /\ Send(r)

CallAddSneaker(r) == At(r, "add", "add") /\ Send(r)

CallUpdateProductImage(r) == At(r, "image", "image") /\ Send(r)

CallLogin(r) ==
  LET q == request[r]
  IN /\ At(r, "login", "login")
     /\ Read("login", LAMBDA result :
          IF LoginResponse(q, result) # NoToken
          THEN /\ Becomes(r, [q EXCEPT !.pc = "answer", !.bearer = LoginResponse(q, result)])
               /\ lasting' = IF synced /\ started.sso = started.gateway
                             THEN lasting \union {q.click} ELSE lasting
          ELSE Answer(r, "error") /\ UNCHANGED lasting)
     /\ Unmoved
     /\ UNCHANGED <<database, created, served, vouched, late>>

\* jwt.Parse of the token, if there is one, with the gateway's secret: the
\* signature and the exp.
IsValid(bearer) ==
  bearer # NoToken /\ bearer.secret = started.gateway /\ bearer.click \notin expired

\* AuthMiddleware: r goes on for the account of its token.
Authenticate(r) ==
  LET q == request[r]
  IN /\ q.pc = "auth"
     /\ IF IsValid(q.bearer)
        THEN Becomes(r, [q EXCEPT !.pc = IF q.call \in AdminRoutes THEN "admin" ELSE "read",
                                  !.email = q.bearer.email])
        ELSE Answer(r, "error")
     /\ Unmoved
     /\ UNCHANGED <<database, history, faults, late>>

\* Mutant: an error of IsAdmin is only logged.
CheckKnownAdmin(r) ==
  /\ \E route \in AdminRoutes : At(r, route, "admin")
  /\ Read("admin", LAMBDA result :
       IF result = "ok" /\ ~IsAdmin(request[r].email)
       THEN Answer(r, "error") ELSE Goes(r, request[r].call))
  /\ Unmoved
  /\ UNCHANGED <<database, history, late>>

\* AdminMiddleware.
CheckAdmin(r) ==
  /\ \E route \in AdminRoutes : At(r, route, "admin")
  /\ Read("admin", LAMBDA result :
       IF IsAdminResponse(request[r].email, result)
       THEN Goes(r, request[r].call) ELSE Answer(r, "error"))
  /\ Unmoved
  /\ UNCHANGED <<database, history, late>>

\* A read for the account of r, which sends the rows of the accounts in `rows`.
Reads(r, route, rows) ==
  /\ At(r, route, "read")
  /\ Read("read", LAMBDA result :
       IF result = "ok" /\ rows # {}
       THEN Becomes(r, [request[r] EXCEPT !.pc = "answer", !.rows = rows])
       ELSE Answer(r, "error"))
  /\ Unmoved
  /\ UNCHANGED <<database, history, late>>

CallGetCart(r) == Reads(r, "cart", CartOf(GetCart(request[r].email)))

CallGetFavourites(r) == Reads(r, "favourites", FavouritesOf(GetFavourites(request[r].email)))

CallIsFavourite(r) == Reads(r, "favourite", IsFavouriteOf(IsFavourite(request[r].email)))

CallGetUserOrders(r) == Reads(r, "orders", OrdersOf(GetUserOrders(request[r].email)))

\* The gateway compares the owner of the order as well.
CallGetOrder(r) ==
  Reads(r, "order", OrderOf(GetOrder(request[r].about)) \intersect {request[r].email})

\* The gateway is stopped: the client has an error, the call in progress may have
\* been done or be done later.
Cut(r) ==
  /\ request[r] # Idle /\ request[r].pc # "answer"
  /\ Fault
  /\ Answer(r, "error")
  /\ \/ UNCHANGED <<database, late>>
     \/ /\ request[r].call \in Writes /\ request[r].pc = request[r].call
        /\ ~UserExists(request[r])
        /\ \/ Serve(request[r]) /\ UNCHANGED late
           \/ UNCHANGED database /\ late' = late \union {request[r]}
  /\ Unmoved
  /\ UNCHANGED history

TakeEffect(q) ==
  /\ q \in late
  /\ late' = late \ {q}
  /\ IF UserExists(q) THEN UNCHANGED database ELSE Serve(q)
  /\ Unmoved
  /\ UNCHANGED <<history, request, faults>>

-----------------------------------------------------------------------------
(* The answers.                                                            *)

Answered(r, op) ==
  /\ At(r, op, "answer")
  /\ Return(r)
  /\ UNCHANGED <<database, admins, started, synced, expired, vouched, lasting, calls, faults, late>>

\* Login.jsx: an error of either form removes the token that there is.
RegisterAnswered(r) ==
  LET q == request[r]
  IN /\ Answered(r, "register")
     /\ IF q.result = "ok"
        THEN /\ created' = created \union {[email |-> q.email, client |-> q.client]}
             /\ UNCHANGED token
        ELSE /\ token' = [token EXCEPT ![q.client] = NoToken]
             /\ UNCHANGED created
     /\ UNCHANGED served

LoginAnswered(r) ==
  LET q == request[r]
  IN /\ Answered(r, "login")
     /\ token' = [token EXCEPT ![q.client] = IF q.result = "ok" THEN q.bearer ELSE NoToken]
     /\ UNCHANGED <<created, served>>

VisitAnswered(r) ==
  LET q == request[r]
  IN \E route \in Routes :
       /\ Answered(r, route)
       /\ served' = [served EXCEPT ![q.client] = @ \union q.rows]
       /\ UNCHANGED <<token, created>>

ProductAnswered(r) ==
  \E route \in AdminRoutes : Answered(r, route) /\ UNCHANGED <<token, created, served>>

-----------------------------------------------------------------------------
Request(r, c) ==
  \/ \E e \in Emails : PostRegister(r, c, e) \/ PostLogin(r, c, e)
  \/ \E route \in Routes, e \in Emails : Visit(r, c, route, e)
  \/ \E route \in AdminRoutes : PostProduct(r, c, route)

Step(r) ==
  \/ CallRegister(r) \/ CallLogin(r)
  \/ Authenticate(r) \/ CheckAdmin(r) \/ CallAddSneaker(r) \/ CallUpdateProductImage(r)
  \/ CallGetCart(r) \/ CallGetFavourites(r) \/ CallIsFavourite(r) \/ CallGetUserOrders(r) \/ CallGetOrder(r)
  \/ RegisterAnswered(r) \/ LoginAnswered(r) \/ VisitAnswered(r) \/ ProductAnswered(r)

Next ==
  \/ \E r \in Requests, c \in Clients : Request(r, c)
  \/ \E r \in Requests : Step(r) \/ Cut(r)
  \/ \E q \in late : TakeEffect(q)
  \/ \E s \in Secrets \union {Unset} : StartSso(s)
  \/ \E s \in Secrets : StartGateway(s)
  \/ \E e \in Emails, yes \in BOOLEAN : SetAdmin(e, yes)
  \/ \E n \in Clicks : TokenExpires(n)

Spec == Init /\ [][Next]_vars

-----------------------------------------------------------------------------
(* What must hold.                                                         *)

\* Whoever was told that an account has been created keeps it: the password they
\* gave is the one that logs in, however many others register the same email and
\* whenever the tries that were given up take effect (SaveUser of postgres.go).
AccountsAreKept == \A a \in created : accounts[a.email] = a.client

\* What a client is sent belongs to an account that its own password logs in to,
\* through tokens, restarts with other secrets and other people's requests
\* (Login of auth.go, AuthMiddleware, the user id in the metadata).
OwnDataOnly == \A c \in Clients : \A e \in served[c] : accounts[e] = c

\* The catalogue is changed only for an account that was an administrator at some
\* time during the request, even when the call takes effect after the answer
\* (AdminMiddleware asks first, and refuses when it has no answer).
AdminsChange == \A n \in Clicks : changes[n] > 0 => n \in vouched

\* A login while both services had been started with the same APP_SECRET, and the
\* sso service had written it, lasts until the gateway is started with another
\* one or the token expires: restarts log nobody out (UpdateAppSecret of app.New).
LoginsLast ==
  \A c \in Clients :
    token[c].click \in lasting \ expired => IsValid(token[c])
=============================================================================
