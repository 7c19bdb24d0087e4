# Verification of sneakers-store

TLA+ models of the store's services, the TLC runs that check them, and theorems
about them that TLAPS proves. Paths are relative to the repository's root,
`src/` left out.

1. [The system](#1-the-system)
2. [What is hard, and what makes each part correct](#2-what-is-hard-and-what-makes-each-part-correct)
3. [The modules](#3-the-modules)
4. [The runs](#4-the-runs)
5. [Fairness](#5-fairness)
6. [The theorems](#6-the-theorems)
7. [What the checks found](#7-what-the-checks-found)
8. [What is not modelled](#8-what-is-not-modelled)
9. [The plan](#9-the-plan)

## 1. The system

Go services behind an API gateway, each with its own PostgreSQL database:

| Part | State it keeps | Operations |
|---|---|---|
| `order_service` | `orders`, `order_items`, `payments`; the Kafka topic of order events; webhook subscriptions at YooKassa | gRPC CreateOrder, GetOrder, GetUserOrders, UpdateOrderStatus; HTTP webhook and manual status update; webhook registration at start-up |
| `cart_service` | `carts`, `cart_items`; a Redis hash per user | GetCart, AddToCart, UpdateCartItemQuantity, RemoveFromCart, ClearCart |
| `fav_service` | `favourites_items`; a Redis set per user | AddToFavourites, RemoveFromFavourites, GetFavourites, IsFavourite, GetFavouritesByIDs |
| `product_service` | `sneakers`; Redis entries for sneakers (L1) and pages (L2); images in MinIO | get by id, by ids and in pages; add, delete, change image |
| `sso_service` | `users`, `apps` | Register, Login, IsAdmin; issues JWTs |
| `api_gateway` | none | REST handlers; gRPC clients with retry; authentication and admin middleware; proxy |
| `frontend` | React contexts for items, cart and favourites | pages and optimistic updates |
| external | YooKassa's payments and subscriptions; Kafka; Redis expiry; PostgreSQL | |

How they interact: the browser calls the gateway; the gateway calls the services
over gRPC with retries, and at checkout calls three of them in sequence (products
for the prices, orders, then the cart to clear it). The order service calls
YooKassa, which calls the order service back with webhooks until it gets a 200.
Nothing in the repository consumes the Kafka topic. The services share no
database and no cache.

## 2. What is hard, and what makes each part correct

Every request is a goroutine, so all operations of several calls interleave. No
transaction spans two calls, caches are filled from earlier reads, webhooks
repeat and race, deadlines and restarts cut operations short, and retries repeat
what may have happened. `PROJECT.json` lists the hazards line by line, with the
property that would catch each.

* **Orders and payments.** `CreateOrder` makes five calls (order rows, payment at
  YooKassa, payment row, URL, event), of which the last three are allowed to
  fail. A webhook makes up to five (read the payment, move it, read the order,
  move it, publish), and the next delivery of the same webhook may start in
  between. Each move is a compare-and-set in SQL, on a status read earlier.
  Correct: an order is PAID or SHIPPED only for captured money; the payment row
  says nothing the provider did not decide; orders stay on their status machine; events are published once and are true; and what the
  provider decides reaches the order in the end.
* **Cart and favourites caches.** Cache-aside over single Redis commands: a key is
  checked, read, filled and given its expiry by different commands. Redis has no
  empty hashes or sets, so that "no key" and "empty" look alike. Correct: a read
  answers with the whole of what the table holds; no key is left without an
  expiry; whatever went wrong with a copy is gone once calls stop.
* **Product cache.** Two levels that hold the same sneaker, and a SCAN that runs
  while others fill pages. Correct: both levels answer as the table does, after
  any change of any sneaker and for any page it is on, or has moved to.
* **Webhook registration.** A list that is read once, then acted on call by call,
  against a service that others change as well. Correct: an instance that
  registers alone and without errors ends with exactly its own subscriptions,
  whatever its predecessors left; nothing is subscribed twice.
* **Cart and checkout through the gateway.** Each click in a tab becomes up to three calls of
  services in sequence; each client of the gateway gives a try up after its timeout and
  tries again, and the services know no idempotency key, so that a try that was given up
  may have been done, or may be done after its repetition or after the answer. The tab
  shows changes before they are made, lets clicks overlap, and is shown the cart of the Redis hash. Correct: the cart is
  emptied, and the customer told so, only for an order that exists; a click leaves no
  more orders than tries were made; a tab that has the cart to itself shows what is in it, as long
  as the hash does;
  the order button comes back.
* **Favourites in the tab.** Ids and details are two requests, clicks overlap, a login may come while
  answers are on their way, and one loading flag and one error serve all of them. Correct: once
  everything is answered, the page shows an error or what the table holds (as long as the Redis set
  does), never the favourites of another user, and it does not go on loading.
* **Accounts and administrators.** A registration is checked by nothing but a UNIQUE
  constraint and may be done late; tokens outlive restarts of the two services that share
  a secret, which reaches them by different ways; whether an account is an administrator
  is asked before the catalogue is changed. Correct: whoever was told that an account is
  theirs keeps it; a client sees only its own account's data; only administrators
  change the catalogue; restarts log nobody out.

## 3. The modules

`Faults` says how a call of a database, a cache, a broker or the provider ends: it
works, it fails without effect (`Failing`), or it takes effect and is reported as
failed (`Losing`: a commit whose answer is lost, a deadline). `ServiceCalls` holds
the request goroutines of a gRPC server: a call starts at an idle goroutine,
becomes a record with its step and its local values, and returns. Both are
extended by the components, so that "two requests overlap" and "a call fails half
way" mean the same everywhere. `GatewayCalls` adds the clients of the gateway: `Try` is one try of
a call, which may be given up at its deadline (`TimingOut`) with its effect done, never to
be done, or kept in `late` to be done at any later moment, and is followed by another try up to
`Tries`.

### OrderModels, OrderPayments, PaymentLifecycle

`OrderModels` holds the two status machines of `internal/models`
(`validTransitions`, `ValidPaymentTransition`) and the mapping of a payment's
outcome to its order (`OrderStatusFor`).

`OrderPayments` is the service. `orders`, `linked` and `payments` are the columns
`orders.status`, `orders.payment_url` and `payments.status`; `provider` is the
payment at YooKassa and `acked` whether YooKassa has had its 200; `topic` is Kafka.
`creating` is the position of each `CreateOrder` call, `request` those of webhooks,
manual updates and `UpdateOrderStatus` calls.

| Actions | Code |
|---|---|
| `InsertOrder`, `ChargeOrder`, `RecordPayment`, `LinkPayment`, `AnnounceOrder` | `CreateOrder` of `service/order_service.go`, call by call, with the repositories and `provider/yookassa.go` |
| `DeliverWebhook`, `ManualStatusUpdate` | the handlers of `api/webhook.go`, up to the first read of the payment |
| `UpdateStatusAndGet`, `ReadOrder`, `UpdateStatus`, `PublishPaymentUpdate` | the rest of `ProcessWebhook`, of `UpdateOrderStatus`, and the answer |
| `CallUpdateOrderStatus` | the RPC, which internal callers use for `RpcTargets` |
| `Pay`, `Abandon` | YooKassa |
| `Restart` | the process is killed or shut down: all calls in progress end |

Reading back the order after its insert is part of `InsertOrder`: an error of it ends
the call as one of the commit does, with the row there ("lost"). The event of
`AnnounceOrder` always has the status of the order that was read back,
PENDING_PAYMENT, even if a webhook has moved it since, as in the code.

`AdminReports` says what the manual update reports: "nothing" where there is no
`ADMIN_API_KEY`, the provider's "decision" (an administrator who repeats what YooKassa shows),
or "anything", which the service does not prevent.

`PaymentLifecycle` is the abstract specification: orders, payment rows and the
provider with atomic steps, no requests, no faults. `OrderPayments` instantiates it
(`Lifecycle == INSTANCE PaymentLifecycle WITH ...`) and implements it as long as administrators
do not contradict the provider.

### CartCache

One user: `rows` is `cart_items` (an item's quantity, 0 without a row), `hasCart` the
row in `carts`, `issued` the serial of ids; `cache` and `ttl` are the hash in Redis and
whether its key expires. A user's requests touch no other user's rows or key,
which is why one user is enough. `GetCart`, `ReadCache`, `LoadCart`, `DropCached`, `FillItem`,
`FillExpiry` and `Answer` are a `GetCart` call (`services/cart_cache_aside.go`,
`repository/redis.go`); `AddToCart`, `RefuseItem`, `InsertItem`, `CacheItem`,
`CacheExpiry` and `Invalidate` an `AddToCart` call; and so on. A transaction is one step,
a Redis command is one step. The repository reports an error when it cannot touch
`carts.updated_at` after a change is done: "lost" stands for that too.

### FavouritesCache

One user again: `rows`, and the Redis set `cache` with `ttl`; the sentinel of a user
without favourites is a member like any other. The fill is a pipeline, which is no
transaction: `SetFavourites` has its three commands as steps, between which those of
others may come. `met` is history: have calls overlapped, or the key expired during
one? IsFavourite and GetFavouritesByIDs only read the table.

### ProductCache

`rows` maps ids to images, the one thing of a sneaker that can change; `l1` and `l2` are
the cached sneakers and pages. A page is a limit and an offset over the ids in order
(`PageOf`), so that deleting one sneaker moves others to other pages. SCAN is
`ScanPages`, `DropPage` and `FinishScan`: it returns every page that was there all the time,
and may return, or not, those that came in between. Values are set together with
their TTL. `exposed` is history: have calls overlapped, an invalidation failed, or a
change been reported as an error though it was done?

### WebhookRegistration

`RegisterWebhooks` of `provider/yookassa_webhooks.go`, which `cmd/api/main.go` calls before
it serves: `Start`, `ListWebhooks`, then one step for each item of the list
(`KeepWebhook`, `KeepForeignWebhook`, `DeleteStaleWebhook`) and for each missing event
(`CreateWebhook`), then `FinishRegistration`. An instance may `Stop` anywhere, another may
start while it is still there, with another URL, and the shop may subscribe URLs by
hand (`ShopSubscribes`). `disturbed` and `overlapped` are history: which instances had an
error or met another writer, and whether anybody did anything during a registration.
A call that takes effect only after its instance was stopped is not modelled.

### StoreServices, Checkout, Purchases

The composition of the browser's cart, the gateway and two services, for one
customer. `StoreServices` has the cart and order services as the gateway sees them: `rows` of
`cart_items` (a second row for a sneaker that is added twice, as in `AddCartItem` of
`repository/postgres.go`), `orders` placed for each click, and `Serve(call)`, which does a call
in one step. `cached` is the user's hash in Redis, from which GetCart answers whenever there is one:
`Copy(call)` is what the commands of a call make of it, `HitsCopy` and `FillsCopy` are a `GetCart` that
finds it or does not (the key expires at any time, which is part of `FillsCopy`). The commands of a
call one by one, and how calls overlap in the cart service, are `CartCache`; here a call that overlaps
another, is given up, or meets an error of Redis may leave any part of what it would have made of
the hash (`Serves`, `FillsPartly`), and `exposed` is history: may the hash be something else than the
rows? It may after an addition to a cart that was not cached (the `cart_cold_add` of section 7), after
an error of Redis and after calls that overlapped; that an unexposed hash holds the rows is `CopyInv`
of the proofs. What follows the insertion of an order is `OrderPayments`.

A request of `Checkout` is a click with everything it does until the tab has its answer:

| Actions | Code |
|---|---|
| `Open`, `Add`, `Change`, `Remove`, `ClickUnsaved` | `CartContext.jsx`: loading, and the handlers of the cart's buttons |
| `PressOrder` | `handleCheckout` of `Drawer.jsx` |
| `PostItem`, `PutQuantity`, `DeleteItem`, `ReadCart` | the cart's routes of the gateway, `client/cart` |
| `LookUpItems`, `CallCreateOrder`, `CallClearCart` | `CreateOrder` of `handler/order/handler.go`: prices, order, clearing the cart |
| `Cut`, `TakeEffect` | a gateway that is stopped (`api_gateway/cmd/main.go`), a try that is done late |
| `AddAnswered`, `ChangeAnswered`, `RemoveAnswered`, `ShowCart`, `OrderAnswered` | what follows the `await` in `CartContext.jsx` and `Drawer.jsx` |

`shown` is what each tab shows, `loading` and `creating` its two flags. `view` is history: has the tab
had the cart to itself since it last loaded it, and loaded it from a hash that was not exposed?
Prices are left out: no property compares them, and an unknown sneaker is an error of the look-up.

`Purchases` is the abstract specification: a click leaves an order, then the cart may be emptied
for it, and the customer is told once. `Checkout` implements it with
`ordered <- {n \in Clicks : orders[n] > 0}`.

### UserRoutes, Accounts

`Accounts` is sso with the gateway's two middlewares. `accounts` maps each e-mail to the client
whose password it was registered with; that is all that the hash tells apart. `admins` is `is_admin`,
which an operator sets in the database; `secret` the row of `apps` that tokens are signed with,
`started` the `APP_SECRET` each service was last started with. `StartSso` is a start with
`UpdateAppSecret`, whose error is only logged. A token is the number of its login, the e-mail and
the secret; it expires at any time (`TokenExpires`). `Authenticate` and `CheckAdmin` are the
middlewares; `CallRegister`, `CallLogin`, `CallAddSneaker`, `CallUpdateProductImage` the calls that
follow, with `Serve` as what the services do. `changes` counts what a request did to the catalogue,
the other side of which is `ProductCache`.

`UserRoutes` is what happens to the user on the way to a service: which `user_id` the gateway's
client puts in the metadata of a call, and whose rows the interceptor and the handler of
the service let out. `GetOrder` is the one call without metadata, and the order service
refuses it every time. `created`, `served`, `vouched` and `lasting` are history.

### FavoritesTab

One browser tab with `FavoritesContext`, the gateway's routes behind it and, each call one step,
the favourites service. `rows` is `favourites_items`, `cached` each user's set in Redis, from which
`GetAllFavourites` answers whenever there is one, `token` the user whose token
localStorage holds; `favoriteIds`, `favorites`, `loading` and `error` are the context's state. A
request is one chain of calls: what a click asks for, the ids that are fetched after it, and
the details of the ids.

| Actions | Code |
|---|---|
| `Load`, `FailLogin` | `Login.jsx`: a login loads the page anew (`window.location.href`), a failed one removes the token; a page that is loaded again is a `Load` of the same user |
| `Toggle`, `ToggleAnswered` | `toggleFavorite` |
| `Change`, `GetAllFavourites` | the gateway's handlers with the tries of its client, and the service |
| `ChangeLate` | a try that was given up, or a change of a page that is gone, is done after all |
| `Serves`, `SetFavourites`, `LeavesCopy` | `AddToFavourite`, `RemoveFromFavourite` and `refreshCache` of `services/fav.go`: the set after a change, or what is left of it where the refresh fails, is too late or overlaps another |
| `ShowIds`, `ShowDetails` | `fetchFavoriteIds` with the effect of the new ids; `fetchFavoriteDetails` with `/products/batch` (`TooMany`, `GetSneakersByIDs`) |

React runs the effect of new ids after the answer has been dealt with, its `finally`
and the one of `toggleFavorite` included, so that it is the end of the same step and its
`setLoading(true)` comes last. A request that fails with a message of the gateway ("load") and
one that fails without ("connect") differ: only the first sets `error`. The effects run once, as in
a production build. `had`, `exposed` and `met` are history: what a user has ever had, whose set in Redis
may be something else than the rows, and whether the tab
may have missed a change (clicks that overlap, a late change, ids that were not answered) or was
answered from an exposed set. An addition of what is there already returns without a refresh (`fav.go:78`),
so that a set that a first try has left stale stays so after the second. A reading that was
given up, or whose page is gone, changes no set later, here and in `Checkout`: its context has ended, and
the Redis client runs no command of such a context. One tab is
modelled: the token is the browser's, so that a second tab would go on with the
token of whoever logs in in the first.

### MC modules and proofs

`MC<Module>` gives a component its model values and the sets the configurations name;
`<Module>Proofs` holds its theorems (those of `PaymentLifecycle` are in
`OrderPaymentsProofs`). Definitions
marked "Mutant" are single plausible mistakes; each property of a passing run is
violated when one of them replaces the definition it is a variant of.

## 4. The runs

| Run | Configuration | Checks | Bounds |
|---|---|---|---|
| `order_safety` | `OrderSafety.cfg` | `TypeOK`, `PaidOnlyIfCaptured`, `PaymentMirrorsProvider`, `OnePaymentUpdate`, `EventsAreTrue`, `OrderFollowsTransitions`, `ImplementsLifecycle` | one order, three requests, any four faults or restarts, manual updates with the provider's decision |
| `order_delivery` | `OrderDelivery.cfg` | `AcknowledgedIsApplied`, `CapturedIsPaid`, `AbandonedIsFailed` | one order, two requests, three errors a repetition makes good |
| `cart_sequential` | `CartSequential.cfg` | `TypeOK`, `AnswersAreComplete` | three items, seven calls, one after the other |
| `cart_concurrent` | `CartConcurrent.cfg` | `CachedIsBounded`, `EventuallyCoherent` | two items, two requests, five calls, two errors |
| `favourites` | `Favourites.cfg` | `TypeOK`, `AnswersAreComplete`, `CachedIsBounded`, `EventuallyCoherent` | two sneakers, two requests, four calls, one error |
| `products` | `Products.cfg` | `TypeOK`, `AnswersAreCurrent` | three ids, two pages, two requests, six calls, two errors |
| `webhooks` | `Webhooks.cfg` | `TypeOK`, `RegistrationIsComplete`, `NoDuplicates` | two instances, two URLs, four subscriptions, three starts, one error |
| `checkout` | `Checkout.cfg` | `TypeOK`, `AnOrderPerTry`, `TabShowsCart`, `OnlyOrderedIsCleared`, `ImplementsPurchases`, `OrderButtonReturns` | one tab, two requests at a time, two sneakers, three clicks, two tries, one fault |
| `favorites_tab` | `FavoritesTab.cfg` | `TypeOK`, `PageIsTrue`, `OwnFavourites`, `LoadingEnds` | two users, two sneakers of which one has been deleted, a batch of one id, two requests, three clicks, logins or page loads, two tries, one fault |
| `accounts` | `Accounts.cfg` | `TypeOK`, `AccountsAreKept`, `OwnDataOnly`, `AdminsChange`, `LoginsLast` | two clients, e-mails, secrets and requests, three calls, two tries, two faults or restarts |

Two more runs end in a counterexample on purpose; see
[What the checks found](#7-what-the-checks-found).

Why the bounds are enough to be interesting:

* *Orders.* No step reads or writes two orders. Two requests are needed for a race and
  a third to overlap with both; four faults allow one in `CreateOrder`, one in each of two
  webhooks and a restart.
* *Delivery* tolerates the errors that a repeated webhook can make good, by the
  design of the code: errors with no effect up to and including the update of the
  payment row (`readPayment`, `settle`), and any end of what comes after the order is
  moved. What it leaves out: a restart between the two updates is the subject of
  `order_lost_update`, a failing payment row of section 7.
* *Cart.* `cart_sequential` has every operation and errors of everything that reads,
  of the changes of the table, and of the DEL before a fill, with a key that never expires; with expiry, or with
  errors of what writes the cache, `AnswersAreComplete` fails (section 7). `cart_concurrent` has overlapping calls
  other than updates, expiry, and the errors that the service makes good.
* *Favourites.* All operations and expiry, and any error but that of EXPIRE (and those after
  which the pipeline does not come to it).
* *Products.* All operations and any two errors. One page with both sneakers and one with
  the second of them are the smallest case in which a deletion moves a sneaker to
  another page.
* *Webhooks.* Four subscriptions are two events at two URLs. Three starts are a
  predecessor that stops half-way, a second instance that overlaps, and a restart.
* *Checkout.* One tab loads the cart, adds and orders, or clicks three times, of which two overlap; what
  `view` and the invariants say of a second tab is left to the theorems, which hold for any number of
  tabs. Two sneakers and two rows are needed for a hash that holds a part of the cart: the key expires,
  an addition leaves its item alone in a new hash, the tab shows and orders that one item, and
  ClearCart drops the other row too. The run reaches this without any fault, and the tab is then
  not "exact" but "stale". `Tries` is 2 where the clients have 3: with two, a try that was
  given up already overlaps its repetition and the answer, for which one fault is enough. Errors
  of Redis are only logged and not counted as faults. `OrderLimit` 1 and `MaxQuantity` 2 make a cart that
  can be filled and not be ordered. Any number of requests, faults and tries is in the theorems.
  Requests do not differ, so that a click takes one fixed idle request (`IsNext`) instead of any.
* *Favourites in the tab.* A login and two clicks that overlap, or one click and a second login while
  its answers are on their way; a try that is given up or done late, or another error. One fault is enough
  for an addition that is given up after its row was written and before its refresh, and is repeated: the
  ids then come from the stale set, and `met` notes it. Errors of Redis after a change are only logged
  and not counted as faults, those of a reading are. The users
  start with any favourites (of earlier visits). With a batch of one id, two favourites are too
  many for `/products/batch`, which takes 100.
* *Accounts.* Two people who register one e-mail and a login of either; a login, a restart and a
  visit; a registration that is given up and done after another. Two secrets are the one
  that a service keeps and the one that the other is started with. The symmetry of e-mails,
  clients, secrets and requests is sound: no property is a liveness property, and no
  element is named.

`Failing`, `Losing` and `MaxFaults` bound the errors, `MaxCalls` and `MaxStarts` the calls and
starts. `CHECK_DEADLOCK FALSE` stands where all calls of the bound may be made and all
requests answered.

## 5. Fairness

* `Step(r)` of the carts and the favourites, and `Process(r)` and a started `Create(o)` of orders, are weakly
  fair: a goroutine that can go on does. Calls themselves are not fair: nobody has to
  order, pay, read or change.
* `Step(r)` of `Checkout` and `FavoritesTab` is weakly fair as well: each call of the gateway has a deadline and its
  tries an end, and the browser runs the handler of an answer. Clicks are not fair, nor are
  late tries or cuts.
* The expiry of a key that has one is weakly fair: Redis expires it.
* `DeliverWebhook` is strongly fair for each order. YooKassa repeats a notification until
  it gets a 200, and the HTTP server gives each delivery a goroutine of its own; the
  model has a fixed set of goroutines, which other requests may occupy at every
  moment a weakly fair delivery would be looked at.
* Faults are not fair, and bounded: a failure that lasts for ever is not what the
  liveness properties are about.

## 6. The theorems

All hold for every value of the constants that satisfies the named assumptions of the
modules (ranges of bounds, disjointness of model values), so for any number of
requests, orders, items, calls and errors.

| Theorem | Says | Under |
|---|---|---|
| `OrderPaymentsProofs!TypeCorrect` | `[]TypeOK` | |
| `OrderPaymentsProofs!OrdersFollowTransitions` | `OrderFollowsTransitions` | |
| `OrderPaymentsProofs!PaymentsMirrorProvider` | `[]PaymentMirrorsProvider` | administrators are truthful (`AdminReports # "anything"`) |
| `OrderPaymentsProofs!OneUpdateIsPublished` | `[]OnePaymentUpdate` | administrators are truthful (`AdminReports # "anything"`) |
| `OrderPaymentsProofs!EventsStayTrue` | `[]EventsAreTrue` | administrators are truthful (`AdminReports # "anything"`) |
| `OrderPaymentsProofs!ServiceImplementsLifecycle` | `ImplementsLifecycle` | administrators are truthful (`AdminReports # "anything"`) |
| `OrderPaymentsProofs!PaidOrdersAreCaptured` | `[]PaidOnlyIfCaptured` | administrators are truthful, no caller asks for PAID |
| `OrderPaymentsProofs!PaidIsCaptured` | the same of the abstract specification | no caller asks for PAID |
| `OrderPaymentsProofs!AcknowledgedOutcomesAreApplied` | `[]AcknowledgedIsApplied` | `OutcomesGetThrough` |
| `CartCacheProofs!TypeCorrect`, `AnswersAreTrue`, `KeysExpire` | `[]TypeOK`, `[]AnswersAreComplete`, `[]CachedIsBounded` | `AnswersAreTrue`: `NothingIntervenes`; `KeysExpire`: `ExpiryIsSet` |
| `FavouritesCacheProofs!TypeCorrect`, `AnswersAreTrue`, `KeysExpire` | `[]TypeOK`, `[]AnswersAreComplete`, `[]CachedIsBounded` | `AnswersAreTrue`: `RefreshesAreCovered`; `KeysExpire`: `ExpiryIsSet` |
| `ProductCacheProofs!TypeCorrect`, `AnswersCurrent` | `[]TypeOK`, `[]AnswersAreCurrent` | |
| `WebhookRegistrationProofs!TypeCorrect`, `RegistrationCompletes`, `NothingIsSubscribedTwice` | `[]TypeOK`, `[]RegistrationIsComplete`, `[]NoDuplicates` | |
| `CheckoutProofs!TypesHold`, `CheckoutImplementsPurchases`, `OrdersAreCounted`, `TabsShowTheCart`, `OnlyTheOrderedIsCleared` | `[]TypeOK`, `ImplementsPurchases`, `[]AnOrderPerTry`, `[]TabShowsCart`, `[]OnlyOrderedIsCleared` | |
| `FavoritesTabProofs!TypesHold`, `FavouritesAreOwn`, `PagesAreTrue` | `[]TypeOK`, `[]OwnFavourites`, `[]PageIsTrue` | |
| `AccountsProofs!TypesHold`, `Keeping`, `OwnData`, `Administration`, `Lasting` | `[]TypeOK`, `[]AccountsAreKept`, `[]OwnDataOnly`, `[]AdminsChange`, `[]LoginsLast` | |

The arguments:

* *Orders.* A move of an order is a compare-and-set on the status a request has `seen`, so
  it is enough that what a request holds at `cas` is a valid transition from `seen`
  (`TransitionInv`). `PaymentMirrorsProvider` is not inductive: a webhook in progress carries a
  status it will write. `MoneyInv` adds that a webhook's status is the provider's decision,
  and after its update the row's (`WebhookInv`), and how far `CreateOrder` has come, seen in
  tables and provider (`CreateInv`: no payment before the order's row, no payment row before
  the payment). `OnePaymentUpdate` adds `UpdaterInv`: only one request ever gets the row back from
  the update, and it publishes as its last step. `EventsAreTrue` adds `EventInv`: a request that is
  to announce PAID has found the order there, or beyond, and neither final rows nor paid
  orders ever go back (`PaymentFinalStep`, `PaidStays`).
* *Refinement.* The refinement mapping is the identity on `orders`, `payments` and `provider`. With
  `MoneyInv` every step of the service is one step of `PaymentLifecycle` or a stutter; the
  invariant is what tells that a late webhook's write is an allowed `Settle` or `Move`.
  `PaidOrdersAreCaptured` is then carried over from the abstract level, where it is simple.
* *Acknowledged outcomes.* `OutcomesGetThrough` says what must not happen: administrators who report
  another outcome, callers that set anything but SHIPPED or CANCELLED, restarts, and errors between the update
  of the row and that of the order, which are those of `order_lost_update`. Any other error may
  come, any number of times, and so may manual updates with the provider's decision. `InStep`,
  that an order has left PENDING_PAYMENT only for CANCELLED or for its row's outcome, is
  proved on the steps of `PaymentLifecycle` and carried over by the refinement. `AppliedInv` then has for each
  final row that its order has the outcome, or the one request that moved the row is on
  its way to the order (`Applies`); that request finds a status that it may leave, or one that
  has the outcome already.
* *Cart answers.* `NothingIntervenes`: one call after the other, no expiry, no error of what writes
  the cache (HGET included, which an update needs to write it), no lost answer of what changes
  rows or cache. `CacheFollows`: between calls the cached
  cart is the cart, and a call that is at work has left to do just what they differ in
  (`CatchesUp`): the one item after a change of it, all of them during a fill and after a
  clear. No part of it can be left out: with any one of these faults added, or expiry, or a second
  request, TLC finds the property violated on the instance of `cart_sequential`.
* *Favourites answers.* Nothing is assumed of overlaps or of the expiry: `met` keeps track of what
  may have exposed the cache. `RefreshesAreCovered` asks that no change of the rows loses its answer, and that a refresh
  does not fail twice: it drops the key before it loads the rows and again before
  it fills it, so that one error leaves one of the two. `OneByOne`: the cached set is that of the
  rows or there is none, or the first DEL has failed and the second is still to come
  (`MissedDrop`).
* *Keys expire* (cart, favourites). `ExpiryComes`: if the key is there without an expiry, some request is
  at the step that sets it, or drops the key. For the cart this needs that there are no
  updates, and no errors of a fill or of the DEL that makes other errors good; for the
  favourites that the pipeline comes to a working EXPIRE (`ExpiryIsSet` of either).
* *Products.* `Coherence`: while nothing has exposed the cache, requests do not overlap, and each cached
  value is current or is one that the call in progress is going to drop; SCAN drops
  every page that was there when it began.
* *Webhooks.* `Completing`: an undisturbed instance registers alone, and of its loop it
  holds that every stale subscription is still to be considered and every event noted is
  registered (`Advances`). `OneByOne`: as long as nothing overlapped, an instance knows of each
  subscription of its URL, either noted or to be considered, so that what it creates is new
  (`Knows`).
* *Checkout.* `Good` has the types, and for each request which call it is at and that clicks are not
  shared. The refinement maps the abstract `ordered` to the clicks with an order (`{n \in Clicks : orders[n] > 0}`);
  `OrderedInv` says that whoever clears the cart or is to confirm has its order, late tries
  included, and that its customer has not been told before. `AnOrderPerTry` is not inductive: a
  try that was given up may still leave an order. `CountInv` counts what a click has left together
  with the tries that may yet be done (`Expected`, `Outstanding`), and bounds the sum by the tries made
  and by the faults. `TabShowsCart` and `OnlyOrderedIsCleared` follow from `ViewInv`: a tab that is not
  stale has the cart to itself, with one request at most and none late, and what it shows fits
  what that request is going to do or has done (`Fits`, one part for each kind of click), ids being given
  once (`RowsInv`). `CopyInv` is what makes a loading bring the cart: a hash that is not exposed
  holds the rows, and whoever loads an exposed one is stale.
* *Favourites in the tab.* `OwnInv` says of the requests in progress what `OwnFavourites` says of the
  page: they ask for the user who is logged in, because a login loads the page anew, and their
  ids are among those the user has had. `PageInv`: while the tab has missed nothing, there is one
  request at most, the ids that it was answered are still the rows', and the hearts have
  them when it asks for the details (`TrueAnswers`). `CopyInv`: a set that is not exposed is that of the
  rows or there is none, so that ids from it are the rows'; `OwnInv` says of the sets as well that they
  hold nothing that their user never had.
* *Accounts.* None of the four properties is inductive: what is true of an answer has to be true of
  the request before. `Inv` says it of each place where a token or a request can be.
  `GoodToken`: a token is for an account whose password is its holder's, and if its login is to
  last, it has the gateway's secret. `GoodRequest`: a request behind the middlewares is for its
  token's account, an answer holds the rows of that account only, and a request that has
  passed `CheckAdmin` is vouched for; `LateIsVouched` says the same of tries that were given up, which
  is what makes `AdminsChange` hold when they are done after the answer. `Numbered` and `LoginsAreNew`
  tell apart the tokens of different logins, and `Secure` that a login counts as lasting
  only when the signing secret is the gateway's. The proof goes action by action; `Steady` and
  the lemmas after it collect what the actions of other requests leave as it is.

Every invariant and action property that a passing run checks, and both refinements, are stated by a theorem. Only
model-checked are the liveness properties `CapturedIsPaid`, `AbandonedIsFailed`, `EventuallyCoherent` (of
the carts and the favourites), `OrderButtonReturns` and `LoadingEnds`: they rest on fairness, and the
prover has no ENABLED. The named assumptions are at least as wide as the configurations of the
runs, which bound requests, calls and errors besides; where an assumption is left out, section 7 says what fails.

## 7. What the checks found

Disagreements between the code and what the repository says of it, each a run with a
counterexample:

* `order_lost_update`: a restart, or an error, between the update of the payment row and
  that of the order. The repeated webhook finds the row final, takes itself for processed
  and gets a 200; the order stays PENDING_PAYMENT.
* `cart_cold_add`: `AddToCart` writes its item into a hash that may not be there; the next
  `GetCart` takes the one item for the cart. With a key that expires this needs no error.

Met in the models, and kept out of the passing configurations or the properties: a manual update
and a webhook that both read a pending payment can take its row from one final status to the
other, which the status machine forbids, because the UPDATE of `payment_repository.go:46` only asks
that the status differs. It takes an administrator who contradicts the provider (`AdminReports` "anything"): with
a truthful one there is only one final status to report, so no run or theorem states that a final
payment row is final. A tab that is alone
and meets no error shows a part of its cart, orders that part and has all of the cart cleared, when the hash has
expired before it adds an item; `TabShowsCart` and `OnlyOrderedIsCleared` except this by `exposed`
and `view`. An addition to the favourites that reaches its deadline after its row was
written refreshes on an expired context (`fav.go:86`), and its repetition returns nil without a refresh
(`fav.go:78`): the heart that was clicked stays as it was, without an error, until another change or the
expiry; `PageIsTrue` excepts this by `exposed` and `met`. A sneaker or a page of the catalogue
that was read before a change and cached after it, a page that SCAN missed, and what a failed invalidation
left are stale until their TTL; `AnswersAreCurrent` excepts them by `exposed`. Ids of
favourites that are not answered, or not by the gateway, leave `FavoritesContext.jsx:60` with a
message that is undefined, so that the page says that there are no favourites yet
(`Favourites.jsx:60`); `PageIsTrue` excepts this by `met`. A payment row that
cannot be saved is only logged (`order_service.go:76`), and the URL is handed out, so that the
payment can be made and the order is never PAID (`order_delivery` leaves this error out). The
gateway's client asks for an order without the user's metadata
(`client/order/client.go:122`) and the order service refuses that, so that `GET /orders/:id`, "Заказ
по ID (только свои)" in `api_gateway/README.md:59`, never answers with an order: in `Accounts`,
`CallGetOrder` ends in an error only. The second of two rows of a sneaker, which a repeated `AddToCart`
leaves, is one more line of the cart. A failed login or registration removes the token
(`Login.jsx:47`) that another tab of the browser may have got. A cart with a quantity
above 100 can be filled and not be ordered. A removal of a favourite that was given up and is
repeated finds no row and is an error though it is done; the heart stays liked and cannot be
unliked until the ids are fetched for another reason (in `FavoritesTab`, an error that
`PageIsTrue` allows); the gateway's 404 for it (`handler/favourites/handler.go:91`) is never
sent, because the service answers Internal. More than 100 favourites end in an error of the favourites page, on
which none of them can be removed.

Further failures outside the passing configurations, most of them listed as hazards: a cart or
favourites key that expires between EXISTS and the read is answered as empty; an update of the
cached cart between HGET and HSET that meets a `ClearCart` or the expiry leaves a key without
TTL; so does a fill of the cart that fails half-way; two first additions of a user break
the primary key of `carts` and one fails; a failing EXPIRE leaves the favourites for ever; a refresh of the favourites that
fails to drop the key, and then again before it has filled it, leaves the set as it was before the change; a
change reported as an error though it was done leaves the copy as it was; two instances
that register at once may leave both URLs, or one twice.

Met while reading, not a matter of behaviour over time: a second registration of an e-mail is
answered Internal, where `server.go:77` of sso, the gateway's 409 and
`auth_register_login_test.go:68` expect AlreadyExists (the storage's error is wrapped, and
compared with another one), and so is IsAdmin of an unknown user; the order service's shutdown
(`cmd/api/main.go`) waits in `GracefulStop` without the deadline that it gives the HTTP server; a password of 72 runes may be longer than bcrypt's 72
bytes and is answered 500; a withdrawn sneaker is hidden by the drawer and makes the
order fail with 400; an image key of 256 characters
passes `ValidateImageKey` and not VARCHAR(255); the README of `fav_service` gives
`GetFavouritesByIDs` ids of sneakers where the SQL compares ids of rows; the gateway
answers that route with 501.

## 8. What is not modelled

| Part | Why |
|---|---|
| gateway: public catalogue routes but the batch, request id, proxy | stateless translation of one request into one call; nothing of it but the call is seen by a service |
| frontend: `ItemsContext` | the catalogue, read once when the page is loaded and never changed |
| gRPC servers, interceptors | recovery and logging; what they take from the metadata is in `UserRoutes` |
| frontend: pages | rendering and forms; what `Login.jsx` does with the token is in `Accounts` |
| hashing, JWT signatures | libraries: a password fits a row or not, a signature fits a secret or not |
| protos, start-up, configuration, migrations, deployment | generated code, wiring, containers |
| prices, images, e-mails, wording of messages | data no property distinguishes |

Of modelled services: reads that neither cache nor change anything (GetFavouritesByIDs,
and GetSneakersByIDs but for its errors and deleted sneakers) and the signing of
upload URLs.

## 9. The plan

The most important behaviour first: money, then the caches every page reads, then what
connects the services.

| Step | Module | State |
|---|---|---|
| 1 | `OrderModels`, `OrderPayments` with `PaymentLifecycle` | modelled, checked, proved |
| 2 | `CartCache` | modelled, checked, proved |
| 3 | `FavouritesCache` | modelled, checked, proved |
| 4 | `ProductCache` | modelled, checked, proved |
| 5 | `WebhookRegistration` | modelled, checked, proved |
| 6 | `GatewayCalls`, `StoreServices`, `Checkout` with `Purchases` | modelled, checked, proved |
| 7 | `UserRoutes`, `Accounts` | modelled, checked, proved |
| 8 | `FavoritesTab` | modelled, checked, proved |
| 9 | An abstract cache (a table, and reads that answer a value the table has had) | implemented by the three caches where nothing is exposed; to come |

"Proved" leaves out liveness (section 6).
