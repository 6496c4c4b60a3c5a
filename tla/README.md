# TLA+ for the ChienMicroService checkout

This directory specifies, model-checks and partly proves the behaviour of the
shop's microservices that is hard to test: the two checkout sagas of
`Saga.Orchestrator` over HTTP, the checkout of `Basket.API` over RabbitMQ, the
basket with its reminder jobs in `Hangfire.API`, the order table of
`Ordering.API`, the entries of `Inventory.API` with their paging, and the
client-side form validation the health page ships.
Paths below are relative to `src/src/`.

## 1. The system

| Component | State it keeps | Operations | Interacts with |
|---|---|---|---|
| Saga order manager (`Saga.Orchestrator/.../OrderManager/SagaOrderManager.cs`) | none that persists; a Stateless machine and four locals for each request | `CreateOrder`, `RollbackOrder` (never reached) | HTTP to Basket, Ordering, Inventory; called by `CheckoutController` |
| Saga checkout service (`.../Services/CheckoutSageService.cs`) | locals of an async method | `CheckoutOrder`, `RollbackCheckoutOrder` | the same HTTP calls, one sale for each item |
| HTTP repositories and retry policies (`.../HttpRepository`, `BuildingBlocks/Infrastructure/Policies`) | retry count of the call under way | GET/POST/DELETE with 3 retries | the three services |
| Basket.API (`Services/Basket.API`) | Redis: the cart of a user, with the id of its reminder job | get, update, delete, checkout | publishes `BasketCheckoutEvent`; gRPC to Inventory; HTTP to Hangfire.API |
| Ordering.API (`Services/Ordering`) | SQL Server: orders | create, update, delete, by id or document number; consumes the event | domain events after each save |
| Inventory.API and Inventory.Grpc (`Services/Inventory`) | MongoDB: purchase and sales entries | purchase, sale of an item, sale of an order, stock sum | called by the sagas and by Basket.API |
| Hangfire.API | scheduled jobs | send-email-reminder, delete job | called by Basket.API |
| Paging (`BuildingBlocks/Shared/SeedWord`) | none | clamp parameters, cut a page, metadata | queries of Inventory.API |
| Unobtrusive validation (`WebApps/WebHealthStatus/wwwroot/lib`, vendored) | options, validator, marks and pending checks of a form | parse, check, submit, reset, answer of a remote check | jQuery Validate, the page, the server |
| Product.API, Customer.API, gateway, identity, logging, mail | a table each, or none | CRUD, routing | little |

The behaviours that are hard:

* **Interleaving.** Request threads of one user read, sell and remove the same
  basket. Every HTTP call is a point where others run.
* **Retries of calls that are not idempotent.** The policies repeat POSTs whose
  reply was lost after they were executed; a call its client has given up may
  be executed at any later time.
* **Partial failure.** Three services and no distributed transaction: an
  exception between two calls leaves orders and sales behind; compensation is
  an entry callback in one saga and a catch block in the other.
* **At-least-once delivery.** Ordering.API may die between inserting the order
  and acknowledging the message.
* **Timeouts against late answers.** The reminder endpoint waits 10 seconds, its
  client 5: an attempt given up still schedules its job. One circuit breaker
  counts the failures of every basket's calls.
* **Calls nobody awaits.** The deletion of a reminder job is sent and forgotten.
* **Two saves, events in between.** `OrderContext` clears the domain events
  before each save and dispatches them after it; `CreateOrderHandler` saves twice.
  A save may be committed and throw all the same.
* **Re-entrant and late callbacks.** A form's reset handler resets the form;
  the answer of a remote check arrives after a reset or a second parse.
* **Stale state.** Orders are deleted and baskets changed by other clients
  between the calls of a saga.

What makes each component correct:

* sagas: success means the whole cart was sold under an order of that checkout;
  stock is only taken under an order; a basket is only emptied after its sale;
  every request is answered; duplicates are bounded by the retries; a failure
  without broken calls leaves nothing; both implement one protocol;
* bus checkout: an accepted checkout is never lost, duplicates are bounded by
  crashes, the basket goes only after the event is out;
* reminder: a reminder that is still to be mailed can be called off, a cart is
  only overwritten by requests that overlapped, jobs are bounded by attempts and
  by the breaker, and the shopper is answered whatever Hangfire.API does;
* ordering: one deletion succeeds and is announced, an update is written whole, a
  row never comes back, an order is announced unless the process dies or its
  committed save throws;
* inventory: what an answer says has happened, and a walk over the pages misses
  no more entries than were removed of those it had read;
* paging: pages partition the result and `HasNext` is exact;
* forms: rules are those declared, marks and errors agree but for fields hidden
  or disabled since, a reset ends.

## 2. Modules

| Module | Models | Builds on |
|---|---|---|
| `CheckoutServices` | what Basket, Ordering and Inventory do with a saga's calls; abandoned attempts; other clients | |
| `CheckoutProtocol` | what a checkout promises its caller: forward only, in order, answered once | |
| `SagaOrderManager` | `SagaOrderManager.CreateOrder` | EXTENDS `CheckoutServices`; refines `CheckoutProtocol` |
| `SagaOrderManagerProofs` | theorems and proofs | EXTENDS `SagaOrderManager` |
| `CheckoutSageService` | `CheckoutOrder` with its rollback | EXTENDS `CheckoutServices`; refines `CheckoutProtocol` |
| `CheckoutSageServiceProofs` | theorems and proofs | EXTENDS `CheckoutSageService` |
| `BasketCheckout` | `BasketsController.Checkout`, the broker, `BasketCheckoutEventHandler` | |
| `BasketCheckoutProofs` | theorems and proofs | EXTENDS `BasketCheckout` |
| `BasketReminder` | `BasketRepository`, its HTTP client with retry, breaker and timeout, the job endpoints | |
| `BasketReminderProofs` | theorems and proofs | EXTENDS `BasketReminder` |
| `OrderTable` | what the sagas may assume of the order table | |
| `OrderStore` | the command handlers, `RepositoryBase`, `OrderContext`, domain events | refines `OrderTable` |
| `OrderStoreProofs` | theorems and proofs | EXTENDS `OrderStore` |
| `Paging` | request parameters, `PageList`, `MetaData`, as operators | |
| `PagingProofs` | theorems and proofs | EXTENDS `Paging` |
| `InventoryStock` | `InventoryController` and `InventoryService` over MongoDB | EXTENDS `Paging` |
| `InventoryStockProofs` | theorems and proofs | EXTENDS `InventoryStock`, `PagingProofs` |
| `UnobtrusiveAdapters` | from `data-val-*` attributes to rules, as operators | |
| `UnobtrusiveForm` | one form: parsing, checks, remote answers, reset | EXTENDS `UnobtrusiveAdapters` |
| `UnobtrusiveFormProofs` | theorems and proofs | EXTENDS `UnobtrusiveForm` |
| `MC...` | small instances of each for TLC | |

### CheckoutServices

`basket[u]` is the set of items under the user's Redis key. `placed` is the
order table in identity order, holding the checkout each row was inserted for,
and `deleted` the identities removed since: an identity is never used again.
`documents` are the sales documents of MongoDB, each with the order number it
was posted for and the items it took. Quantities, prices and addresses are left
out: nothing in these paths branches on them. `SalesOrderAsync` has no
transaction, so a sale whose reply never came may have recorded any part of its
items (`LateUpdateInventory`).

`abandoned` holds the attempts whose client got no reply and went on: a reset
connection, a 5xx, a timeout. A late action executes one of them at any later
time, or never, which covers both outcomes of a lost reply (executed before it
was lost, or not). The model keeps no fairness on late actions.

`ShopperChangesBasket` is also the expiry of the key. `ClientDeletesOrder` is
`DELETE /order/{id}` from anyone.

Three constants are wiring:

* `ResponseForwarded = FALSE` is this commit: `LoggingDelegatingHandler`, the
  outermost handler of every client, returns a new 502 whatever it received
  (`LoggingDelegatingHandler.cs:39`), so both sagas fail at their first call
  (run `saga_discarded`).
* `OrderRouteMapped = FALSE` is this commit too: `POST /order` is commented out
  (`OrderController.cs:68-77`), so the first write would get 404.
  The other runs set both to TRUE: the sagas are written for services that
  answer, and what they do with the answers is the interesting part. The theorems
  hold for every value.
* `ServicesMayDecline = TRUE` lets a call answer -1, null or false: values the
  saga's branches test and the repositories' signatures allow.
  The services of this repository answer with an entity or an error status, and
  `EnsureSuccessStatusCode` turns the latter into an exception; FALSE is that.

### SagaOrderManager

A Stateless trigger evaluates its dynamic destination (one blocking HTTP call),
enters the state and runs its `OnEntry`, which fires the next trigger. An action
is therefore one call with the transition and the entry after it; `state[r]` is
the machine's state, `cart`, `orderId`, `docNo` the captured locals (0 for the
initial -1 and null). `EntryTrigger` and `PermittedTrigger` are the two
halves of the configuration; where they differ, `Fire` throws, and so it does
when the call is answered with an error (`FireThrows`, `AnswersError`).
An exception of any callback leaves `CreateOrder` (`AttemptFatal`). `Answer` reads the final state. `RollbackOrder` is not
modelled because no reachable step calls it: its only caller is the action of
`DeleteInventory`, which nothing fires.

### CheckoutSageService

`pc[r]` is the call awaited. The `foreach` sells one item a turn (`SellItem`,
`unsold`, `docNos`). Only calls inside the `try` lead to the rollback;
`DeleteOrder` ignores its status; `DeleteDocuments` throws at the first document
because Inventory.API maps no such route and the repository method throws on
success too. Carts are sets: a cart with the same item twice is not
distinguished from one with it once. The service is registered in the
container; the controller of this commit calls the order manager.

### BasketCheckout

One request steps through read, publish, delete. `PublishBreaks` and
`DeleteBreaks` cover an exception and a crash of Basket.API, with either outcome
at the broker or in Redis. A message is `queued`, `consuming`, `handled`, `acked`
or, if its consumer threw, `faulted` (MassTransit's error queue; no retry is
configured). `OrderingCrashes` requeues what was not acknowledged. Both kinds of
crash happen between any two steps. `MediatorHasCommandHandler = FALSE` is this
commit: `BasketCheckoutEventHandler` injects MassTransit's `IMediator`, whose
only registered consumer is the handler itself, so `CreateOrderCommand` is
handled by nobody (`ServiceExtensions.cs:37-40`). Whether MassTransit drops such
a command or throws is its own affair: the model allows both.

### BasketReminder

`pc[r]` is the await a request is at. A cart is the update that wrote it, its job
id and whether the key expires: the write-back of the job id
(`BasketRepository.cs:79`) passes no options, so the key loses its expiry, and it
writes the cart the request posted over whatever is there. A job is named by the
attempt that schedules it, because an attempt whose client has timed out still
does (`Schedules` needs no one to wait). `deletes` are the DELETE calls nobody
awaits, in any order and lossy. `Admitted`, `CallSucceeds` and `CallFails` are
Polly's circuit breaker, shared by all calls of the client; how long it stays open
is left open. A retry happens at once and meets the breaker as the failure left
it. The 404 of the unmapped URL is a success to the breaker.

The constants `ScheduleUrlMapped`, `ReplyInTime` and `ResponseForwarded` are
FALSE in this commit: the URL starts with the type name of the `HttpClient`
(`BackgroundJobHttpService.cs:22`), the delay exceeds the timeout, and the
response would be dropped. Each hides the next. The run sets all three to TRUE,
which leaves timeouts possible at every attempt: the behaviour with a delay above
the timeout is the part of the state space where no call succeeds, and
`BreakerBoundsPosts` is about it.

### OrderStore and OrderTable

A request has its own `DbContext`; an action is one database call with what the
handler does after it. `exist` is the tracked copy `RepositoryBase.UpdateAsync`
finds: equal values write nothing, others write every column, because
`OrderContext` sets the state of the entry to Modified. `announced` and `dropped`
count the domain events dispatched. `OrderTable` is what `CheckoutServices`
takes for granted of `placed` and `deleted`; that the handlers implement it is
checked and proved.

A call that fails comes in two forms. `SaveThrows` leaves the table as it was.
`SaveCommitsThenThrows` is a save of any of the three handlers whose commit
succeeded and whose confirmation was lost (`OrderContext.cs:78`; no retrying
execution strategy is configured): the table has changed, the exception leaves the
handler, and the events of that save are lost with it. So a created order may stay
unannounced without a crash, and a deleted one without its event;
`InsertedIsAnnounced` allows for the former, and `OneDeletionSucceeds` counts only
deletions answered as successful.

### Paging and InventoryStock

`Paging` holds the setters of `PagingRequestParameters`, the 32-bit `Skip` of
`PageList` and the properties of `MetaData` as operators. `PageList` derives from
`List` and keeps its metadata private: what a client receives is an array. So a
reader of `InventoryStock` goes on until a page is not full, and the count query
before a page has no effect the model could show. There is no sort; the
collection is taken to answer in insertion order, which MongoDB does not promise.
The collection is a set, whose ids tell that order: `Position` ranks an entry among
those of its item, and a page is the entries whose positions `PagePositions` gives.
`seen[r]` is the sequence of the pages a reader has got.
A single entry has a document number nobody else has, for which `OwnDocument`
stands; a sales order shares its own among its lines. A call to the database that
fails may have been done (`InsertThrows`, `DeleteThrows`).
`Skip` wraps: page 85,899,347 of size 50 is a small positive Skip again. A reader that
goes page by page does not get there: the first page whose offset is too large has a
negative Skip and is refused (`SkipWraps`).

### UnobtrusiveAdapters and UnobtrusiveForm

`jquery.validate.unobtrusive.js` and what it uses of `jquery.validate.js` 1.17,
the only JavaScript of the repository that is not a minified or style library.
They are vendored, and `_ValidationScriptsPartial` is included by no page of this
commit: these modules are about code that is shipped, not about a feature of the
shop. An element is a record of its attributes; `AdaptedOf` folds the registered
adapters over it in the order of their registration. `UnobtrusiveForm` runs one
event at a time; `depth` counts the activations of `onReset`, which with jQuery
Form (`FormPlugin`, not in the repository) calls itself through `resetForm`, and
`todo` is what the last remote answer goes on to do. A later parse never reaches
the validator a form already has: `RulesAreDeclared` says so of `attachedAs`. Its
messages are left out, because `remote` exchanges them while it waits.

`form()` checks what `elements()` selects: not the submit, reset and image inputs, the
disabled fields and the hidden ones (`jquery.validate.js:638-639`). What page scripts
hide or disable is left open: `Validate`, `Submit` and `Resubmit` check any of the
`Selections` of the fields with rules. Those they leave out are forgotten by
`invalid`, which is made anew of the errors found (line 447), while their containers
stay as they are. `PassOver` is `element()` of a hidden field (lines 471-472), which
forgets it too. The history variable `passedOver` holds these fields until they are
checked themselves, answered for or reset, so that `ErrorsAreExplained` can name
them: a marked field that is neither invalid nor pending was passed over.

## 3. Runs

| Run | Instance | Shows |
|---|---|---|
| `saga_one` | one checkout, two items, two attempts a call, any reply | `IInv` (the inductive invariant), `SaleHasItsOrder`, `DuplicatesBounded`, `CleanFailure`; every request is answered; `CheckoutProtocol` is implemented |
| `saga_same_user` | two checkouts of one user and a second user, one item | `SuccessMeansSold`, `BasketClearedAfterSale` under interleaving |
| `saga_discarded` | one checkout, responses dropped; violation expected | a checkout throws although nothing broke |
| `sage_one` | one checkout, two items | `FailureHidesNoSale`, `OrderDeletedByItsRollback`, answered, `CheckoutProtocol` |
| `sage_same_user` | two checkouts of one user, any reply | `SuccessMeansSold`, `BasketClearedAfterSale` |
| `sage_no_rollback` | one checkout; violation expected | a rollback with documents to delete deletes none |
| `basket_checkout` | two checkouts of one user, a bystander, two crashes | `AcceptedIsNeverLost`, `OneOrderPerDelivery`, `OrderHadABasket`, `BasketClearedAfterPublish`, `EventIsSettled` |
| `basket_no_order` | the wiring of this commit; violation expected | a published event never becomes an order |
| `reminder` | two updates and a removal of one basket, two attempts, threshold 2 | `JobIsOwn`, `LiveJobIsTracked`, `LatestRequestStands`, `RemindersBounded`, `BreakerBoundsPosts`; every request is answered |
| `orders` | two creations, two updates and two deletions, one crash | `OneDeletionSucceeds`, `RowIsOneRequest`; inserted orders are announced; `OrderTable` is implemented |
| `stock` | a sales order, deletions and a reader over two items, four entries, page sizes -1, 1 and 9 asked against a maximum of 3 | `WalkIsComplete`, `AnsweredMeansDone` |
| `form` | two fields, one with a remote rule and two sets of attributes, jQuery Form loaded | `RulesAreDeclared`, `ErrorsAreExplained`, `ResetRunsOnce` |

**Bounds.** `MaxAttempts = 2` stands for the code's 4: one retry is enough
for a duplicate, a late original and a late retry; further retries repeat the same
step, and the theorems hold for any number. Two items are the least for a partial
sale and for a `foreach` that fails in the middle; two checkouts the least for a
race on a basket; a second user the least for a basket that must stay untouched.
In the two-checkout saga runs `MCFewLosses` stops the search at states with more
than one abandoned attempt at a time or more than five order rows and documents
together. The two checkouts need four, which leaves a duplicate of either kind,
and an abandoned DELETE that arrives after its caller was answered. `saga_one` and
`sage_one` have no such limit: the retry bound makes them finite.
`MaxCrashes = 2` gives a crash during a redelivery. In `reminder` a threshold of
2 (3 in the code) lets one failure pass and the next open the circuit, during a
retry or by a DELETE of another request; with two updates and a removal each may
run first, overlap the others or come last. In `orders` two updates are the
least that could mix columns, two deletions the least that could both succeed,
every save may fail on either side of its commit, and a crash may take any set of
requests under way. In `stock` four entries and pages
of one to three give full last pages, removals before and behind the reader, and
a sales order that breaks before, between or after its lines; `IntLimit = 32` is out of
reach of a walk over four entries; that a walk stays right at the limit too is
`WalksAreComplete`, a theorem for every limit and every number of entries. `form` needs no bound but the
two fields.

`reminder`, `orders` and `stock` disable the deadlock check: their requests come
once and end, and then the system may stop. In the other runs it says little,
because a shopper can always change a basket and a page always be parsed: that
requests do not hang is `EveryRequestReplied`, `EventIsSettled` and
`EveryRequestAnswered`.

**Fairness.** `WF(Advance(r))` for a saga: its thread is blocked on a call that
is answered, fails, or is ended by `HttpClient`'s default timeout of 100
seconds, and the retries are counted, so a thread that can go on does. Its choice
among success, retry and failure is unconstrained. Nothing is fair for shoppers,
clients or late attempts. For the bus: a posted request runs on, the broker
delivers, the consumer runs on; crashes are bounded, not fair. In `BasketReminder`
a request that has started runs on: Redis answers, and an attempt ends by an
answer or by its timeout; whether a job is scheduled, a DELETE arrives or the
breaker closes is not fair. In `OrderStore` a creation runs on, to success or to
an exception, its row committed or not; a crash ends it.

## 4. What disagrees with the code's own words

1. `LoggingDelegatingHandler.SendAsync` logs "Received a success response" and
   then returns a 502 of its own (`LoggingDelegatingHandler.cs:24`, `39`): every
   checkout through a saga throws at its first call (`saga_discarded`).
2. `InventoryHttpRepository.DeleteOrderByDocumentNo` throws when the response is
   successful (line 39), and no route serves it: the rollback of
   `CheckoutSageService` ends in an exception with every document in place, while
   its comment and its last log line say they are deleted (`sage_no_rollback`).
3. The comment of `OrderController.cs:68-69` and the log of
   `BasketCheckoutEventHandler.cs:28` say that the event creates the order. As
   wired, it does not (`basket_no_order`).

Without a run of its own: `InventoryUpdateFailed` permits `DeleteInventory`, whose
action is the compensation, but its `OnEntry` fires `DeleteBasket`
(`SagaOrderManager.cs:90-94`). The machine throws and the order stays: a disjunct
of `FireThrows`. It takes a reply of null or false to get there.
The doc comment of `parseElement` (`jquery.validate.unobtrusive.js:179-182`) says
to pass false for `skipAttach` when parsing several elements; `parse` passes true.

## 5. Proofs

### SagaOrderManagerProofs

For every set of users, items and checkouts, every
number of attempts and either wiring. The assumptions are those the modules
name: `UserOf` is a function from checkouts to users, `MaxAttempts` a positive
number, the wiring constants Booleans.

| Theorem | States |
|---|---|
| `TypeCorrect` | `Spec => []TypeOK` |
| `Invariant` | `Spec => []IInv` |
| `SalesHaveOrders` | `Spec => []SaleHasItsOrder` |
| `SuccessIsSold` | `Spec => []SuccessMeansSold` |
| `BasketsClearedAfterSale` | `Spec => BasketClearedAfterSale` |
| `RefinesProtocol` | `Spec => Protocol!Init /\ [][Protocol!Next]_...`: the safety part of `CheckoutProtocol` |
| `CountInvariant` | `Spec => []CountInv` |
| `DuplicatesAreBounded` | `Spec => []DuplicatesBounded` |
| `FailuresAreClean` | `Spec => []CleanFailure` |

`SuccessMeansSold` is not inductive: nothing in it says that the state that
leads to success was reached through the sale. `IInv` adds three things.
`StateMatchesLocals` ties each state of the machine to the locals its callbacks
have set by then: in `OrderGot` the cart is not empty and the order is the
checkout's own, in `InventoryUpdated` the document records the whole cart.
`AttemptIsJustified` says that an abandoned attempt was sent from a state that
had earned it, which is what makes its late execution harmless. The last
conjunct ties the answer to the final state.

The proof of a step goes through one lemma, `StepKeepsIInv`: a step that moves
at most one checkout, only appends to the stores, and whose additions are right,
keeps `IInv`. Each action has a lemma that shows it is such a step
(`GetBasketKeepsIInv`, ..., `LateArrivalKeepsIInv`). The two action properties
use `IInv` before the step. For the refinement, each reply moves its checkout
one phase or none (`CallIsProtocolStep`), each end answers in the protocol's
terms (`EndIsProtocolStep`), and the rest is not seen.

The bounds on duplicates need a second invariant, because an order inserted twice
may be the work of an attempt that was given up long ago. `OrdersSent(r)` counts the
orders of a checkout together with its abandoned attempts to create one, so that a
late execution moves one from the second to the first and the sum does not grow;
`SalesSent(r)` does the same for sales. `CountInv` holds each of them within a budget
that depends on the state of the machine: none before the call, the attempts that
broke while it is under way, after it `MaxAttempts`, or one if nothing broke.
`FailuresAreClean` reads the same budgets in the three states that answer with
failure; in `OrderGetFailed` the order had gone. TLC finds `CountInv` to hold on the
instances of `saga_one` and `saga_same_user`, where it is not listed as a property.

### CheckoutSageServiceProofs

| Theorem | States |
|---|---|
| `TypeCorrect` | `Spec => []TypeOK` |
| `SuccessIsSold` | `Spec => []SuccessMeansSold` |
| `FailuresHideNothing` | `Spec => []FailureHidesNoSale`, from `~ServicesMayDecline` |
| `BasketsClearedAfterSale` | `Spec => BasketClearedAfterSale` |
| `OrdersDeletedByTheirRollback` | `Spec => OrderDeletedByItsRollback` |
| `RefinesProtocol` | the safety part of `CheckoutProtocol`, as for the other saga |

For the same constants as above. All rest on one inductive invariant, `IInv`.
`PlaceTellsLocals` says what each place of the method has set by then: up to
`GetOrder` nothing is sold, the foreach runs with items left, `DeleteBasket` is
reached with none. `PassedItemsSold` is the loop invariant of the foreach: every
item it has passed is in a document the checkout knows of. `AttemptEarned` says a
DELETE nobody waits for was sent by a checkout that had sold its cart or was rolling
back its own order. `FailuresHideNothing` needs its assumption: if the basket could
answer false, `CheckoutOrder` would return false with the sales standing.

As for the other saga a step goes through `StepKeepsIInv`: the stores grow, one
checkout at most goes forward, and what is added is right.

### BasketCheckoutProofs

| Theorem | States |
|---|---|
| `TypeCorrect` | `Spec => []TypeOK` |
| `AcceptedNotLost` | `Spec => []AcceptedIsNeverLost`, under either wiring |
| `NobodyCreatesOrders` | `Spec => [](orders = <<>>)`, from `~MediatorHasCommandHandler`, the wiring of this commit |
| `OrdersPerDelivery` | `Spec => []OneOrderPerDelivery` |
| `OrdersHadBaskets` | `Spec => []OrderHadABasket` |
| `ClearedAfterPublish` | `Spec => BasketClearedAfterPublish` |

For any requests and any number of crashes. `PlaceTellsEvent` ties the controller's
place to the broker: no event before `publish`, one by `delete`. `AcceptedNotLost`
adds that a consumer that finished left an order if anybody handles its command
(`HandledHasOrder`). The property has one exception for the other case: the command is
dropped and the event acknowledged without an order. `NobodyCreatesOrders` says that
with the wiring of this commit this exception is the rule (run `basket_no_order` shows
it happen). `OrdersPerDelivery` is a
count: an event the handler has still to see accounts for at most `crashes` orders,
one it has seen for one more (`CrashesExplain`).

### BasketReminderProofs

| Theorem | States |
|---|---|
| `TypeCorrect` | `Spec => []TypeOK` |
| `JobsAreOwn` | `Spec => []JobIsOwn` |
| `LatestStands` | `Spec => []LatestRequestStands` |
| `RemindersAreBounded` | `Spec => []RemindersBounded` |
| `BreakerBounds` | `Spec => []BreakerBoundsPosts`, from `IsFiniteSet(Update)` |
| `LiveJobsAreTracked` | `Spec => []LiveJobIsTracked`, under either wiring |
| `RemindersStay` | `Spec => []NothingCalledOff`, from `~ResponseForwarded`, the wiring of this commit |

For any users, requests, attempts and threshold, and either wiring. Types need two
companions: a closed breaker counts below its threshold, and an update that waits
has sent an attempt. `JobsAreOwn` needs the local `jobId` to be of the update's own
attempt, which is why a late reply must not be taken. For `LatestStands`, `Alone`
says that of a user whose requests never overlapped the request under way is the
latest, and that the cart is its own from its first write on.

`Sent` says which attempts have been sent, and that a user none of whose calls was
lost has retried none: `RemindersAreBounded` follows. `Charged` is the account behind
`BreakerBounds`: while nothing succeeds, each POST is the first of its update or paid
for by a failure the breaker has counted. The set of updates is finite there because
the bound is a number of them. `LiveJobsAreTracked` needs to know where a reminder that is still
to be mailed can be: in its delay with its update waiting (`DelayedIsAwaited`), in the
hands of its update, in the cart (`Received`), or called off by the request that is about
to replace that cart (`CalledOff`). That holds where responses are forwarded
(`TrackedHolds`). Where they are dropped no id is ever learnt: a job is that of an
update that waits or has gone on without its id (`SentIsDropped`), which is the
exception the property names, and `RemindersStay` says what follows: no cart names a
job, no DELETE is sent, and no job is ever called off. TLC finds the invariants of the
first case to hold on the instance of `reminder`.

### OrderStoreProofs

| Theorem | States |
|---|---|
| `TypeCorrect` | `Spec => []TypeOK` |
| `OneDeletion` | `Spec => []OneDeletionSucceeds` |
| `RowsAreWhole` | `Spec => []RowIsOneRequest` |
| `RefinesTable` | `Spec => ImplementsOrderTable` |

For any requests and columns and any number of crashes. `OneDeletion` needs to know
which deletion has won (`Won`): of one order at most one is past its save, about to
dispatch or answered, and then the row has gone. The refinement needs
that a row is only inserted by a creation that has not run, so it never comes back.

### InventoryStockProofs

| Theorem | States |
|---|---|
| `StockTypes` | `Spec => []TypeOK` |
| `AnswersAreKept` | `Spec => []AnsweredMeansDone` |
| `WalksAreComplete` | `Spec => []WalkIsComplete` |

For any items, orders, deletions and readers, any number of entries, any page size asked
for and any width of integers above the largest page. `Numbered` says that ids are given
out one after the other and belong to one entry each; with it types are inductive.
`AnswersAreKept` counts: an order has under its document number as many entries of an
item as it has passed lines of it (`LinesSold`), and an id that was answered as gone was
given out before and is not given out again (`GoneIsGone`).

`WalksAreComplete` rests on `Walk`. A reader on its way has read full pages only, so it has
read exactly as many entries as its next page skips, and each of them that is still there is
at a position it skips: entries come in at the end and removals only bring the others
forward (`WalkStable`). So the next page repeats nothing (`PageRead`). What it skips and
has not read is, since positions are a bijection (`PositionsNumber`), at most as much as
what it has read and is gone (`SkippedCount`); a page that is not full has all the
rest. At the limit of the integers the offset is beyond it by less than a page, and the
page is refused (`SkipWraps`).

### UnobtrusiveFormProofs and PagingProofs

| Theorem | States |
|---|---|
| `FormTypes` | `Spec => []TypeOK`, from `NoValidatorIsNone`: the value for "no validator" is no function on the fields |
| `RulesDeclared` | `Spec => []RulesAreDeclared`, from `ElementsAreParsed` |
| `ResetEnds` | `Spec => []ResetRunsOnce`, for any attributes, with jQuery Form or without |
| `ErrorsExplained` | `Spec => []ErrorsAreExplained`, for any fields, containers and attributes |
| `ParametersInRange` | a page number is positive and a size within its limits, whatever is asked |
| `EachRowOnOnePage` | below the 32-bit limit every row is on exactly one page |
| `HasNextIsRight` | `HasNext` is true of exactly the pages with rows behind them |

`ResetEnds` rests on `Activations`, the four stacks of `onReset` calls there can
be. `ErrorsExplained` holds whatever is hidden or disabled at each check. It adds that
the lists of the last check are known: an error of the last check is invalid, unless
`element()` has passed its field over since, and a success is not. `RulesDeclared` is about the history of a
form: whatever is rewritten, parsed and attached, the options are those of the last parse
and the validator's those of the first attachment. What one parse makes of one element,
a fold over the table of adapters, is its hypothesis `ElementsAreParsed`, a statement
about constants. The run `form` parses every element of its instance and would violate
`RulesAreDeclared` at one that came out otherwise: there the hypothesis is checked.

### Only model-checked

Liveness, which is beyond the prover: `EveryRequestReplied`, `EventIsSettled`,
`EveryRequestAnswered`, `InsertedIsAnnounced` and the fairness part of
`CheckoutProtocol`. And `ElementsAreParsed`, for the elements of the instance: what a
fold computes is an induction over its sequence, which is beyond the prover too. Every
invariant and every action property the passing runs check is stated by a theorem.

## 6. Not modelled

* `RollbackOrder`: unreachable, see above. `DeleteByDocumentNoAsync` and the batch
  methods of `RepositoryBase`: no endpoint or handler reaches them.
* `GET /inventory` stock sums over gRPC and the basket's stock quantity: a read of
  one aggregate, with nothing that depends on it later.
* Failures of Redis in `BasketRepository`, and the wording of the reminder mail.
* The `regex` and `nonalphamin` methods of the form library, string functions of
  one value; of `jquery.validate.js` all that the unobtrusive layer does not touch.
* Product.API: single-row CRUD through the repository `OrderStore` models; the
  unique index on the number decides its check-then-insert.
* Customer.API (reads only), the Ocelot gateway, identity and tokens, Serilog
  set-up, mail delivery: stateless or pure I/O.

## 7. What could come next

1. `ElementsAreParsed` for any attributes, which needs the fold over the adapters in a
   form without induction.
2. The stock a basket shows (`GET /inventory` over gRPC) next to the sales that change
   it, once something in the code depends on it.
