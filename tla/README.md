# Felip AI: a verification project

Felip AI answers buyers in Telegram groups on behalf of miles sellers.  The
repository holds a NestJS service (`nest_api`: Telegram bot, dashboard,
subscriptions, price calculation, OpenAI and Google Sheets clients) and one
`tdlib_worker` process per seller (a TDLib client driven by commands over
RabbitMQ).  This directory holds TLA+ models of it, the TLC configurations that
check them, and proofs checked by TLAPS.

    tlc -workers 2 -config race.cfg MCBilling      # any run of section 4
    tlapm BillingProofs.tla                        # any proof module of section 5

Paths below are under `src/nest_api/src/infrastructure/` unless they start with
`src/`.  `S` is `subscription/subscription.service.ts`.

1. The system - 2. Plan - 3. Modules - 4. Runs - 5. Proofs - 6. Not modelled

## 1. The system

| part | state | operations | interacts with | hard behaviour | what makes it correct |
|---|---|---|---|---|---|
| **Subscription billing** (`subscription/`, `cielo/`, `http/cielo-webhook.controller.ts`, the drizzle stores) | rows of `subscriptions`, `subscription_payments`, `coupons`; recurrences and charges at Cielo | start trial, checkout, new card, change plan, buy and remove extra groups, cancel; payment and closure webhooks | Cielo by HTTP and webhooks; the authorization check; group activation | no transactions and no locks: every `await` is a point where another request or webhook runs; the gateway fails or loses answers; webhooks are repeated, late, reordered | nobody has access without paying longer than a trial; payments are credited to their payer; the amount charged is the amount owed; limits and caps hold; a cancellation ends charging |
| **Group activation** (`http/dashboard.controller.ts`) | `active_groups` | activate, deactivate | the plan limit in billing | check and insert in separate queries | the limit of the plan |
| **Worker manager** (`workers/worker-manager-swarm.ts`) | `worker_ports`, Docker services, the digest of the image | start, stop, verify at boot, update the image every hour | Docker, the dashboard | handlers send back what they inspected before; Docker fails; nest_api restarts | a service answers at the port its callers use; a stopped worker stays stopped; an update reaches every worker |
| **RabbitMQ in nest_api** (`queue/rabbitmq/`) | connection, channel, asserted queues, a reconnection timer | connect, publish, consume | the worker | reconnection racing publishing | a command is put into the queue once, or the caller is told |
| **Worker broker connection and command processor** (`src/tdlib_worker/src/`) | shared connection, channels, consumer flag, callbacks in progress | connect, reconnect, consume, answer, acknowledge | nest_api, TDLib | redelivery, acknowledgements on a later channel, a channel without consumer | commands are carried out and answered; the consumer comes back |
| **Worker login session** (`src/tdlib_worker/src/login-session-manager.ts`, `telegram-user-client.ts`) | the TDLib client, whether it was closed, its handlers of updates | login, code, password, logout, re-creation | TDLib, the command queue, nest_api by HTTP | calls run side by side while the client is replaced | the client on the database is the one in use, and its handlers run once; a logout can be recovered from |
| **TDLib command responses** (`tdlib/`) | cached authentication errors | answers to codes and passwords | worker, dashboard | late and repeated answers | right codes show no error |
| **Authentication** (`auth/`, `http/login.controller.ts`, `http/guards/`) | one-time codes, registration tokens, users, web sessions | /start, ask for a code, verify, guard, log out | the bot | read, compare, write in separate queries; tokens in memory | a session is of whom the code was sent to; bounded races; a logout is final |
| **Message processing** (`telegram/`) | the dedup buffer; prices, limits, miles, groups, blacklist, offers of the seller | gate a message, parse, price, answer, write in private; save settings | OpenAI, billing, worker | settings change while a handler waits; marks before sends | one answer per window; nothing sent the settings forbade all along; prices the seller had |
| **Price calculation** (`src/nest_api/src/domain/`) | none | interpolate and extrapolate a price table | message processing | boundaries, floors and ceilings | larger orders cost no more per thousand |
| **In-memory queue** (`telegram/in-memory-queue-processor.service.ts`, `queue/in-memory/`) | one queue per key | enqueue, process | nothing: no module provides it | - | - |
| **Parsing, sheets, other settings, pages** | single rows | reads and writes | - | - | - |

`PROJECT.json` lists every part with its status, and the hazards of this code at
the lines where they bite, each with the properties that watch it.

How the parts meet.  The dashboard starts a worker through the worker manager and
talks to it in two ways: by HTTP at the port the manager assigned (`Workers`) and
by commands through RabbitMQ (`CommandDelivery`).  The commands of a login and
what the worker's client makes of them are `LoginFlow`, which uses of
`CommandDelivery` only that a command may be delivered again.  What the worker
hears in its groups comes back through a queue and is answered by `Purchases`,
which asks billing whether the seller is authorized and computes prices with
`PriceTable`.  `Accounts` is how a seller gets a session of the dashboard.

## 2. Plan

Done, in this order: billing (`Pricing`, `Billing`, `BillingHistory`,
`BillingProofs`); the worker manager (`Workers`, `WorkersProofs`); the way of a command with its
abstract queue and the refinement (`CommandDelivery`, `AtLeastOnceQueue`,
`CommandDeliveryProofs`); prices and messages (`PriceTable`, `Purchases`,
`PurchasesProofs`);
accounts (`Accounts`, `AccountsProofs`, `AccountsCounts`); login and the client's
life (`LoginFlow`, `LoginFlowProofs`).

Left, in this order:

1. An abstract entitlement specification that `Billing` implements: who has
   access until when, and what may extend it.
2. `LoginFlow` over `CommandDelivery` instead of over its one consequence.

## 3. Modules

| module | what |
|---|---|
| `Pricing`, `Billing`, `MCBilling`, `BillingHistory`, `BillingProofs` | billing and group activation |
| `Workers`, `MCWorkers`, `WorkersProofs` | the worker manager |
| `AtLeastOnceQueue` | what the way of a command promises, with its theorem |
| `CommandDelivery`, `CommandDeliveryProofs` | the way of a command: publisher, broker, worker |
| `LoginFlow`, `LoginFlowProofs` | logins and the life of the TDLib client |
| `PriceTable` | the price calculator, as operators |
| `Purchases`, `MCPurchases`, `PurchasesProofs` | answering buyers while the seller edits |
| `Accounts`, `MCAccounts`, `AccountsProofs`, `AccountsCounts` | registration, one-time codes, sessions |

Everywhere, a handler is cut where it awaits, and only there: between two awaits
JavaScript runs alone.  The names of actions and variables are those of the code.
Operators marked as a bug are variants of the definition after them; the
specifications do not use them, and `PROJECT.json` says which property each
of them would break.

### 3.1 Billing

`Pricing` has the plans and coupons as constants, and the arithmetic of
`calculateRecurrenceAmount`, `applyPlanDiscount` (with JavaScript's rounding)
and `getExtraGroupPrice`; no variables.  `Billing` is the state machine,
`MCBilling` the plans, coupon and symmetry for TLC, `BillingHistory` history
variables for three statements of the code's comments that speak of a
subscriber's past.

#### State

`sub[u]` is the row of `subscriptions` of user `u` (`user_id` is unique) or
`NoRow`; `payments` is `subscription_payments` in order of id;
`activeGroups[u]` the rows of `active_groups`; `redemptions[c]` is
`coupons.current_redemptions`; `now` counts days.  `recurrence` and `charge`
are what Cielo keeps, modelled from how the service uses it: a recurrence is
active or inactive, has an amount and a first day; a charge is pending, denied
or paid and may be attempted again.  Columns no decision reads (card data,
messages, timestamps) are left out, and `next_billing_date` is not kept apart
from `current_period_end`, with which it is always written.

`job[t]` is a handler in progress.  Its `pc` names the step it takes next, and
its other fields are the handler's local variables: above all `row`, the row it
read at the start and goes on using however the table changes meanwhile.

#### Actions

A handler is cut where it awaits.  Reads of plans and coupons, whose rows do not
change, are no steps.  A request that is refused changes nothing and is no step.

| action | code |
|---|---|
| `StartTrial`, `ReadExisting` | `startTrial`, whose two reads of the row are apart (S:89) |
| `Checkout`, `Deactivate`, `ValidateCoupon`, `CreateSubscription`, `DeleteExisting`, `InsertRow`, `RecordPayment`, `Redeem` | `checkout` and the `createCieloSubscription` both it and `startTrial` call (S:300, S:795) |
| `UpdatePaymentMethod`, `ReplaceRecurrence`, `WriteRow` | `updatePaymentMethod` (S:388) |
| `ChangePlan`, `PurchaseExtraGroups`, `RemoveExtraGroups`, `CheckGroups`, `SetAmount`, `WriteRow` | the requests that change a row in place (S:500, S:569, S:633) |
| `CancelSubscription`, `Deactivate`, `WriteRow` | `cancelSubscription` (S:703) |
| `ActivateGroup`, `CheckLimit`, `AddGroup`; `DeactivateGroup` | `http/dashboard.controller.ts:1143`, `:1237` |
| `DeliverPayment`, `LookupPayment`, `MarkPaid`, `LoadSubscription`, `MarkFailed`, `Suspend`, `FindSubscription`, `RecordNewPayment`, `SetAmount`, `WriteRow` | `handlePaymentStatusChange` (S:965) |
| `DeliverClosure`, `WriteRow` | `handleRecurrenceStatusChange` (S:1171) |
| `Abort` | a handler that ends between two awaits: the process dies, or a query or gateway call throws.  A webhook that ends so is stored with its error and never handled again (`cielo-webhook.controller.ts:57`) |
| `ChargeRecurrence`, `RetryCharge`, `CloseRecurrence` | Cielo (external) |
| `Tick` | a day passes |

`WriteRow` writes the columns the handler's UPDATE names and no others, into the
row with the id the handler read: if that row is gone it writes nothing.

A call to Cielo ends `"ok"`, `"error"` (refused or failed without effect) or
`"lost"` (it took effect, the answer did not arrive); `Outcomes` says which of
them an instance has.  A webhook carries only identifiers and the handler asks
Cielo for the rest, so messages need no queue: delivering one is starting a
handler, in any order, once per attempt at a charge and `Duplicates` times more.

#### Abstractions to know

* A day is long beside a request (`Tick` needs all tasks idle).
* One payment webhook step reads the status at Cielo together with its arrival:
  `DeliverPayment` stands for the query S:972, and what was true at arrival but
  not at the query is not remembered by anything.
* The rows of plans and coupons do not change.
* Cielo's own retries reuse the payment, as `retry_count` assumes.

### 3.2 Worker manager

`port` is `worker_ports` (0: no row), `service` what Docker keeps of each user's
service, `registry`/`local`/`cached` the image published, the one Docker holds and
the digest nest_api remembers.  `job[t]` is a request in progress and `update[u]`
the update of one service by the hourly check, whose own steps are `cron`.
Docker numbers the versions of a service and refuses an update that names an old
one; instead of the numbers the model keeps `fresh`, the handlers whose inspection
is still current.

Requests start (`startWorker` with its inspection, port assignment, creation or
scaling) and stop workers; `onModuleInit` starts what was running and verifies it;
the image check pulls, compares, lists and updates.  Docker may fail at each call
and nest_api may restart between any two.

To know: the two reads of `getStatus` are one step, as is the loop over services
that are already right.  A service is always created on the right network; what
makes `isServiceOnCorrectNetwork` answer no is a failure of Docker, upon which
`startWorker` removes a running service and creates it again.  The starts at boot
run in parallel but allocate no ports, since their workers have rows.  Ports wrap at
the end of the range (`deleteWorkerPort` has no caller).  A start that waits in vain
for a running task removes the service, also if another request has reported it
healthy meanwhile.  Nothing keeps two starts apart: the dashboard does not even wait for
one to end (`http/dashboard.controller.ts:1860`).  Two that look for a port at once, between
the query that found none and the one that assigns the next, give one port to two users, or,
for one user, leave another port in the row than in the service.  The history `together`
notes who did, the two properties about ports except those and no others, and no document
says what should happen to them.  An update that fails, or is cut off by a restart, is retried by
nothing before the next image, because the digest was remembered first.

### 3.3 The way of a command

`CommandDelivery` has three actors.  In nest_api, `pc[c]` is the step of
`publishToQueue` of command `c`: connect, assert the queue, send, and after an
error schedule a reconnection, wait a second and try once more; `nlink` is its
connection, which may be dead and not yet noticed.  The broker keeps a queue, whose
messages are not persistent, and the unacknowledged deliveries of the worker's channel, numbered
per channel.  The worker has the shared connection with its reconnection timer,
the callbacks that rebuild `CommandProcessor`'s channel and consumer, the flag
`isConsumerActive`, and up to `Prefetch` callbacks in progress, each of which
carries a command out, answers it and acknowledges it - on the channel there is by
then, not the one it came from.  `stale` counts the acknowledgements that went to a
later channel: they hit another delivery, or none, and then the broker closes the
channel and nothing rebuilds it.

Losses of a connection (noticed later by heartbeats), refused connections, the
death of either process and a restart of the broker are faults, counted by
`faults`.  nest_api's link is lost only while it has something left to publish,
since nothing else of it is observed.  A callback that acknowledges on a channel that is closed
ends the process, as the unhandled rejection does.  `setupConsumer` is cut at its await of
`consume`: a close that comes right behind the answer resets `isConsumerActive` first, line
167 of `command-processor.ts` sets it after that, and every later setup is skipped at line 97
until the flag is reset by another loss.  The history `late` tells this worker, which is deaf,
from the others.  That continuation is assumed to come before the reconnection timer, five
seconds later.

`AtLeastOnceQueue` says what this amounts to: a command is accepted, refused,
lost, run, answered, settled, and settled only after it was run and answered,
except for `mixups`, the acknowledgements on the wrong channel.  `StatusOf` maps
the publisher's and the broker's state to it.

### 3.4 Logging in

`client`, `isClientClosed`, `updateHandlers`, `attached` are the fields of
`TelegramUserClient`; `phase[k]` and `stored` are TDLib's view of client `k` and of
the database all clients share; `op[o]` is a call of the HTTP API or a command of
the queue in progress, at `ensureClientReady`, `recreateClient` or the invocation
itself.  `answers` and `authErrorCache` are nest_api's.  The page polls
(`Poll`), submits (`Submit...`) and may reauthorize, which logs out by HTTP and
dispatches a login as soon as the answer arrives (`http/dashboard.controller.ts:1957`),
while TDLib still logs out.

To know: `invokeDirect` returns its promise without awaiting it
(`src/tdlib_worker/src/telegram-user-client.ts:155`), so its retry on a closed
client never runs, and the model has none.  `recreateClient` awaits the closing of the old
client before it resets the flag, so that two calls may find one client closed and each create
another: the first gets the database, the second becomes the worker's, never opens, is not
flagged closed, and keeps the worker from recovering until it is started again.  The history
`twice` says that this happened since the worker started, and two properties except it.
`Obtain` is what `ensureClientReady` does after the re-creation: it returns the client there is
by then.  Answers to logins are left out, since without a context nothing looks at
them.  The context of web logins has chat id 0, so the
bot's messages about errors are not reached.

### 3.5 Answering buyers

`h[m]` is the handler of message `m`; its `at` is the await it stands at, its other
fields its locals.  `shop` is what the seller has saved; `saving` the saves that are
between their delete and their insert, which are two transactions
(`persistence/drizzle/user-data-drizzle-store.ts:77`).  Other requests come between them as
they like: a second save, or an edit of one row, leaves rows the insert adds to, or rows of the
same key, upon which the database refuses the insert and the old table is gone.  `buffer` holds the keys of
`PrivateMessageBufferService`.  The handler reads the bot's switch, the
subscription, the active groups and the blacklist; asks the language model, whose
answer is any of the readings of the message; reads table and ceiling, the seller's
counter offer and, in a query of its own, the group's; answers in the group and then, in
private, writes a call to action or a counter offer.  What a message quotes is what it tells: the call to
action and a closing template tell no less than the buyer agreed to (`Raised`), "Vamos!" tells
nothing.  History variables: `sent`, `held[m]` (what has held at some time since
`m` was delivered), `saved` (every table the seller gave), `mixed` (programs whose prices two
requests changed at a time).

To know: a delay is a next step that comes any time later.  The seller's counter offer and the
group's override are read one after the other, and the handler may put together a setting of
before an edit with an override of after it: a group without an override when it is read
counts as on if the seller's setting was on shortly before.  Two pairs of
queries are one step: the miles of a program and of its liminar before the language model is
asked (`Prefilter`), and the least quantity and the miles of one program after it
(`passesProgramChecks`).  Two edits between the queries of a pair could let a program pass by rows
of different moments; that decides which programs are priced, and no property speaks of it.  The
template that closes is chosen when the message is sent.
`processMessageDirectly` swallows errors, so a handler that fails just ends; after a
crash what was not acknowledged is delivered again, and the empty buffer lets it be
answered twice - the one exception `OncePerWindow` makes, by counting windows.
Prices are exact fractions where the program has floating point.  Where the code
departs from its comments without harm the model follows the code: the ceiling is
not applied at and above the largest quantity (`PriceCalculatorService`, line 264),
rounding to quarters may exceed it, and the least quantity is
documented in thousands but compared with miles
(`telegram/handlers/telegram-user-purchase.handler.ts:705`).

### 3.6 Accounts

`users`, `otps` and `sessions` are tables, `tokens` the map in memory; a code is the
index of its row.  `req[r]` is a request in progress: a `/start` of the bot, a
submitted phone, a submitted code, or a page behind `SessionGuard`.  `heard` and
`typed` are what a person knows.  Asking twice, mistyping and using another's phone
are allowed and count as faults, as expiries, lost messages and restarts do.

To know: the chat of an account does not change (`updateChatId` is left out); which
phones are let in is a constant; `MAX_ATTEMPTS` is a parameter.  A new person who types
somebody else's allowed phone registers it as their own; no property speaks of it.
`deleteSessionsByUserId`, the cleanup of expired sessions and the administration of the
whitelist have no caller.

## 4. Runs

| run | instance | what it shows |
|---|---|---|
| `race` | one user, two tasks, failing and lossy gateway, handlers that die, two extra deliveries per charge | `TypeOK`; `AccessIsPaidFor`: whoever is authorized without ever having paid is not `active` and not let in longer than a trial; `ExtraGroupsCapped`: never more than `MAX_EXTRA_GROUPS`, though purchases all check a stale count |
| `serial` | one user, one task, every request, two plans, a coupon, two groups, two recurrences, two charges, a gateway that answers | `AmountAgrees`: Cielo charges what the row is worth; `CanceledIsNotCharged`; `ChargedOnce`: no two live recurrences of one user who was never past due; `GroupsStayWithinLimit`: no request takes a user from within the plan's limit to over it |
| `users` | two users, two tasks, three recurrences, a charge, one redemption left of a coupon | `PaymentsCreditTheirPayer`: a payment row's subscription and its charge's recurrence belong to one user; `CouponOvershootBounded`: a coupon goes over its maximum by at most the other requests in progress |
| `settle` | one user, two tasks, trial, checkout, new card and cancellation over two recurrences, three attempts at a charge, fairness | `PaymentsAreCredited`: a charge that Cielo took is recorded as paid, whichever of its webhooks came first, unless its first known webhook was dropped because no row held the recurrence |
| `workers` | two users, two requests at a time, two ports, two images, a failure of Docker, a restart | `ServiceAnswersAtItsPort`; `PortsAreDistinct`; `StoppedUntilStarted`: an image update writes back no state from before a stop; `NoTaskLeftBehind`: without failures every task is of the last image; `TypeOK` |
| `delivery` | two commands, prefetch 2, two faults, fairness | `SettledWhenDone`, `CommandOnceInBroker`, `RunsBounded`: a command runs again only for a fault; `QueueIsAtLeastOnce`: the refinement; `ConsumerComesBack`, `CommandsGetDone`; `TypeOK` |
| `login` | two calls at a time, three requests, a redelivery, a restart, fairness | `OneClientPerDatabase`, `HandlersAttachedOnce`, `RightCodeShowsNoError`, `RecoversAfterLogout`; `TypeOK` |
| `messages` | two messages of one buyer, prefetch 2, one edit, save or crash, or two that meet with one message, one end of a window | `OncePerWindow`, `PrivateFollowsAnswer`, `PermittedAnswers`, `QuotesFromSavedTables`, `BiggerOrdersNeverCostMore`; `TypeOK` |
| `accounts` | a new and a registered account, two requests at a time, one attempt, three faults, fairness | `SessionsMatchCodes`, `AttemptsBounded`, `UsesBounded`, `ActiveCodesBounded`, `LoggedOutStaysOut`, `PeopleComeIn`; `TypeOK` |
| `second_trial` | violation of `OneTrialPerUser` | S:94, S:98: a checkout forgets the trial |
| `past_due` | violation of `PastDueAfterThreeFailures` | S:1063: the first failure is not counted |
| `promo` | violation of `PromoLastsItsMonths` | `database/schema.ts:334`: one payment, two months used up |

`AmountAgrees`, `CanceledIsNotCharged`, `ChargedOnce` and
`GroupsStayWithinLimit` are stated for one handler at a time and a gateway that
answers because the code does not have them otherwise: failures of
`deactivateRecurrence` and of a webhook's `updateRecurrenceAmount` are logged
and passed over (S:723, S:1158), a checkout stops the trial's recurrence before the
coupon is validated (S:327), and activating a group that is already active skips the limit
while a concurrent deactivation frees its place.  No document promises more.
`ChargedOnce` excepts whoever has a payment that failed three times: a checkout
stops the old recurrence of a trial only (S:325) and a trial looks at none (S:308 and
S:98 let all but active rows pass), so that one who is past due and buys again is charged
by both recurrences.  No document speaks of this case either; it is listed under the
hazards.
Other properties except what the code does otherwise by name, and nothing more:
`PaymentsAreCredited` the webhook that is dropped (`Dropped`), `PortsAreDistinct` and
`ServiceAnswersAtItsPort` the workers that looked for a port `together`, `NoTaskLeftBehind`
failures and restarts, the properties of `CommandDelivery` `stale` acknowledgements and a
`late` flag, `OneClientPerDatabase` and `RecoversAfterLogout` a client replaced `twice`, and
`QuotesFromSavedTables` the tables of `mixed` programs.

**Bounds.**  Two tasks, calls or requests at a time are the least that race, and every race in this
code is between two handlers over one row, one service, one client or one key.

* Billing.  Two recurrences are a subscription and its replacement; `second_trial`
  needs three, and so do three redemptions of a coupon in `users`, the first that go
  over the bound.  One day of clock is the whole of a one-day trial and half of a
  two-day period, so trials end, deferred charges fall due and periods overlap.
  Promotions are cut to one and two months so that their end is reached.
  `MaxAttempts` lets a charge be pending, denied and paid.  Three failures make a
  subscription past due and the first webhook of a charge counts none, so `serial` delivers
  webhooks four times; its constraint `RepeatedWhenDenied` repeats only those of denied
  charges, since a repeated webhook of a paid one does what the first did.  `Counts` is 3 in `race`,
  so that two purchases pass the cap of 5 only together, and 5 in `serial`.  `settle` leaves out
  what touches neither the recurrence of a row nor its payments: plan changes, extra groups
  and groups.
* `workers`: as many ports as users, so that the range is used up and wraps; two
  images, an old and a new one; one failure and one restart at any point.  The view keeps of a
  handler what it will still use.  `StartsApartFromImages` bounds the run: while two starts run
  at once, and after two looked for a port together, no image is published and there is a
  failure or a restart but not both.  Ports and images meet only in the creation of a service,
  which all other histories have with failures and restarts.
* `delivery`: two commands, so that a stale number can hit another delivery; two
  faults, so that one can happen while the first is being recovered from.
* `login`: three requests suffice for a login, a code and a reauthorization between
  them; the numbers of clients follow from the requests and the calls at a time.
* `messages`: two messages with equal keys, one end of a window; tables of one, two and three
  rows, queried on all sides of them.  With two messages there is one edit or crash, of prices,
  limits and miles only if the second is not published yet; with one message there are two
  that meet: changes of one program's prices, or any two around the counter offers being turned
  off (`FewAtOnce`, `MaxTogether`).  Two messages meet in the buffer, which edits do not touch.
* `accounts`: one attempt and two requests pass the maximum by one; three faults are
  enough for a restart, an expiry and a lost message in one history.

`CHECK_DEADLOCK` is off where a bounded environment really comes to rest; `login`
and `accounts` check for deadlocks.

**Fairness.**  Nothing is assumed of failures, of the clock or of outcomes.

* `settle`: `WF` of each task's next step - Node schedules every resolved promise.
  `SF` of the delivery of each charge's webhook: Cielo repeats a webhook until it is
  answered 200, and the server takes it whatever else it does; the number of tasks is
  a bound of the model and not of the code, so a delivery that is possible again and
  again must happen.
* `delivery`: `WF` of the steps of nest_api and of the worker, among them the timers
  and noticing a lost connection, which heartbeats do; connections fail at most
  `MaxFaults` times.
* `login`: `WF` of calls and of TDLib, and of `Poll`: the open page asks for the state
  every few seconds (`src/nest_api/public/dashboard.html:2895`).
* `accounts`: `WF` of each request's next step, and `SF` of what a person sensibly does
  next: who wants in tries again.

## 5. Proofs

Theorems hold for every value of the constants that satisfies the modules' named
assumptions, which TLC evaluates in every run.

| module | theorems | for every number of |
|---|---|---|
| `BillingProofs` | `TypeCorrect`, `ExtraGroupsNeverExceedTheCap`, `NobodyIsActiveUnpaid`, `PaymentsGoToTheirPayer`, `CouponsOvershootByRequestsOnly` | users, tasks, plans, coupons, groups, recurrences, charges; any outcome of the gateway; handlers that die |
| `AtLeastOnceQueue` | `SettledIsDone` | commands |
| `CommandDeliveryProofs` | `TypeCorrect`, `NoCommandTwice`, `DeliveryImplementsQueue`, `SettledCommandsAreDone`, `RepeatedOnlyByFaults` | commands, prefetch, faults |
| `LoginFlowProofs` | `TypeCorrect`, `HandlersStayAttachedOnce`, `OneClientHoldsTheDatabase`, `RightCodeIsShownNoError` | calls, requests, redeliveries, restarts |
| `AccountsProofs` | `TypeCorrect`, `SessionsMatch`, `LogoutIsFinal` | accounts, phones, requests, attempts, faults |
| `AccountsCounts` | `AttemptsAreBounded`, `UsesAreBounded`, `ActiveCodesAreBounded` | as above |
| `WorkersProofs` | `TypeCorrect`, `OnlyAStartWakes`, `UpdatesReachAll`, `ServicesAnswer`, `PortsDiffer` | users, tasks, ports, images, faults, restarts |
| `PurchasesProofs` | `TypeCorrect`, `OneAnswerPerWindow`, `PrivateComesSecond`, `OnlyPermittedAnswers`, `NoPriceFromHalfASave` | messages, programs, tables, settings, prefetch, crashes, windows |

Each inductive invariant was checked by TLC before it was proved.

**Billing.**  `TypeOK` is not inductive: the amount told to Cielo is a number only
if the row it is computed from has a plan, the row a handler writes is one it
read several steps ago, and a payment's subscription is looked up by an id.
`IInv` therefore adds, for each step a handler can stand at, which of its locals
are set (`JobsOK`); that rows which exist have a plan and absent rows neither
status nor recurrence, and that no row, in the table or in a handler's hands, has
more extra groups than the maximum (`RowsOK`, `JobsOK`); that payment rows name
charges Cielo made (`PaymentsOK`); and that such charges name a recurrence
(`ChargesOK`).  The cap follows because it is kept by what handlers hold and not
only by the table.  There is one lemma per action, grouped by the variables an
action changes (`OneJobChanges`, `RecurrencesChange`, `SubscriptionsChange`,
`PaymentsChange`, `ChargesChange`); `NextKeeps` puts them together.

`PInv` says in addition whose everything is.  An id is given to one row and never
again, and a charge never changes its recurrence nor a recurrence its user (`Grows`).  So it is
enough to say: a row's recurrence is its user's (`OwnersOK`); a payment is credited to a
row of the user who paid its charge, as long as there is that row (`CreditsOK`); and what
a handler holds was so when it read it (`FactsOK`): the recurrence it created, the
charge a webhook named, the payment row and the subscription it found for them, however
many awaits ago.  For `AccessIsPaidFor`, every row in the table or in a handler's hands
that is not of someone who has paid is not active and lasts no longer than a trial
(`Terms`), and a webhook that goes on to renew a row has seen a charge paid, which stays so.
`KInv` counts, for each coupon, its redemptions
together with the tasks that have validated it and not yet counted theirs (`Redeemers`):
validation adds the task to that set when the redemptions are below the maximum, and
redeeming moves it from the set to the count, so the sum is at most the maximum, less one,
plus the number of tasks.

The properties of `serial` hold of one handler at a time only, which the code does not
enforce, so they are left to TLC.

**The way of a command.**  Here `TypeOK` is inductive by itself.  `IInv` adds that what the broker
holds or lost was sent (`SentOK`); that a callback is of a command that was sent, and
past `"process"` only after it ran (`HandlersOK`); that only the channel created last
may be open, and closes with its connection (`LinkOK`); and that on an open channel a
number names one delivery, and a callback about to acknowledge has answered
(`ChannelOK`).  `CommandOnceInBroker` needs three lemmas about sequences without
repetitions (`MovedHead`, `AppendedOnce`, `RemovedOnce`).  The refinement goes action
by action: most steps are stutters, the rest `Accept`, `Refuse`, `Lose`, `Run`,
`Answer`, `Settle` or `Mistake` of the abstract queue, and `SettledWhenDone` is then
what `SettledIsDone` says of it.  `RunsBounded` is a matter of accounting (`CostOK`): the
runs of a command, its callback about to run it, its copies waiting in the queue and its
callbacks whose delivery the broker no longer counts as theirs (`Orphan`) come to at most
one more than the faults and the stale acknowledgements.  A delivery
or a step of a callback moves one from term to term, and what else a step adds is paid for by
the fault or the stale acknowledgement it comes with.  `OwnersOK` has callbacks of the
open channel differ in their numbers, and an orphan only after a stale acknowledgement.

**Logging in.**  `HolderInv`: clients are numbered as they are created, only the last
one may hold the database, and not once it was flagged closed; a call at `recreate`
found the flag, and is alone in that (`Alone`), or else `twice` has noted the second call.  `HandlersInv`: what a client's
handlers are when it is created and when its predecessor is given up.  `CommandsInv`:
of a user without mistakes every command under way is right, in the queue, in a call,
among what nest_api dispatches next, and, redelivered, still right; so no refusal
TDLib answers is of the kind the cache keeps (`ErrorsInv`).

**Accounts.**  `Inv` says which of six kinds of record a request is (`Shapes`); that
codes are of registered phones and a person hears only those of their own (`CodesOK`);
that a session's code is used and was heard by the session's account (`SessionsOK`);
and, for each stage of a request, how what it has read relates to the tables now
(`RequestOK`).  `Grows` is what every step does to the tables - rows stay, codes keep
their phone and stay used, tokens do not come back - so that requests a step does not
touch stay right (`OthersKept`).  `AccountsCounts` adds three counts: the attempts of a
code and the requests about to add one; the sessions a code opened and the requests that
have read it; the active codes of a phone and the requests about to insert one.  All
steps but five leave each count or lower it (`QuietOrCounted`), and the five are proved
one by one from cardinalities.

**The worker manager.**  `Transition` is all that a step of a request does to the request
and the ports, and `ServiceStep` all that any step does to the services; each action is
shown once to be one of these, and the rest follows from them.  `StoppedIsAsleep` makes
`StoppedUntilStarted` inductive: while a service wants no replica, no update holds a
current inspection that asked for one.  The ports rest on
`OverlapsNoted`: two requests that look for a port at once are in `together`.  So a request
of a user whose own starts never overlapped still finds no port of the user's when it assigns
one, and later creates the service with the port of the row (`PortsOfJobs`).
`Spread` says that the ports in use are the first ones of the range, that two users share one
only if they looked for it together, and that the port a request is about to assign comes after
ports in use and is at most that of somebody who looked at the same time (`Claim`), until the
range is used up or there are more workers than ports; `AssignKeepsSpread` takes this
through an assignment, from `GreatestOf` and cardinalities.
`ImageInv` is how an update gets around: which image the registry, Docker and the digest
stand for at each step of the check, and that a service not of that image still has its update
ahead of it, unless Docker failed or nest_api restarted.

**Answering buyers.**  A handler reads one setting after another and uses them stages
later, so `IInv` says of each stage what the handler has from the ones before, in terms
of data that only grow and therefore stay true whatever the seller edits meanwhile: the
tables a program was given (`saved`), the programs with `mixed` prices, the messages that went
out (`sent`), and `held`, what has been so since delivery.  `SavingOK` says of the saves under
way that two of one program's prices make it `mixed`, so that a program that is not has the rows
of one table or none, and `Told` carries from stage to stage which tables a quote is of and
whether it is raised to what the buyer agreed to.  For `OncePerWindow` it says that the ticket of
a window still open has its key in the buffer and belongs to one message only, which a
handler holds or `sent` has.  The attempt found the model wrong once: a demand that does not say
how many passengers there are had been left out of the keys.

Model-checked only: all liveness properties (`PaymentsAreCredited`, `ConsumerComesBack`,
`CommandsGetDone`, `RecoversAfterLogout`, `PeopleComeIn`), which TLAPS does not reach
here, as it does not ENABLED.  `PriceTable` is checked, over the tables and quantities of `messages`, by
`BiggerOrdersNeverCostMore` and through what is quoted.

## 6. Not modelled

* In billing: `processExpiredTrials`, which nothing calls (S:1207), so that no trial is
  ever marked expired; `seedPlans`; the event log of webhooks, which nothing reads
  back; validation of request bodies and formatting of answers.
* The in-memory queue processor: no module of nest_api provides it, the consumer of
  RabbitMQ took its place.
* In the worker manager, the Docker Compose variant used in development.
* In nest_api's consumer of updates, reconnection: it listens to no event of its
  connection and never connects again, so there is no mechanism to model; `Purchases`
  has the consumer while the process lives.  The queue of message logs.
* In the handler of command responses, the batches of group activations and the lists
  of groups: what starts them is no longer called.
* In the worker, commands that only read from Telegram, and the shutdown on a signal.
* In the dashboard, the requests that save message templates (whose maximum is checked before the
  insert), delays and reasoning settings.  A template decides whether a closing message tells the
  prices, which `Purchases` leaves open at each message; the rest is wording and duration.
* The language model's reading of a text, which is a choice among readings; Google
  Sheets, which no service calls any more; static pages; environment variables.
