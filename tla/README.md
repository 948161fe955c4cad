# Printa backend: a TLA+ verification project

The Printa backend (`src/`) is a Go modular monolith for print shops: vendors, their
stores, orders, production, payments, subscriptions.  This directory holds TLA+ models
of its modules, TLC configurations that check them on small instances, and TLAPS proofs
of the theorems that hold for every instance.  `PROJECT.json` is the index: components,
runs, mutants, the map from every definition to the lines it models, findings, hazards
and theorems.

Run in this directory: `tlasany M.tla` parses, `tlc -workers 2 -config X.cfg M` checks,
`tlapm M.tla` proves.

1. [The system](#1-the-system)
2. [Components](#2-components)
3. [Modules and how they correspond to the code](#3-modules-and-how-they-correspond-to-the-code)
4. [Runs, bounds and what they show](#4-runs-bounds-and-what-they-show)
5. [Fairness](#5-fairness)
6. [Proofs](#6-proofs)
7. [Where code and docs disagree](#7-where-code-and-docs-disagree)
8. [What is not modelled](#8-what-is-not-modelled)
9. [Plan](#9-plan)

## 1. The system

Three kinds of process work on one PostgreSQL database and share nothing else:

- **the API** (`cmd/api`): stateless HTTP handlers, one goroutine per request, and one
  goroutine per Lenco webhook.  A handler calls a service, which calls a repository,
  which runs SQL statements.  Most requests are several statements with Go in between
  and no transaction;
- **the outbox worker** (`cmd/worker`, `Restart=on-failure` under systemd): claims
  batches of events and calls a handler for each.  Several may run;
- **the reminder job** (`cmd/vendor-reminders`): one pass, started by a daily timer.

Outside are the payment providers (Lenco; MTN MoMo and Airtel Money behind adapters),
Google, and the providers of mails, messages and pushes.

What makes it hard is always one of the following, and the hazards of `PROJECT.json`
name the lines:

- *read, check, write* in three steps: another request runs between the read and an
  UPDATE that does not repeat the check;
- an *external call* between two statements: its answer is lost, the process dies after
  it, or its webhook arrives before the caller has recorded it;
- a *retry* of what was already done, at once or after a lost answer;
- a *lease* that runs out under a worker that is only slow;
- a *row that must always be there* (the last administrator, the default address),
  kept by two statements;
- an *answer put together from several reads* (a coverage lookup, a checkout, a page of a
  list), of which the first may no longer be true when the last is made.

**How the database is modelled.**  One statement is one step: under READ COMMITTED,
an UPDATE, INSERT or SELECT of the code acts on the latest committed rows.  A transaction
is one step where its effect is that of its commit, and the action's comment says why
(a row lock, an advisory lock, a unique index); the wallet's SERIALIZABLE transactions
have a start, with the snapshot they read, and a commit, with PostgreSQL's first-updater
rule.  A unique index is the guard of the INSERT it refuses.  A request that dies, or a
statement that fails, is an action that forgets what the request knew.

## 2. Components

For each component: the state it keeps, its operations, what it touches, what is hard,
and what makes it correct.

| Component (`src/internal/...`) | State | Operations | Interacts with | Hard | Correct when |
|---|---|---|---|---|---|
| Outbox and worker (`outbox`, `cmd/worker`) | `outbox_events`: status, attempts, available_at, locked_at | enqueue, claim with SKIP LOCKED, mark delivered or failed, backoff | notification inbox enqueues; worker calls comms | expiring leases, crashes, late settling | nothing is lost, settled without cause, or given up early; everything is settled in the end |
| Communications (`modules/comms`) | `comms_delivery_logs` | SendEvent per channel, Send with or without a key, by the worker, the reminders and the endpoint | worker, reminders; providers | a later channel fails and the event is retried; status writes whose errors are dropped; adapters that tell no refusal | every channel is answered; the log neither invents nor misses a message; one per key |
| Notification inbox (`modules/notification`) | `notifications` | create with outbox event; read, dismiss, delete; list by page | outbox | pages are cut by OFFSET out of a list that changes | a reader who follows the total misses nothing |
| Subscription checkout (`modules/billing`, `modules/lenco`) | `subscription_checkouts`, invoice, subscription | create, initiate, verify, webhook, activate, expire; a subscription created, changed and stopped by hand | Lenco | concurrent verification, expiry against activation, lost answers, writes by hand beside them | a payment becomes a month and an invoice exactly once, and the vendor's row holds it |
| Subscriptions and invoices (`modules/billing`) | `vendor_subscriptions`, `billing_invoices` | create, change tier, status, cancel; generate, pay, void | checkout activation | stale checks, repeated keys | one invoice per key |
| Payments (`modules/payment`) | `payment_transactions` | initiate, verify, webhook, refund | MTN, Airtel (stubs that call nobody) | webhook before the last write, unconditional updates, references that coincide | one charge per key, no charge without a row, no verdict and no refund without a cause |
| Wallet (`modules/wallet`) | journals, entries, balance snapshots | PostInternal | - | overlapping postings, int64 sums, replays | snapshots match the ledger, journals net to zero |
| Operating status (`modules/operatingstatus`) | compliance reviews, grace periods | gate, claim a grace period, review | reads subscriptions | three reads and a transaction at one earlier instant | credit is bounded and not given twice |
| Vendor reminders (`cmd/vendor-reminders`) | `vendor_operating_reminders` | the daily pass | comms.Send, operating status | repeated runs, death between mail and mark | one mail per reminder |
| Vendor onboarding, policy consent (`modules/vendor`, `modules/policyconsent`) | vendors, first stores, consents | accept, publish, onboard by two paths, attach | - | retried onboarding, policies published meanwhile | one vendor, with its store and its consents |
| Attendance (`modules/attendance`) | PINs, clock events, PIN resets | clock, set a PIN, request and confirm a reset | staff of `inventory`; comms for the mail | PIN and last event read before the insert, the staff changes; two statements per link | events alternate and are a member's, one link is open |
| Operating hours (`modules/operatinghours`) | `store_operating_hours`, a row per weekday | replace the week, list | - | a DELETE and an INSERT per day in each of two transactions: mixtures and deadlocks | the week changes as a whole; every replacement ends |
| Inventory and stores (`modules/inventory`) | stores, products, staff | store on and off, products, stock, prices; staff | orders read products; attendance reads staff | rows change between the reads of others | what was shown can be ordered, or has changed |
| Delivery zones (`modules/delivery`) | `delivery_zones` | create, update, delete; coverage of an address | order handler | the lookup asks twice | its answer was once true |
| Customer checkout (`modules/order`, handler and service) | `orders` | the checks of the handler, the key, the prices, the INSERT | zones, products, addresses | all of it is read before it is written | an order's address, coverage and prices are so when it is placed |
| Order conversation (`modules/conversation`) | messages, read marks | send, list | - | SELECT, then mark what came meanwhile too | read means shown |
| Orders (`modules/order`) | `orders` | place with a key, status, cancel | - | stale transitions, keys of others | one order per key, for its customer; stages in order |
| Point of sale (`modules/pos`) | `pos_transactions` | record a payment, refund | - | two cashiers, created_at against commit order | one completed payment per order, refunds stay |
| Production (`modules/production`) | `production_jobs` | create, status, assign | - | stale transitions | stamps agree with the status |
| Authentication, users, administration (`modules/auth`, `user`, `admin`) | users, identities, OAuth states, code challenges, audit log | register, Google, codes; an account on and off, with its audit row | Google | sign-ins that race for an address, counting administrators, an audit row of its own statement | one stable account per address, tokens name its role, an administrator remains; the log ends with the account's state |
| Routing (`modules/routing`) | rules, decisions | route, override; create, change, delete rules | reads orders, stock and production jobs | a rule is deleted between the read and the INSERT; an override is two statements | a routed order keeps an assigned store |
| Delivery locations (`modules/delivery`) | addresses with one default | create, update, delete, choose | - | deletion and promotion are two statements | who has addresses has a default |

Not modelled, with the reason in section 8: submissions, catalogue, tiers, assets, the
API process, documentation, migrations and scripts.

## 3. Modules and how they correspond to the code

Names of operators are those of the Go functions they translate where there is one.

### `AtLeastOnce`, `Outbox`, `OutboxProofs`

`AtLeastOnce` is what a durable outbox promises: a job is tried, performed, and either
delivered after it was performed or abandoned after its last try; both are final.

`Outbox` is the code.  `Enqueue` is the INSERT of the notification's transaction;
`Claim` is ClaimPending, with any set of rows skipped because others hold their locks;
`TakeUp`, `HandlerReturns`, `Settle` are the loop of `worker.go`; `SettleFails` and
`Crash` are a failing statement, after which the batch goes on, and the death of the
process.  A handler may never return: `HangsForever`.
Time is kept as ticks left until `available_at` and until the lease runs out, because
that is all the code compares; `Tick` lets a second pass.  A worker that is slower than
its lease is simply one that takes no step while `Tick` does.

### `WeeklySchedule`, `OperatingHours`, `MCProgress`, part of `StoreProofs`

`WeeklySchedule` is what the opening hours promise: a request replaces the whole week at
one instant or leaves it alone, and who is told it did has done so.

`OperatingHours` is Replace, one statement a step: `validateHours` over the body, `Delete`
of the rows the statement sees when it starts, waiting for whoever deletes one of them
first, one `InsertEntry` a day in the order of the body, `Commit`.  `WaitsFor` and `Free` are
PostgreSQL's row and index locks; `Deadlock` ends one of a cycle of waits.  Whose week the
rows are is all that is kept of them, so `Shown` is a request, nothing, or `"mixed"`, which
`WeeklySchedule` does not know.

`MCProgress` runs the outbox and the hours, the two components with a liveness property.  The instance
of `AtLeastOnce` is in `Outbox`.

### `NotificationDelivery`, `VendorReminders`, `DirectSend`, `MCMessages`, `MessagesProofs`

`NotificationDelivery` extends `Outbox` with what the one registered handler does:
SendEvent takes the channels of the priority, and Send logs, calls the adapter, and
records the answer, an error of which is dropped.  The provider accepts, refuses, or
accepts and its answer is lost; `ReadsRefusals` are the channels whose adapter makes an
error of every refusal, which the push adapter and Twilio do not.

`VendorReminders` extends `OperatingStatus`: a run lists the overdue vendors once, at the
instant it begins, reserves a reminder (a unique key, of which the day is a part), sends the
mail with that key as idempotency key, and marks it.  A run may start at any instant of a day,
as the catch-up of a persistent timer does, overlap another one, and dies anywhere.  What a
vendor is told depends on instants, and `stories` keeps at which one it was found.

`DirectSend` is the endpoint: Send with the key of the body or the header.  A request is
its log row; a repeated key is answered with the row that is there, whatever it says.

### `SubscriptionCheckout`, `SubscriptionCheckoutProofs`, `MCSubscriptionCheckout`

Create, initiate, verify and the webhook goroutine, as a program counter `at` per request
with what it has read.  `ActivateCheckout` is the activation transaction: the checkout is locked,
checked again, and subscription, invoice and status are written together.  `late` is
whether `expires_at` had passed at the instant the request took before its transaction.
The provider may take a collection and lose the answer, settle it at any time, and tell
another amount (`"short"`).  `Hands` are requests that write the vendor's subscription
without a checkout, a decision on a read and then a statement: CreateSubscription (ACTIVE or
TRIAL, and nobody pays), ChangeTier, UpdateStatus and CancelSubscription.

### `Wallet`, `WalletProofs`, `MCWallet`

`PostInternal` validates, opens the SERIALIZABLE transaction and fixes what it sees;
`Post` books the journal and refreshes the snapshots of the accounts it touches, `Replay`
finds the key and answers with its journal, and `Rollback` is a transaction refused,
because a row it writes was written since or a statement of it failed.  Sums are exact in
SQL and wrap in Go.  `MaxMinor` stands for 2^63 - 1.

### `RequestBase`, `Payment`, `MCPayment`

Initiate, Verify, webhooks and Refund, each with the next statement in `call`.  Updates
whose errors the code drops may silently not happen (`Try`).  The MTN and Airtel adapters
are translated as they stand, stubs that call nobody: Initiate refuses a missing phone number
only, Verify and Refund always succeed.  So a payment that somebody polls is completed whatever
became of it, also one without a provider reference (`Verify`, `GatewayVerify`).  `charge` is
what a provider makes of a collection, of which only its webhooks speak; `refunded` counts the
adapter's refunds.  References are a second and four digits, so two payments may share one
(`SameRef`), and a webhook finds either.

### `Storefront`, `CustomerCheckout`, `OrderConversation`, `MCCustomer`, `CustomerProofs`

`Storefront` is what a customer meets at one store and the owner changes a row at a time:
the store, its products with price, stock and availability, its delivery zones, and the
customer's saved address.  The coverage lookup (`CheckEligibility`, `FindActiveByStoreCity`,
`AnyZones`) is three statements.

`CustomerCheckout` composes it with `OrderPlacement`: the handler's checks
(`CustomerOrder`, `ReadLocation`, `CheckZone`), the lookup of the key, the price of each
item (`GetProductPrice`) and the INSERT, with every change of the storefront in between.
`changed` holds, for a request under way and for an order, the kinds of facts that have
changed since it began, and for an order since the request that made it began; `groundless`
is set where an order is written on what is not so and has not changed, or where a repeat of
an order is refused for what has changed neither since that order's request nor since the
repeat began.

`OrderConversation` is Send, one transaction, and List, whose SELECT, UPDATE and answer are
three steps.  `doubtful` are messages that came during a list or were in one that failed.

`MCCustomer` adds the payments of `MCPayment` and explores one of the four at a time.

### `VendorBase`, `VendorBilling`, `OperatingStatus`, `VendorOnboarding`, `StoreStaff`, `Attendance`, `PinResets`, `AuditTrail`, `NotificationInbox`, `MCVendor`, `OperatingProofs`, `VendorProofs`

Parts of a vendor's life.  `VendorBilling` is the manual operations: check on a
read, then an unconditional write; `ActivateCheckout` is the action of the same name
of `SubscriptionCheckout`, seen from these tables, with the invoice of its key, made or taken over.
`OperatingStatus` is the gate: an instant, the review, the subscription, the grace period; claiming grace is a transaction that reads again only
the grace periods.  `VendorOnboarding` has the two paths of the handler and the
acceptance of policies as a separate request.

`StoreStaff` holds the members of a store with role and PIN.  `Attendance` extends it with
Clock: who asks, the PIN (`GetPINHash`), the last event (`GetLastEventType`) and the insert
are a statement each, and `StaffChanges` come between any two; an event carries what its
request had read.  `PinResets` has the two statements of a new link and the transaction
that consumes one; it changes the PIN of the same staff.  `AuditTrail` is an account that administrators
turn on and off (UpdateUser, DeactivateUser) with the audit row that follows, a statement of
its own.  `NotificationInbox` has the changes of one recipient's rows, the rows of a bulk tied
in one place of the list, and `walk`, a reader who follows the pages: a page is any that the
ORDER BY allows (`Pages`), and `Overtaken` keeps whether something left the list or came to it
between the statements of a page.

But for the staff they share no state as modelled (`OperatingStatus` has its own smaller
account, of which `Bill` and its siblings are what billing does to it), so `MCVendor`
explores them one at a time: an interleaving of two parts is a step of one and a stutter of
the other.

### `StoreBase`, `OrderPlacement`, `PointOfSale`, `ProductionQueue`, `Accounts`, `DeliveryLocations`, `Routing`, `MCStore`, `StoreProofs`

Six more parts without common state, explored one at a time by `MCStore`.  In all of
them a request reads, checks, and writes by id.  `PointOfSale` keeps transactions in the
order of `created_at`, which is when an INSERT starts, so that one that commits late
takes its place before a later one.  `Accounts` carries the user record a sign-in read
through to the token; `DeliveryLocations` has creation, deletion, promotion and the
choice of a default as the separate statements they are.  `Routing` keeps the rules and the
decisions of one order in the order of their INSERTs.  The query for candidates joins the
products of the order to the stores that own them, and an order is only placed with products
of its own store: that store is the only candidate, so the scores choose nothing and are left
out (section 7); a rule only explains the decision.

### Abstractions used throughout

- Ids, keys, addresses, amounts, words of a request are model values or small sets.
- Access checks that depend only on the token are left out: they refuse, and change
  nothing.  Malformed requests likewise.
- History variables, marked as such where they are declared, are written and never read
  by an action.
- Names that start with `Bug` are wrong versions of the definition below them.  No
  specification uses them: each is substituted for that definition to see that the run
  finds the property violated (`mutants` in `PROJECT.json`).

## 4. Runs, bounds and what they show

Twelve runs: seven pass, five show the code disagreeing with a sentence of its docs
(section 7).  Deadlock checking is off where a system may come to rest: every event
settled, every id used, every request answered.

| Run | Shows |
|---|---|
| `progress` | *outbox*: two workers, two events, one without a handler, two attempts, a lease of one tick, one fault.  No event is settled without its cause or given up early (`SettledForCause`); no two hands hold one claim (`ClaimsAreUnique`); claims exceed the maximum by at most one per crash or expired lease (`AttemptsAreBounded`); the module implements `AtLeastOnce`; under the fairness of section 5 every event is settled, unless every worker ends in a handler that never returns (`EventuallySettled`).  *hours*: three requests replace a week of two days in either order, or with a body that is no week: `OperatingHours` implements `WeeklySchedule` (`WeekIsReplacedAtOnce`), and no request waits for ever (`ReplacesEnd`), because a transaction that ends holds no row |
| `messages` | *delivery*: an event is acknowledged only when every channel was answered without an error, and its mail accepted, over all attempts; the log, the adapters and the provider agree.  *reminders* and *direct*: what has a key goes out once, whatever run or request overlaps, repeats it or dies, and a vendor who is told on one day that grace is about to end and that payment is due was told so by two runs, with the end of that grace period between them (`OnceWhereKeyed`) |
| `refused_message` | Violation: a push message that the provider refused is delivered |
| `duplicate_message` | Violation: a retry repeats a channel that had succeeded |
| `checkout` | Two checkouts of a vendor, two requests (API calls or webhook goroutines), every answer of the provider, expiry at any time: a successful collection of the locked amount, and nothing else, is one month and one invoice (`GrantedExactlyOnce`); beside a request that writes the subscription by hand, the vendor who paid has a row with a paid and invoiced month of its own, active on the bought tier unless changed since (`PaidMonthIsHeld`); verdicts are final |
| `wallet` | Seven commands, among them a repeat, a stolen key, one that wraps to zero, one that overflows and one on another's account; two callers; three-bit magnitudes.  Snapshots equal the sums of the entries in every state, journals net to zero, keys book once, who is told success finds its journal |
| `payment` | *payments*: an MTN and an Airtel request under one key, and an MTN payment whose adapter drew the first one's reference again; two requests, polling and webhooks at any time, dropped errors, two refunds.  One charge per key and none without a row (`OneRecordedChargePerKey`); a payment is completed only if somebody polled it or a provider collected under its reference, and failed only if the adapter refused it or a provider could not collect (`VerdictHasCause`); what was never completed is not refunded, and money goes back twice only where two refunds overlapped or REFUNDED was lost (`RefundsAreBacked`).  *storefront*, *checkout*, *conversation* (`AnswersRestOnFacts`): the answer of a coverage lookup was right at some moment of it unless a zone changed between its statements; an order's address, coverage and prices are so when it is placed, a retry gets its order, and what was shown can be ordered, unless the very thing that is wrong has changed meanwhile; a message marked read has been shown, unless it came during a list or a list with it failed |
| `payment_final` | Violation: a verdict is replaced, by Initiate's last write or by a poll that read the row before |
| `vendor` | Seven parts, two requests each: one invoice per key; credit of at most the grace period, after the period it covers, on no day twice; one vendor per owner with its store, and consents to what was published (`OnboardedOnceWithConsent`).  `OnlyOverlapsSurprise`: an event of the staff clock is repeated only by a request that had not read the first, and is somebody else's than a member's with that PIN only if the staff changed after it was read; two PIN links are open only if their requests overlapped; the audit log ends with what the account is but for requests that overlapped or lost a row; a reader who follows the total through the pages of the inbox misses a row that tied with nothing only if another left before it, or came within a page |
| `billing_keyless` | Violation: a second invoice without a key is refused |
| `store` | Six parts, two requests each: orders under repeated and stolen keys; two cashiers who pay, retry and refund (`PaidOnceRefundedForGood`); two production jobs; accounts that register, sign in and are turned off; the addresses of a customer; the routing of an order |
| `order_status` | Violation: a cancelled order is confirmed |

**Why these bounds are enough.**  Every race in this code is between two requests, or a
request and a webhook or crash, on one row or one key; two rows are there wherever a
statement ranges over several (reusable checkouts, latest payment, default address), a
third address because a promotion chooses among those that are left.  A fault changes
nothing a second one could build on, except attempts, which `MaxAttempts = 2` with
`MaxFaults = 1` lets a crash exceed.  Named bounds:

- `NumEvents`, `MaxFaults`, `LeaseFor`, `BatchSize`: two events show that one batch holds
  several claims and that the later one outlives the lease; `messages` needs one event.
- `LastInstant = 5`, `PeriodLength = 1`, `GraceLength = 3` in `vendor`: time in `OperatingStatus`
  is instants, since the code compares instants.  A request takes its instant first and acts on
  it later.  Six instants hold a paid period, its grace, and a second one.
- `LastInstant = 7`, `GraceLength = 5`, `DayLength = 2`, `LastBill = 3`, `MaxStarts = 2` in
  `messages`: a day of two instants, so that two runs of it fall on both sides of the end of a
  grace period, and a grace period of two and a half days, of which the first reminder is due in
  its last day only; nobody is billed after `LastBill`, which leaves the grace that follows to end.
- `MaxMinor = 7` stands for 2^63 - 1; the commands of `MCWallet` are chosen so that a
  four-bit sum wraps to zero and a balance leaves the range.
- `MaxRows`, `MaxRefunds`, `MaxEvents` (of the clock), `MaxDecisions`,
  `MaxStarts`, `MaxAudits`: two to four tries of what can be repeated without end.
- `Calls` two in `payment`: the initiator and whoever is beside it, or two that poll, hear or
  refund.  Cash and card, which no provider confirms, are covered by the theorems, for any
  `Provider`.
- `Hands` one: what races is a write by hand and a checkout; two writes by hand are in `vendor`.
- three `Calls` and two `Days`: two days are enough for two orders and a cycle of waits, a
  third request waits for the winner of the first two.  `MCWeeks` holds both orders and three
  bodies that are refused.
- `Sends` two: the two that overlap, or a request and its repeat.  The channel is one whose
  adapter reads refusals, one whose adapter does not, or one that has none.
- `MCCustomer`: one zone, one product, one saved address, two cities and two prices, because
  each fact is compared with an earlier reading of itself only; one order, which a retry
  meets.  The customer has one request at a time (`MaxOpen = 1`), beside which all of the facts
  change; the theorem `AnswersAreGrounded` holds for any number of overlapping requests.  Two lists of three people over
  two messages.
- `Notices` three in two `Places`, with `PageLimit = 1`: two pages and what can shift them, and
  ties.  `Resets` three: two
  links and the one that replaces both.  `Pins` two, the right one and a former one.
- `Accounts`: one ordinary address, one seeded administrator, one Google account, two
  tickets (OAuth states and codes).  Passwords, wrong codes and expiry refuse and change
  nothing, and are left out.
- `Routing`: two stores, of which one owns the order's products and an administrator may choose
  the other; two rules that take any of three forms; two decisions.

**Parts.**  `MCProgress`, `MCMessages`, `MCCustomer`, `MCVendor` and `MCStore` put
components into one run that share no variables, or are explored with and without one
another; `part` says which one a behaviour works on.  A safety property of
one part that some interleaving violates is violated by that part's own steps alone, so
nothing is lost.

**Symmetry** is used for requests, workers and ids that only occur as elements of sets,
and in no run with a liveness property.  Where parts never meet, one set of model values
stands for the requests or processes of several of them.

## 5. Fairness

Only `progress` has liveness properties.  `Spec` of `Outbox` assumes weak fairness of

- `Tick`: the clock advances;
- `Claim(w)` and `TakeUp(w)`: `Run` polls for ever, and `systemd` restarts a worker that
  failed (`deploy/systemd/printa-outbox-worker.service`, `Restart=on-failure`);
- `Settle(w)`: a statement that keeps being possible is executed.  Faults (`SettleFails`,
  `Crash`) need no fairness and are bounded by `MaxFaults`: with faults for ever nothing
  could be promised.

Of `HandlerReturns(w)` nothing is assumed.  The adapters call `http.DefaultClient`, which has no
timeout (`modules/comms/adapter.go:83,222,242,288`), dial for mail without a deadline
(`:107,132`), and the worker's context has none either (`cmd/worker/main.go:39`): a call may hang
for ever and the worker with it.  `EventuallySettled` therefore leaves out the behaviours in which
*every* worker hangs, and only those: where one is left, it takes over the expired leases of the
others.

A worker that an operator stops for good is outside this assumption.

`HoursFairness` assumes weak fairness of `ReplaceStep(r)`, the next thing that can happen to
a request that has begun: its statement runs when no lock holds it, its
transaction commits, or PostgreSQL's deadlock detector, which looks for a cycle of waits one
second after a wait began, ends it.  It does not say which of a cycle is ended.  Nothing is
assumed of the beginning of a request.  `MCFairness` repeats both for the part that is
explored.

No fairness is assumed of any other request: a client may leave at any step, and every other
module is checked for safety only.

## 6. Proofs

TLAPS checks the theorems that `PROJECT.json` lists, for every value of the constants.  Every
safety property of a passing run is stated by one, and both refinements are proved.

**What is assumed.**  The named assumptions of the modules (`OutboxAssumption`,
`WalletAssumption`, `OrderAssumption`, ...): constants are sets of the right kind, bounds are
natural numbers, placeholder values are fresh, the sets that a loop of the code runs over are
finite.  TLC evaluates them in every run.  Six theorems have a hypothesis of their own:

| Theorem | Hypothesis | Why |
|---|---|---|
| `AttemptsStayBounded`, `EveryMessageIsAccountedFor` | `IsFiniteSet(Workers)` | the bound counts workers |
| `StoriesFollowGrace`, `KeyedGoOutOnce` | `GraceLength > 2 * DayLength` | five days in the code (`operatingstatus/repository.go:176`): what is granted between two runs of a day ends too late to be announced on it |
| `AnAdministratorRemains`, `OnlyOverlapsLose` | `Seeded # {}` | where no administrator was seeded none remains |

**How a proof is laid out.**  A property is seldom inductive.  Each section states an
inductive invariant as a conjunction of named parts, one lemma for each action that says the
action keeps it, and one that puts the actions together; the theorem is the last step.
The composed modules (`MCVendor`, `MCStore`, `MCCustomer`, `MCMessages`) have an invariant that
joins those of the parts, which share no variables or stay at rest while another part runs.

**`OutboxProofs`.**  `SettledForCause` needs that a worker that settles was told nil, and that
what it settles is known to have been claimed as often as it says.  The invariant adds
`OkIsBacked` (a hand with a nil answer holds an event some call handled), `DeliveredWasHandled`
and `DeadLetterIsExhausted` (the two halves of the property), `HeldWasClaimed` (no claim in a
hand has a higher attempt than the row) and `ClaimsAreUnique` (two hands never hold one claim).
From it follow `TypeCorrect`, `SettledHasCause`, `ClaimsUnique`, and with the guards of the two
settling UPDATEs `SettledStays`.  `ImplementsAtLeastOnce` maps each event to a job of
`AtLeastOnce` and shows that each action is a step of the abstract specification or a stutter; it
does not use the bound on faults.  `AttemptsStayBounded` counts: of an event in process, every
attempt from the maximum on is in the hand of a worker or lost to a fault (`AttemptsInv`).

**`MessagesProofs`.**  *Delivery*: `DeliveryInv` extends the invariant of the outbox by what a
worker knows of its event (`WorkerIsSound`: every channel that is not to do any more was answered
with nil), from which `AcknowledgedIsDelivered` follows; two workers may well hold one event.
`CountsAreSound` accounts for messages: what was accepted and what a worker has just logged are
at most the rows, and what was accepted and what attempts in a hand may still send are at most the
attempts (`Pending`).  It gives `EveryMessageIsAccountedFor` with any crashes and lost updates.
*Reminders*: the run that inserted the log of a mail is the only one to send it (`OneRunMails`
in `MailInv`).  Of everything vendors were told or may yet be told by a run under way (`Heard`),
who hears that grace is about to end had one that ended within a day, and who hears that payment
is due had none but one that was over or one granted later (`StoryInv`), whatever grace is
granted between two runs.  *Direct sends* (`DirectInv`): who goes to the provider holds the one row of its key.

**`OperatingProofs`.**  `GraceIsAllTheCredit` relates instants served to grace periods that
requests grant on what they read earlier.  The invariant says how far a reading can be
from the truth: the period a request found unpaid is still the account's, or has been followed
by one that is not over when the request was made (`AsksWhenOverdue`); two requests that ask have
found the same period unpaid (`OneUnpaidPeriod`); rows of one vendor have different periods and
follow one another (`OneRowPerPeriod`, `GraceFollowsGrace`) and precede who asks (`RowsPrecedeAsks`); a row marked expired before a
request's instant leaves that request nothing to grant (`MarkedBeforeAsked`,
`MarkedBeforeNow`); and instants on credit lie in a row on record (`CreditIsOnRecord`).

**`VendorProofs`.**  `InvoiceKeysAreUnique` follows from the unique index and from what a request
carries.  *Onboarding*: the advisory lock excludes (`LockIsExclusive`), so who found no vendor
is still right when it inserts one (`NoneIsStillNone`); consents only grow.  *Clock*: what a request is about to
insert does not repeat the event it read, and the PIN it checked is still the member's unless
the staff changed (`ClockingIsSound`).  *PIN links*: two that may work were at once under way
(`rivals`).  *Audit log*: unless something was muddled at most one row is to be written, and it says
what holds.  *Inbox*: what stays in the list, ties with nothing and was not shown stands at or behind the
offset (`ShownToOffset`, `Rank`), because a page takes exactly its places of every group of ties,
so that a row that is alone in its group and on the page is shown (`AloneIsShown`).
`VendorInv` joins them.

**`StoreProofs`.**  *Orders* (`OrderInv`): no two requests insert one order, a key names one, and
what a request is about to write was allowed by the history of the order and, as histories only
grow, still is.  *Till* (`PosInv`): an INSERT under way has a row of its own, at most one row of
an order is COMPLETED, and money was handed back for rows that are REFUNDED.  *Production*
(`JobInv`).  *Accounts* (`AccountsInv`): what a sign-in has read names an account; a step may
only make accounts and turn customers into vendors (`UsersAreStable`, `LinksAreStable`), so
what was read stays true up to that.  *Administrators* (`AdminInv`): unless two requests
overlapped, one of them at most is about to turn one off, and another stays.  *Addresses*: as long
as nobody was disturbed, deletions are alone, and whoever finds no default is followed by somebody
who will choose one (`DefaultComes`).  *Routing* (`RoutingInv`): a
request about to write names a store, and one about to mark a decision names one that exists, so
an overridden decision is always followed.  *Opening hours* (`HoursInv`): rows are held by one request
(`RowsAreHeldOnce`), the committed week is one body or none (`WeekIsWhole`), a day that a
transaction has inserted was free, or was deleted by itself (`InsertsFoundRoom`), and a body that `validateHours` lets
through names every day once (`ValidBodiesAreWeeks`): so `TheWeekChangesAtOnce`, the
implementation of `WeeklySchedule`.  `StoreInv` joins all but the hours.

**`CustomerProofs`.**  *Payments*: none of the properties of `Payment` is inductive, since every
UPDATE of a status is unconditional: what makes them true is what a request has come to know
before it writes (`KnowsOf`, one conjunct per step of a request).  A payment is initiated by one
request (`OneInitiator`), whose steps alone charge it; a verdict under way has its cause
(`WasPaid`, `WasFailed`) and keeps it until it is applied, because nobody takes back a poll or a
provider's outcome (`CausesStay`); and a row that has been written is never unwritten
(`OneRowPerKey`, `RowIsSound`), so a collection is always recorded and its key used up.  As long as
no refund of a payment overlapped another or lost its REFUNDED, who has refunded it is alone with
it until it is marked (`RefundedOnce`).
`payment_final` shows what is not so: `TerminalIsFinal`.  *Storefront*: while a lookup runs, what
the zones say is among the answers that were right, as long as no zone has changed
(`LookupIsSound`).  *Checkout* (`CheckoutInv`): each thing a request has read is so, or its kind
is among the changes since (`RequestIsGrounded`); an order could be made again, or one of the
changes since explains that it could not (`OrderIsGrounded`), which an INSERT passes on from the
request to its order; more changes explain more (`MoreExplainsMore`).  *Conversation*: what a list has
selected is there, what it has not came since, what it has marked is read (`ListsAreSound`).
`CustomerInv` joins the four, for `CustomerIsTyped` and `AnswersAreGrounded`.

**`SubscriptionCheckoutProofs`.**  `GrantedExactlyOnce` and `PaidMonthIsHeld` need that
a request about to activate has seen a successful collection of the locked amount
(`ActivationIsBacked`), which the provider never takes back, and that the row a request is
about to insert is not in use (`InsertIsFresh`).  A write by hand leaves the month of a row that
is there alone, and its INSERT finds none (`HandStep`), whatever it read before.  The theorems hold for any number of
vendors, tiers, checkouts and concurrent requests.

**`WalletProofs`.**  `SnapshotsMatchLedger` holds for any number of callers and accounts
because the journals a transaction sees are booked (`SeenIsBooked`), and because a commit
that writes a snapshot written since its own start is refused: so for each account it
writes, what it sees is all there is.  This part uses of sums only that equal sets of entries
have equal ones.  `LedgerNetsToZero` needs more: that the fold over a finite set is the value of a
table of the sums of its subsets (`TotalIsSum`, with `SumsExist` and `SumsAgree`), that a line may
be taken away first whichever it is (`AnyLineFirst`), and that sums of separate sets add up
(`TotalsAdd`).  They are proved by induction over the subsets of a finite set (`SubsetsByInduction`).

**What proving changed in the models.**  Two attempts failed for a good reason.
`OrdersRestOnFacts` was false for two overlapping requests of one key, of which the first places
the order, a fact changes for a moment and the second is refused for it: what had changed
since the repeat began now counts too.  Two CASE expressions had arms that could both hold (the commit
of the opening hours, the answer of the coverage), so that their value was not determined: they
are now IF and ELSE.

**Model-checked only.**  `EventuallySettled` and `ReplacesEnd`: liveness under fairness rests
on ENABLED, which this prover does not treat.  Everything else that a passing run checks is proved.

## 7. Where code and docs disagree

Five disagreements have a run whose counterexample shows them; `findings` quotes the lines.

- **`refused_message`**: "MarkDelivered finalizes a leased event after its side effect
  succeeds" (`outbox/outbox.go:122`), but the push adapter returns nil whatever the status of
  the HTTP answer (`modules/comms/adapter.go:288`, as Twilio's do, `:242`, `:342`): what the
  provider refuses is logged SENT, delivered, and never tried again.
- **`duplicate_message`**: delivery logging is called idempotent per channel, but SendEvent
  gives no key (`modules/comms/service.go:131`): a retry repeats the channels that worked.
- **`payment_final`**: Initiate writes PROCESSING last and unconditionally
  (`modules/payment/service.go:123`): a webhook that came first is overwritten.  And Verify calls
  a payment terminal on what it read (`:142`), but writes later and unconditionally (`:158`): a
  payment that failed in between is completed, because the adapter always answers success.
- **`billing_keyless`**: an absent Idempotency-Key is stored as the empty string under a
  unique index (`modules/billing/postgres.go:118`): one such invoice exists, ever.
- **`order_status`**: the order's status is written by id without the status that was
  checked (`modules/order/postgres.go:113`): a cancelled order becomes confirmed.

The models show more, for which no run of its own is kept; the properties above are stated
so that they hold of the code as it is.

- A claim is called a lease to one worker (`outbox/outbox.go:84`), but MarkDelivered and
  MarkFailed match on id and status only (`:124`, `:151`): after its lease ran out, a worker
  finishes, fails or buries an event that another one is delivering.
- Attempts may exceed the configured maximum after a crash on the last one
  (`outbox/outbox.go:97`, against `docs/OUTBOX_WORKER_OPERATIONS.md:14`).
- "Verify queries the provider for the current status" (`modules/payment/gateway.go:16`): both
  adapters answer with success and query nobody (`:67-79`, `:138-150`).  A payment without a
  reference, or of which no provider knows, is completed by the first poll
  (`modules/payment/service.go:136-158`) and can then be refunded.
- Two refunds of one payment that overlap both reach the adapter
  (`modules/payment/service.go:209`, `:223`), and two refunds at the counter both hand the
  money back (`modules/pos/service.go:102`, `modules/pos/postgres.go:61`).
- The status tables of subscriptions (`modules/billing/postgres.go:58`), invoices
  (`modules/billing/postgres.go:200`: voided after it was paid) and production jobs
  (`modules/production/postgres.go:95`) are lost the same way as that of orders.
- A subscription whose status is read before a checkout activates it is written back with
  the old dates.
- A subscription can be ACTIVE without a payment: CreateSubscription writes it so
  (`modules/billing/service.go:267-284`).
- A handler that hangs keeps its worker for ever (section 5).
- The two reminders of a day may tell different stories: the timer is persistent, a run that it
  catches up may come before a grace period ends and the daily one after
  (`cmd/vendor-reminders/main.go:99`, `:127-134`).
- The rows of a bulk have one `created_at` (`modules/notification/postgres.go:104-114`), and pages
  are ordered by priority and `created_at` alone (`:183-185`): rows that tie may change places
  between two pages, and one be missed.
- A retried counter payment may miss the one recorded, when `created_at` and commit order
  differ (`modules/pos/postgres.go:37`).
- A reminder whose mail failed is not tried again that day: it is listed as deliverable,
  and the log of its key answers for it.
- Accepting a policy again sets the `vendor_id` of the consent to NULL.
- AttachToVendor executes statements while the rows of its own query are open in the same
  transaction, which the driver may refuse: the model takes either outcome.
- Onboarding by the profile path takes no lock and `owner_id` is not unique: overlapping
  requests make two vendors.
- A subscription that is neither active nor past due, a cancelled one too, operates while a
  grace period runs.
- setPIN, when refused, answers 200 with an empty body.
- Two administrators who turn each other off at once leave none
  (`modules/admin/service.go:163-168`).
- A sign-up by code that dies before Consume is told on its retry that the account exists.
- A location deleted while another request moves the default, or a crash before the
  promotion, leaves a customer's addresses without one; of two first choices at once one is
  refused by the unique index.
- GetStoreCandidates "returns all stores that stock at least one product"
  (`modules/routing/postgres.go:105`), but joins the order's `vendor_store_product_id` to the
  store that owns it (`:117-118`), and an order holds products of its own store only
  (`modules/order/postgres.go:123`): one candidate at most, and scores and loads choose nothing.
  Routing an order again leaves its earlier decision ASSIGNED.  An override
  that dies between its two statements leaves no assigned store, and a rule deleted between
  the reads and the INSERT makes that fail.
- PlaceOrder announces "validate stock & availability" (`modules/order/service.go:82`): no
  stock is looked at, and a store that was turned off takes orders.  Nothing ever sets
  `design_assets.deleted_at`, which the check of an asset tests.
- A repeated key answers with the order it made whatever the body now says, and the checks
  of the handler come before the key is looked up, so that a retry may be refused for what
  has changed since (`modules/order/handler.go:51`).
- Two overlapping requests to reset a PIN leave two links that work; one that dies between
  its statements leaves none.
- List of a conversation marks what it has not selected (`modules/conversation/service.go:72`),
  and with more than two participants one reader's `read_at` is everybody's.
- "Dismiss" hides a notification from the inbox (`modules/notification/service.go:34`); a list
  without a status filter shows it.
- Administrators cannot see or change vendors: the statements name `vendors.status`, `email` and
  `phone`, which no migration creates (`modules/admin/postgres.go:207`, `:220`; migration 000003),
  so they always fail.  So do those on `orders.total_amount` (`:31`, `:248`, `:276`) and on
  `start_date` and `end_date` of subscriptions (`:308`).
- A direct send that repeats a key is answered with PENDING or FAILED for ever if the first
  request died or failed, and with an error of the unique index if it overlaps it.

## 8. What is not modelled

- **Submissions**: a request for support and a feedback are one INSERT each, and two lists;
  no statement changes or deletes a row.
- **Catalogue**: products of the platform are created and listed by single statements, and
  nothing that is modelled depends on what they say.
- **Vendor tiers, assets, API process, API documentation, migrations, scripts**: seeded
  data, files, wiring and text.  What the schema constrains is in the guards of the actions.
- **Outside of the code's statements**: the database is taken to do what PostgreSQL
  documents for READ COMMITTED, SERIALIZABLE, `FOR UPDATE`, `SKIP LOCKED`, unique and
  partial indexes and advisory locks; Lenco's references are taken to be unique.
- Within modelled components: items, numbers, names, formats; access checks that
  depend on the token alone; rate limits; password login; the event log of the consents; a
  user's profile; what the communication adapters log instead of sending when no credentials are
  configured; the administrators' statements that always fail (section 7).

## 9. Plan

Done: every component with a state that more than one statement touches has a module and a
run, and every safety property, action property and refinement that a run checks has a theorem.
In the order of their worth:

1. *Refinement*: an abstract "paid once" that both `SubscriptionCheckout` and `PointOfSale`
   implement.
2. *Remainders*: the event log of consents beside the consents, and the sharing of a platform
   product between stores.
3. *Proofs*: the composed `progress` run as one theorem; the steps of the liveness arguments
   that are safety (what a fair step achieves once it is taken).
