# Verification models of the credit management API

TLA+ models of the parts of this API that keep money, stock, accounts and the
catalogue, the TLC configurations that check them on small instances, and the
TLAPS proofs of what holds for every instance. The models are translated from
the TypeScript under `src/src/` (paths below are relative to it);
`PROJECT.json` maps every definition to the lines it stands for.

## 1. The system

A Node/Express API over PostgreSQL (Prisma, READ COMMITTED), in three layers:
`presentation/` (routers, controllers, middlewares), `domain/` (use cases, DTOs,
entities, ports) and `infrastructure/` (Prisma datasources, adapters, jobs,
subscribers, messaging). It serves a shop that sells on credit: staff register
sales and instalment payments of *clients*, and *customers* of a web shop place
*online orders* that reserve stock and are paid through Mercado Pago. State lives
in the database, except for a few in-memory caches (feature flags, breakers,
notification throttle). There may be several server processes.

The pattern that makes it hard: a use case **reads and validates with separate
queries**, then its datasource runs **one `prisma.$transaction`**, and only some
statements repeat the condition they rely on in their `WHERE`. Between the two,
other requests, webhooks and timers commit; processes stop; calls to the gateway
fail and are retried.

| Component | State it keeps | Operations | What makes it correct | Models |
|---|---|---|---|---|
| Credit ledger | `Client.balance`, `Sale`, `Payment`, `LedgerEntry`, `AuditLog` | create / delete sale, create / update / delete payment, deactivate client | the ledger is a chain that ends in the balance; the balance is what the sales and payments say; statuses follow payments | `Account`, `CreditLedger` |
| Online orders | `OnlineOrder`, `OrderEvent`, `ProcessedWebhook`, `Product.stock`, `StockMovement` | checkout, webhook, expiry sweep, staff status change | an event acts once, an order ends once, stock is reserved and returned once, nothing is forgotten | `OnlineOrders` |
| Idempotency-Key middleware | `IdempotencyRecord` | find, run, record, replay | one answer per key and body; a retry after an answer does nothing | `Idempotency`, `ReplayLedger` |
| Cart | `Cart`, `CartItem` | add, set, remove, merge on login, clear after checkout | no unit from nowhere, none lost unless requests overlap | `Cart` |
| Customer addresses | `CustomerAddress` | create, update, delete, set default | one default | `Addresses` |
| Coupons | `Coupon`, `CouponRedemption` | look up, redeem inside checkout | uses counted and limited | `Checkout` |
| Prices, taxes, shipping, risk | none (pure) | quote an order, score it | what is charged is what the coupon leaves | `Pricing` |
| Inventory | `Product.stock`, `ProductVariant.stock`, sale items | sale and its deletion, order, adjustment, variant edit, creation, deletion | every unit is on the shelf or out | `Inventory` |
| Categories and attributes | `Category`, `CategoryAttribute`, `AttributeValue`, links, variants' hashes | assign, replace, change category, save variants, delete | links fit the category, variants differ | `Catalogue` |
| Pictures | `ProductImage`, `ProductAsset`, files at Cloudinary | upload, reuse, delete | no row without file, no file without row | `Media` |
| Slugs and SEO | `Product.slug`, `ProductSlugHistory`, `Category.slug` | create, rename, look up, sitemap | an old address leads to its product | `Slugs` |
| Public answers | ETags, the browser's copy | list, filter, revalidate | a confirmed copy is current | `PublicCache` |
| Credit plans and collections | plan columns of `Sale`, `Client.creditLimit` | sell, edit the plan, pay, list what is due, statement | instalments add up, dates follow each other, the limit is kept, the lists show it all | `CreditPlans`, `Collections` |
| Users, customers, clients | `User`, `Customer`, `Client` | register, e-mail, password, Google, activity, claim | mailed passwords work, e-mails and claims are unique | `Accounts` |
| Staff mails | breakers and throttle in memory, the Redis queue, `NotificationLog` | send, queue, work off, log | copies and what the log says of handovers are accounted for | `StaffMail` |
| Breakers | in memory | call the gateway, the mail service, WhatsApp | nothing goes out while blocked | `Breaker`, `GatewayBreaker`, `MessageBreaker` |
| Feature flags | `FeatureFlag`, a cache per adapter | read, update | staleness is bounded | `FeatureFlags` |
| Reports, dashboard, alerts | materialized views, two jobs | refresh, report, raise alarms | figures agree, an alarm has its reason | `Figures` |
| Tokens and roles, PDFs, templates, campaigns, rate limits, audit queries | adapters | format, send, query one table | - | not modelled (section 7) |

Interactions: orders and sales share `Product.stock`; a staff member who marks an
order PAID makes a `Sale` of it when its customer is linked to a client; sales
and payments emit events that subscribers turn into notifications; the
idempotency middleware wraps the POST handlers of sales, payments and orders; the
gateway calls back the webhook, the expiry job runs on a timer per process.

The hazards of the code are listed line by line in `PROJECT.json` with the
properties that are about them.

## 2. Modules

| Module | What it is |
|---|---|
| `Account` | Abstract specification: a client's balance moves only by posting an entry that records the movement and the balance it leads to. |
| `CreditLedger` | Sales and payments of clients, with concurrent requests; implements `Account`. |
| `MCCreditLedger` | Symmetry for TLC. |
| `CreditLedgerProofs` | The refinement and every safety property of the ledger, for every instance: under any interleaving, and for requests that do not overlap. |
| `OnlineOrders` | Orders, webhook deliveries, the expiry job, the staff, the gateway. |
| `MCOnlineOrders` | Quantities, stock and payments of the small instances, and symmetry. |
| `OnlineOrdersProofs` | The eight safety properties of the orders and their types, for every instance. |
| `ReplayLedger`, `Idempotency` | What a key promises about answers, and the middleware that implements it. |
| `Cart`, `Addresses`, `Checkout`, `Pricing` | The shop before an order exists. |
| `StorefrontProofs`, `CartProofs` | Their properties and types, and those of their composition, for every instance. |
| `MCStorefront` | Small instances of the five above and of the breakers, and their composition. |
| `Inventory`, `Catalogue`, `Media`, `Slugs`, `PublicCache` | The goods: stock, attributes, pictures, addresses, and what is shown of them. |
| `CreditPlans`, `Collections` | Plans of credit sales, and the lists and statements derived from them. |
| `Accounts` | Users, customers and clients. |
| `StaffMail`, `Breaker`, `GatewayBreaker`, `MessageBreaker`, `FeatureFlags`, `Figures` | What runs beside the requests. |
| `Pages`, `Caches`, `Breakers` | What `Media` and `Slugs`, the caches and the figures, and the two kinds of breaker promise together. |
| `BackofficeProofs`, `PagesProofs`, `PlansProofs` | The properties of the back office and the types of its parts, for every instance. |
| `Sums` | Lemmas about sums over finite sets, by which every proof that counts counts. |
| `MCBackoffice` | Small instances of the parts of the back office and their composition. |

### CreditLedger and the code

A *worker* is an HTTP request. `Validate...` is the use case up to the call of its
repository: every query and check, merged into one read of the database.
`Commit...` is the datasource's transaction. The record `worker[w]` holds what the
request carries from one to the other, so everything computed from stale reads
(the audit values, the amount of a deletion) stays stale in the model.

* One transaction is one action because each of them updates the client's row
  before it computes the balance it books and the totals it compares: that row's
  lock orders the transactions of a client. The exceptions are `PUT` and `DELETE`
  of a payment, which first read the payment without a lock: `ReadPayment` is a
  step of its own, and the amount it read (`old`) is what the balance moves by.
* A commit whose condition fails (the row is gone, a foreign key breaks) rolls
  back: the request then ends by `Abort`, which also stands for crashes, lost
  connections and the deadlock between an update (payment, then client) and a
  deletion (client, then payment) of one payment.
* Creating a sale with an initial payment is two transactions, as in the code: a
  failure in between leaves the sale without its payment.
* `DeactivateClient` is the soft delete; validations ask for an active client
  (`findById` filters `isActive`), transactions do not.
* Left out: collection plans, notes and dates, the client's data, edits of the
  credit limit, the items and stock of a sale (all of these in `CreditPlans` and
  `Inventory`), notifications. A model amount is a
  whole unit; a sale's total is at least 1.
* The merging of a validation's queries into one read is an abstraction: the real
  reads may be torn across other commits. It does not hide the races below, which
  need only the gap between validation and transaction.

### OnlineOrders and the code

A *hook* is one delivery of a gateway event, a *job* the expiry ticker of one
process, a *staff* member one PATCH of an order. Each of their database calls or
calls to the gateway is one action; `actor[a].pc` names the call it makes next,
and what it has read travels in the record.

* `Claim` is the `createMany(skipDuplicates)` of `ProcessedWebhook`; `VerifyFails`
  releases the claim; `Refuse` and `Decide` are the read of the order and the
  decision; `MarkAsPaid` and `MarkAsCancelled` are updates by id, as in the code.
* `ExpireNext` and `TryCancelOrExpirePending` are the guarded transition; `Tick`
  is a sweep's bounded query; a sweep skips orders that have moved on.
* `IncrementStock` is one transaction per item, then `MarkStockRestored` sets the
  marker, or `LeaveUnmarked` does not after a failed item. The three callers
  (webhook, sweep, staff) share these actions; they differ in what happens when
  the marker's own write fails (`MarkerFails`: a webhook is then not answered).
* `Request`/`UpdateStatus` with PAID is unconditional, and makes a `Sale` for a
  linked customer (`CreateSaleFromOrder`, best effort).
* External: payments at Mercado Pago, one event when a payment is created and one
  when it is updated, redelivered until answered with 200 and sometimes again.
  `mismatched` is an approved payment whose amount is more than 1 off the total
  (also what an order with shipping or a discount gets, since the payment link
  charges the items only). A lookup answered with 404 is `missing`.
* `stock[p]` is the product's counter and its default variant's, which every
  action here moves together (`Inventory` tells them apart). Left out: coupons,
  risk and prices (`Checkout`, `Pricing`), the payment link's columns, the `fromStatus` of an event, notifications without a
  payment id (answered as `ignored`, no effect).

### The storefront and the code

Every query of the middleware, of a cart's transaction or of a checkout after
which others may commit is a step. Reads and writes of one transaction are
separate under READ COMMITTED; a write whose row is gone or whose key is taken
rolls back.

* `Idempotency`: an *attempt* is one HTTP request; a retry is another attempt with
  the same key. `Find`, the handler, `Reread` and the write of the record are
  steps; attempts may stop between them, and answers may be lost. An answer is
  named after the attempt that executed, so a second execution is visible. It
  implements `ReplayLedger` (one row per key, one answer per row) in spite of
  double executions, which the run `idempotency_double` shows.
* `Cart`: `expected` is what the carts would hold if requests came one by one,
  `overlap` whether two ever overlapped: the property says that losses need an
  overlap, not that there are none.
* `Addresses`: `mixed` has the customers for whom a creation or a deletion
  overlapped with something; only they can have two defaults or none.
* `Checkout`: the use case's reads, the row locks of the products, the customer's
  count, the guarded counter, the payment link and the clearing of the cart.
* `Pricing`: prices in cents, with the ratio of two decimals that scales net and
  tax. A small fixed coupon on a large order is recorded and redeemed and takes
  nothing off (a ratio of 0.998 is 1); a coupon's category or product only
  decides whether it applies, the discount is taken off the whole order although
  docs/modules.md:37 speaks of scope rules.
* `GatewayBreaker` counts failures of the last minute and probes, `MessageBreaker`
  counts consecutive ones and forgets; both implement `Breaker`, with calls that
  were out when they opened.

### The back office and the code

* `Inventory`: one product, its variants, physical sales with one item, online
  orders, staff requests. Checks before a transaction (`ValidateSale`,
  `CheckAdjustment`, `CheckVariantUnsold`) are steps of their own; the edit of a
  variant without attributes is two updates without a transaction
  (`UpdateVariant`, `UpdateProductStock`, `EditAbandoned` for a stop in between).
  An order is paid, and cancelled by a webhook, by id (`MarkPaid`,
  `CancelByWebhook`): one that the sweep or the staff ended meanwhile (`EndPending`)
  is cancelled again and its units come back a second time, and one that is made a
  sale may be so again (`SellOrder`). `ReturnedOnce` excepts the second return from
  `UnitsAccounted`; `MaxCancels` bounds how often an order is ended.
  The counters of product and variants do drift apart; what holds is that each
  is what its own movements leave.
* `Catalogue`: hashes are the sets that were hashed; deletions cascade to the
  links. A hash is not recomputed when a value goes, hence `past.deleted`.
* `Media`: uploads are written down afterwards and files deleted first, so a stop
  or a second request leaves a file or a row alone; `disturbed` has exactly the
  files for which that happened.
* `Slugs`: the history is looked at before the slugs. README.md:782 and
  schema.prisma:150 promise clean 301 redirects; they are when nobody takes a
  slug back. A product that returns to an earlier slug redirects to itself, and
  the third change of that kind is refused by the unique key of the history. The
  model shows that these, and a slug that another product had, are the only ways.
  That other product is visible, or it took a slug back itself: the second case
  needs more steps than the run has and came up in the proof.
* `PublicCache`: the ETag is a hash of the `updatedAt` values of a body. What has
  no stamp in a body (pictures, a category's name, the total) stays old in a copy
  that was just confirmed; goods of one bulk update have one stamp, and the tag
  sorts them. `cachePublic` wraps `res.json`, so it does nothing for sitemap.xml
  and robots.txt, which are sent with `res.send`.
* `CreditPlans`: cents, and days counted from the first of 2026, on a calendar
  with no last year (2100 is taken for a leap year). `BeginSale`/`BeginEdit` read,
  `CommitSalePlan`/`CommitEdit` write what was computed from that. `FullPaid` has
  both outcomes of a floating-point quotient that should be whole. Rounding
  leaves half a cent per instalment between a plan and its debt. An edit may give
  a weekly plan a day above 7, for which the search for the first date
  (installment-schedule.service.ts:223) never ends: `LaidOut`, `redated`.
* `Collections` lays the plans out as each of its readers does. The dashboard's
  query leaves out plans without a day (`OnDashboard`), the others show them.
* `Accounts`: a request reads, decides and writes later; e-mails of accounts,
  Google accounts and claims have unique keys, e-mails of clients do not. The
  mail of a temporary password follows the write. Requests start in the order of
  their names, since they differ in nothing else.
* `StaffMail`: from an event to the mailbox and the log row, with stops of both
  processes. The throttle forgets old times only when it is asked for a place.
  The subscribers' WhatsApp calls are commented out. The worker
  ignores that `sendEmail` answered false, so a refused mail ends its job as done
  (`AfterFailure`) and its four other attempts are never made, although the
  repository's README.md:655 promises retries: the run `MailDropped`. Only a job
  whose workers stopped too often becomes a failed one. What holds of the log is
  `HandoverLogged`: a row tells whether the mail was handed over to the queue or
  the mail server, not whether it arrived.
* `FeatureFlags`: a read in flight during an update stores the old value for
  another minute; `SlowestQuery` bounds how long a query takes.
* `Figures`: amounts are units and days have `HoursPerDay` hours. The view is as
  old as its last refresh; an order that staff mark as paid has no `paidAt` and
  counts on the day it was made; a repeated PATCH enters another sale of it, which
  the report counts again. A late webhook cancels by id an order that was paid
  meanwhile (`CancelOrder`): it leaves the view and the figures of its day. Alarms are raised anew at each tick, and nothing
  compares them with those of the tick before.

### Several parts in one run

`MCStorefront` and `MCBackoffice` compose parts that have no state in common.
A behaviour picks one (`part`) and only that part moves: as no part reads
another's variables, interleaving two of them reaches no state of a part, and no
step of it, that it does not reach alone, and the number of states is a sum, not
a product. The safety properties of a part are evaluated on all states; only
`TypeOK` names the parts.

### Variants

Some definitions stand beside a variant that no action uses (`Remaining` beside
`RemainingUnpaid`, `Unclaimed` beside `UnclaimedUntilAnswered`, ...). A variant is
a plausible mistake: a dropped guard, a stale value, a swapped order. Putting it
in the place of its neighbour makes TLC violate the property `PROJECT.json`
lists with it under `mutants`, which shows that the property depends on that
piece of code.

## 3. Runs

| Run | Result | Instance | Shows |
|---|---|---|---|
| `LedgerConcurrent` | holds, 165 718 states | 1 client, 1 sale, 2 payments, 2 requests at a time, amounts 1..2, 4 entries, every operation | `LedgerChain`, `SaleStatusAgrees`, `TablesMatchBook`, `ExactUntilAdjusted`, `ImplementsAccount` under every interleaving and failure |
| `LedgerSerial` | holds, 288 574 states | 2 clients, 2 sales, 2 payments, 1 request at a time, 5 entries | `BalanceExact`, `PaidWithinTotal`, `AuditMatchesBook`, `PaymentsKeepTheirSale`: what the use cases' checks give without concurrency |
| `LedgerAdjustRace` | violated | 1 payment, 2 requests | `BalanceExact` under two corrections of one payment |
| `OrdersSafety` | holds, 737 568 states | 1 order of 2 products, 1 payment (2 events), 2 deliveries at a time, a job, a staff member, all may crash; 1 failure, 1 crash, 1 redelivery, 1 request | `EventAppliedOnce`, `OneGuardedTermination`, `MarkerHonest`, `ReleasesMatchEvents`, `PendingKeepsReservation`, `PaidLeftOnlyByWebhook` |
| `OrdersLiveness` | holds, 127 806 states | 3 orders over 3 units, two of which may be pending at a time, 1 payment, 1 delivery at a time, a job with sweeps of 1 order that may crash, 1 failure | `SoldWithinStock`, `ClaimNotLost`, `PaymentTakesEffect`, `OverdueEnds`, the last two under fairness |
| `OrdersPaidRace` | violated | a delivery and a sweep, no failure | `PaidKeepsStock` |
| `OrdersClaimLost` | violated | a delivery that may stop | `ClaimNotLost` |
| `OrdersReleaseLost` | violated | a sweep that may stop | `ExpiredFreesStock` |
| `Storefront` | holds, 327 674 states | 3 attempts with a key, 2 visits on 2 carts, 2 requests on 3 addresses, 3 checkouts with a coupon of 2 uses, the enumerated prices and risks, 3 calls behind each breaker | `ImplementsReplays`, `RetryAfterReplyHarmless`, `NoUnitsFromNothing`, `ExactUnlessOverlap`, `DefaultsKept`, `CouponCounterExact`, `SharedGoodsKeepLimit`, `PricingSound`, `BreakersKeepPromise` |
| `IdempotencyDouble` | violated | 2 attempts with one key | `ExecutedOnce` |
| `Backoffice` | holds, 399 125 states | see the head of `Backoffice.cfg` | `UnitsAccounted`, `NeverOversold`, `VariantsFitProduct`, `LinksLead`, `PlansSound`, `PeopleConsistent`, `HandoversAccounted`, `CachesAgree` |
| `MailDropped` | violated | 2 mails, a worker, a mail server that refuses | `UndeliveredJobsKept` |

The violated runs are disagreements between the code and what its documentation
says; `findings` in `PROJECT.json` quotes both. Where two runs check the same
formula with different results, the difference is the point: `BalanceExact` holds
for one request at a time and not for two, `ClaimNotLost` holds as long as
deliveries do not stop halfway and not when they do.

Worth knowing, although no run is about them alone and, but for the redirects
of `Slugs`, no document promises otherwise: two credit sales at once may exceed
the credit limit together, two payments at once may overpay a sale or a balance,
marking an order PAID twice makes two sales, and what the last two lists of
section 2 say.

**Exceptions in properties.** Many properties of the storefront and the back
office have the form "unless these requests overlapped": the code does not
promise more. Each exception was taken out in turn and TLC then found the
property violated, so none is wider than the code needs; and each property is
violated by a mistake in the code it is about (`mutants`).

**Bounds.** `MaxAmount`, `MaxEntries`, the sets of ids and the budgets of
failures, crashes, redeliveries and requests are the only bounds; each is a guard
of the action that consumes it. Two requests on one client are enough for the
ledger because a transaction depends on others only through the rows of its
client, and two payments of one sale with totals up to 2 reach every status,
overpayment, and every pairing of operations; four entries allow opening a sale,
two payments and a correction or deletion on top. Two deliveries with two events
reach both races of webhooks (same event, different events); one order suffices
for the safety of orders, since orders meet only in the stock and in the sweeps:
the three of `OrdersLiveness` compete for both. One failure and one crash at any step
show what a partial effect leaves behind.

In the storefront and the back office every part has two or three requests at
once, which is what its races take (three attempts with a key: one executes, one
overlaps, one comes later), and a budget of steps large enough to reach every
exception of its property. Sets of values are the smallest that tell the cases
apart: a slug taken, freed and suffixed; plans of each frequency, an instalment
of one cent and a day that February lacks; days before, between and after two
due dates. Larger instances were checked outside the runs: plans with 4
steps, slugs with 7, copies with 3 changes, and figures with 4 entries and floors
of 1 and 2, which take two orders on one day to reach.

**Deadlock** is not checked: requests, deliveries and budgets run out and the
system may rightly stop.

**Fairness** (`FairSpec`): code that has begun goes on (an event loop that runs),
the timer keeps ticking (`setInterval`), and the gateway redelivers an event that
was not answered with 200. Nothing is assumed of buyers, staff, time or failures;
weak fairness suffices because each of these steps stays enabled until taken. The
job and the staff share no lock, and a delivery that fails gives its event back
to the gateway.

## 4. Proofs

Every safety property of a passing run is a theorem for all values of the
constants, the types among them; so are the four refinements. Each theorem rests on an
inductive invariant, because hardly any of the properties is inductive as it
stands: they speak of the tables, and what keeps the tables right is what the
requests under way have read. The assumptions are the `ASSUME`s of the modules,
which TLC evaluates in every run: names of rows that there are differ from those
of missing ones, bounds are natural numbers, sets that are summed over are finite.

**Sums.** Balances, payments of a sale, units of an order are sums over sets.
`Sums` proves that `SumFunctionOnSet` obeys the equation it is defined by, by
induction over the subsets of the index set (well-founded, over a *set* of good
subsets, since the library's induction over a predicate is out of the provers'
reach), and from that how a sum moves when an index or a value does
(`SumAdd`, `SumRemove`, `SumChange`, `SumMonotone`, ...).

### The ledger

| Theorem | Invariant, and why it is needed |
|---|---|
| `TypeCorrect` | `TypeInv` adds `References`: a transaction dereferences ids that its request carries, so which ids are set at which step belongs to the types. |
| `LedgerChained`, `LedgerImplementsAccount` | `StepMoves`, one case per action: a step leaves balances and books alone or posts one entry to one client. That `balanceAfter` is computed under the row's lock, not from the validation, is what each commit's case turns on. |
| `SaleStatusAgreesAlways`, `TablesMatchBookAlways` | `LinkedInv`: payments name live sales of their own client, and what a request has read of a row (client, type, sale) is still so, or the sale is gone. The status is recomputed from the sum of the payments, which the step has just changed. |
| `ExactUntilAdjustedAlways` | `ExactInv`: the balance is open sales less payments, and a deletion about to commit still knows its payment's amount, until a correction is booked for the client. |
| `BalanceExactSerially`, `PaidWithinTotalSerially`, `AuditMatchesBookSerially`, `PaymentsKeepTheirSaleSerially` | `SerialInv`, under `OneAtATime` (one worker): what a request validated (`StillTrue`) is true when it commits. The hypothesis is the point: the run `LedgerAdjustRace` breaks `BalanceExact` with two workers. |

### The orders

| Theorem | Invariant, and why it is needed |
|---|---|
| `TypeCorrect` | `TypeInv` adds what each actor carries at each step (`CarriedBy`). |
| `AppliedOnce` | `EventInv`: deliveries at work hold different, claimed, unapplied events, and an applied event stays claimed, so that a release (which needs a delivery at `verify`) never frees an applied one. |
| `TerminatedOnce`, `MarkerTrue`, `ReservationKept` | `OrderInv`: an order not yet checked out or pending has no row of the guarded transition and nothing returned; whoever returns stock works on an order that has left PENDING_PAYMENT, and while none of its increments failed, every item is still to do or returned. |
| `PaidOnlyCancelledByWebhook` | The action property, from `OrderStep` alone, which says all that a step can do to orders. |
| `ReleasesMatch` | `ReleaseInv`: what was returned and what actors have still to return add up to at most the terminations written, and to exactly these while nothing failed or crashed. |
| `OrdersWithinStock` | `StockInv`: stock and what orders hold add up to the initial stock, where an order's hold may be negative after a double return. The history of an order decided on once leaves no room for that. |
| `ClaimsNotLost` | `ClaimInv`, under `DeliveriesFinish` (no delivery stops halfway): a delivery at work fits the state its payment has reached. The run `OrdersClaimLost` violates the property without that hypothesis. |

### The storefront

| Theorem | Invariant, and why it is needed |
|---|---|
| `RepetitionHarmless`, `MiddlewareImplementsReplays` | `IdempotencyInv`: an answer given is the one in the row; an attempt sent after an answer was received finds that row and never executes; an attempt about to write has executed. Each step is then one of `ReplayLedger` or a stutter. |
| `CouponCounted`, `SharedGoodsLimited` | `CheckoutInv`: no two transactions hold one product's row (`LocksSound`), so a count of the customer's redemptions stays good as far as shared products go until its commit (`CountStands`). |
| `DefaultsAreKept` | `AddressInv`: what an edit has read is still so for customers with no overlap that involves a creation or a deletion. |
| `PricesAndRiskSound` | `PricingInv`. Each rounding leaves at most half a unit (`NearestWithinHalf`); net and tax add up to the gross price until the coupon scales both with the rounded ratio; the bound on what is charged follows by arithmetic that is not linear and is laid out by hand. |
| `UnitsComeFromRequests` | `CartFunded`: some table of *purses* bounds each line by what requests put into that cart, or into carts merged into it. `added` alone does not tell which cart the units are in, so the bound is proved to exist. |
| `BreakersImplement` | `GatewayInv`: an open breaker was opened for a while; the list of failures, cut to the recent ones, grows by at most one. `MessageBreaker` needs its types only. Each step is then one of `Breaker` or a stutter. |
| `StorefrontTypeCorrect` | `PartTyped`: the invariants above, of the part that moves. For prices, `AmountsNat`: no amount is below zero at any step, since what a coupon takes off is at most the price and its ratio is not negative. |
| `CartsExactUnlessOverlap` | `CartExact`: with one visit at a time what it has read is what its owner's cart should hold, also between the writes of a merge. |

### The back office

| Theorem | Invariant, and why it is needed |
|---|---|
| `NeverOversoldAlways` | `InventoryRows` (what is live, what sales took and what tasks read) and `ShelfInv`: until a variant is created, edited or deleted the product's unguarded counter is the sum of the guarded ones. |
| `UnitsAccountedAlways` | `InventoryRows`; units out are sums over sales and over orders that have not given theirs back (`Holds`), and each action moves one term. A second return adds units that no term has, which is why `ReturnedOnce` is a hypothesis. |
| `VariantsAlwaysFit` | `CatalogueInv`: a hash is that of the variant's values until a value is deleted, and a request still writes the category it found, unless the product moved or that category's values are gone. |
| `PeopleStayConsistent` | `PeopleInv`: a request under way entangles what it shares with another; otherwise the e-mail it found free is free and the password it stored is still stored when it is mailed. |
| `HandoversAccountedAlways` | `MailInv`: copies are bounded by worker stops, with one more for a mail whose answer was lost; a mail of which the web process was told that it failed has no job. |
| `LinksAlwaysLead` | `MediaInv` (a file is shown, arriving, leaving or disturbed) and `SlugsInv`: the history names the first owner of every slug not in use, unless that owner took a slug back, and what a rename has read is its product's slug or was. |
| `CachesAlwaysAgree` | `FlagInv` (every value under way or cached is one that the flag had, not long ago), `CacheInv` and `FigureInv` (the view is right on days without a later write, alarms are those of the rows while nothing moved). `CacheInv` says that a stamp found again finds the article as it was; rows of one tag are then the same rows because each row adds two stamps and stamps of different articles differ. |
| `PlansAlwaysSound` | `PlansInv`, see below. |
| `BackofficeTypeCorrect` | `OfficeTyped`: each part's invariant above with what its types need beside it. A job whose stalls exceed `MaxStalls` is a failed one (`JobsTire`), or a worker could stop with it once more; the sum of the stalls is not negative, or the restarts of the web process had no bound; counts of a view are bounded by how many rows there are, stamps by how many changes. |

**Plans and lists.** `PlansSound` says seven things of a plan and its readers.
`PlansInv` keeps what they rest on: the instalment is the rounded quotient of the
other columns unless an edit crossed another (`SalesKept`); a sale about to be
made has no rows yet, nobody else makes it, and with no other sale since it was
checked it still fits the limit; an edit about to be written is of a sale whose
total has not changed (`SellersKept`). The rest is about one plan:

* the calendar: `DaysBefore` grows by 28 days at least from one month to the
  next, so each day has exactly one month (`MonthOf` is not an arbitrary choice);
* the due dates: the turns of the collection days never go back, hence the
  k-th turn after the sale (`Nth`) exists and moves forward with k. No induction
  over the schedule is needed, because the list is defined turn by turn;
* payments cover instalments in order: covered parts, the remaining parts and
  the balance of the sale differ by what rounding leaves, half a cent for each
  instalment, by the lemmas of `Sums`;
* the lists keep exactly the lines their filters ask for, a line is in the list
  of one month only, and so the months add up to the debt.

Four of these proofs changed the model. The instalment list collected the days
month by month and gave up after as many months as there are instalments. A plan
without a day, sold on the last day of a month, takes its first date from the
next one, so the list was a date short; the dates are now taken turn by turn from
all that follow. The calendar had ended with 2026, so a bound on the dates was
hidden in a table. A weight that is null adds nothing in the code
(`create-online-order.use-case.ts:213`) and the model's data allowed a negative
one, by which the weight of an order could fall below zero. `SlugsLead` was false beyond the bounds of
the run: a product may have the slug of another one that took a slug back, was
hidden since, and has no history row for that slug any more. The property
excepted only slugs of visible products and now excepts these too (section 2).
And several modules took for granted what their constants obviously satisfy (a
flag is kept for at least one unit of time, pages are numbered from 1); their
assumptions state it.

**Not proved.**

* Liveness (`PaymentTakesEffect`, `OverdueEnds`) and whatever needs ENABLED: out
  of the prover's reach.
* What recursive definitions compute: there are none in the modules; sums and
  schedules are given by a fold or turn by turn, so that nothing waits for an
  induction over data.
* The violated runs, which are counterexamples.

## 5. Running

    tlc -config LedgerConcurrent.cfg MCCreditLedger.tla
    tlc -config OrdersSafety.cfg MCOnlineOrders.tla
    tlc -config Storefront.cfg MCStorefront.tla
    tlc -config Backoffice.cfg MCBackoffice.tla
    tlapm CreditLedgerProofs.tla
    tlapm OnlineOrdersProofs.tla
    tlapm StorefrontProofs.tla
    tlapm CartProofs.tla
    tlapm BackofficeProofs.tla
    tlapm PagesProofs.tla
    tlapm PlansProofs.tla
    tlapm Sums.tla

The longest run takes three to four minutes, the proofs of a module up to seven.

## 6. Plan

All the parts that were planned are modelled, and every safety property of the
passing runs is proved. What could follow, in this order:

1. `CreditPlans` over `CreditLedger`, whose sales have an initial payment of their
   own: what a plan is left with when that second transaction fails.
2. Liveness of the mail queue: a job that waits is taken as long as a worker runs.
3. The statistics named in section 7, if something comes to depend on them.

## 7. Not modelled

* Tokens, roles and signatures: checked request by request, without state.
* The other materialized views (cohorts, funnel, seasonality, RFM, dead stock),
  the audit log's filters and the price experiments: queries over tables that
  nothing here depends on.
* PDFs, templates, campaigns, uploads' formats, rate limits, logging: formatting
  and external I/O.
* The creation of coupons, attributes, categories' attributes and names, which
  are single inserts behind unique keys.
* `GET /collections` by `dueFrom` and `dueTo`: the month filter has the same form.
* Hours and time zones of due dates, and dates after February 2100.
