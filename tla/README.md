# Verification of Cartcrft

TLA+ models of Cartcrft, a headless commerce server: the backend (`src/backend/src`,
Fastify handlers and background workers over one PostgreSQL database) and the billing of
its cloud (`src/cloud/billing`). The interesting state is rows of a database; the
interesting behaviour is what happens between the statements of handlers that run at the
same time, and between a statement and the outside world it does not span: a payment
provider, a mail, a channel manager, a process that dies.

Contents: 1 the inventory, 2 the plan, 3 the modules, 4 the runs, 5 what the models show
besides, 6 fairness, 7 proofs, 8 what is not modelled.

## 1. Inventory

| Component | State | Operations | What is hard | What makes it correct |
|---|---|---|---|---|
| Carts (`modules/carts`) | `carts.status`, `cart_lines` | add, update, remove a line, abandon | lines change while a checkout of the cart completes; `addCartLine` reads, then inserts | an order is worth its lines |
| Checkouts (`modules/checkout/service.ts`) | `checkouts` (status, totals, discount) | create, update, apply a discount | the update reads, computes and writes in separate statements | a completed checkout does not change back |
| Completion (`modules/checkout/complete.ts`) | everything it writes, in one transaction | `completeCheckout` | eight steps under READ COMMITTED, row locks taken one by one, a second connection for agents | one order per checkout; caps, stock, credit and numbering hold; all or nothing; it ends |
| Order numbers (`migrations/0002`) | `stores.order_sequence` | `next_order_number` | rollback after the number was drawn | no gap, no duplicate |
| Inventory (`modules/inventory`) | `inventory_levels`, adjustments | set, adjust, lots, serials | rows of one variant in several warehouses | nothing is sold that is not there |
| B2B (`modules/b2b`) | `companies.credit_used`, quotes | consume, release, quote life cycle | check-then-act, release by cancel and by refund | credit follows the orders; a quote is ordered once |
| Agents (`modules/agents`) | agents, mandates | verify an agent checkout; create, verify, revoke mandates | chains read row by row | what was accepted stood as a whole |
| Orders (`modules/orders`) | `orders`, events | create, update, cancel | cancel against refund and webhook | credit released, announced when it exists |
| Payments (`modules/payments`) | `payments`, `refunds` | create, capture, refund, delegated charge | a provider is called inside the transaction; retries | refunded <= captured <= total; totals agree |
| Inbound webhooks (`webhooks/router.ts`) | replay guard, payments, orders | success and refund events of four providers | redelivery, reordering, a crash between guard and effect | each event takes effect once |
| Subscriptions (`modules/subscriptions`) | `subscriptions`, attempts | bill, pause, resume, cancel, dunning, the scheduler | several replicas, row locks released before billing | one bill per due date |
| Worker lock (`lib/workerlock.ts`) | `worker_locks` | acquire, release | a TTL, no renewal | what the holders rely on |
| Recovery (`modules/recovery`) | `abandoned_carts` | detect, mail, recover, send again | mail sent and row written apart | one mail, and it is sent |
| Returns (`modules/returns`) | `returns`, lines | create, update, resolve | best-effort statements after the status | each remedy once, none skipped |
| Wallet (`modules/wallet`) | balance, ledger | adjust, redeem | concurrent debits | balance = sum of the ledger >= 0 |
| Downloads (`modules/digital`) | links, counters | generate, redeem | readers at the limit | the cap |
| Checkout links (`modules/checkout-links`) | link status, stamp | create, resolve, start, void | a link is stamped by whoever starts last | completed means paid |
| Agent protocols (`agent/acp`, `agent/ucp`) | answers kept in memory, provider keys | complete a session with a payment token | charge first, order second, payment last | charged once |
| Customer accounts (`modules/customer-auth`, `modules/customers`) | customers, sessions, one-time tokens | register, verify, sign in (four ways), rotate, reset, change, delete | several handlers write one row; rotation against reuse | one heir per family; nobody is signed in unproven |
| OAuth server (`modules/oauth`) | apps, grants, codes, token families | authorize, consent, exchange, rotate, revoke | consent replaced while codes are under way | consented scopes only |
| API keys (`modules/apikeys`, `lib/auth`) | key rows, a cache per process | look up, update, revoke | caches of replicas | revocation takes effect in bounded time |
| Rate limit (`lib/auth/middleware.ts`, `lib/cache/kv.ts`) | windows, counters | count a request | window edges, the store loading late | bounded bursts |
| Notifications (`modules/notifications`) | providers, delivery log | dispatch with retries | announced inside or outside a transaction | everyone is tried; what is told exists |
| Bookings (`modules/bookings`) | bookings, availability, channels | book, confirm, cancel, push, import | overlap checks, a second connection, stale pushes | no night sold twice, sold nights closed |
| Catalogue (`modules/catalog`) | products, variants, collections, imports | CRUD, refresh of smart collections, CSV | overlapping refreshes and imports | members match; imported once |
| Agent search (`agent/search`) | embeddings | embed what changed | edits between fetch and write | indexed is current |
| Cloud billing (`cloud/billing`) | tasks, invoices, wallet, vouchers | enqueue, charge, upgrade, redeem | workers that die, charges without an answer | charged once, invoiced, funds add up |
| HTTP, dashboard accounts, stores, tax, shipping, feeds, analytics, SDK, web | rows, adapters, I/O | CRUD | — | section 8 |

The parts share one database. A handler reaches it in two ways: `withTx` (one connection,
BEGIN .. COMMIT, row locks kept to the end) and `pool.query` (one statement that commits
at once, on any connection). `completeCheckout` calls into B2B (same connection) and into
Agents (another connection); links, agent sessions and webhooks call `completeCheckout`;
cancel and refund call `releaseCredit`; workers take the worker lock and call the
services; services announce events to the notifications.

## 2. Plan

| | Modules | |
|---|---|---|
| 1 | `Checkout`, its abstraction `OrderPlacement`, `Sums`; `CheckoutProofs`, `SumTheorems` | done |
| 2 | `Payments`, its abstraction `OrderLedger`; `PaymentsProofs`, `LedgerProofs` | done |
| 3 | `WorkerLock`, `Subscriptions`, `Recovery`, `BillingQueue` | done |
| 4 | `Credit`, `Wallet`, `Downloads`, `Returns`, `CloudWallet` | done |
| 5 | `Sessions`, `Identities`, `CheckoutLinks`, `AgentCheckout`, `CartOrders`, `Mandates` | done |
| 6 | `Bookings`, `Channels`, `Notifications`, `SearchIndex` | done |
| 7 | `Oauth`, `ApiKeys`, `RateLimit`, `SmartCollections`, `CsvImport` | done |
| 8 | `ShopProofs`, `DoorProofs`, `BookingsProofs`, `WorkersProofs`: every invariant of 3 to 7 that a run checks | done |
| 9 | The rest of `Checkout` and `Payments`: caps, credit and stock, the refinement of `OrderPlacement`, references and refunds of the provider | done |
| 10 | More refinements: `Wallet`, `Sessions` and `Bookings` as atomic ledgers, heirs and calendars; `LedgerSpec` with the webhooks of one provider | open |
| 11 | Dashboard accounts and super-admin sessions, lots and serial numbers, shipments, billing dates | open |

All modules are written without recursion, with their bounds in guards and one action per
statement, which is what makes the invariants of 8 and 9 provable: each is about what a
request knows between two statements.

## 3. Modules

One action is one statement (or one transaction, where the code has one and holds its
locks to the end). A request is a program counter with what it has read; rows are
functions; a variable marked "history" is kept for a property alone.
Definitions marked `Mutant of` are plausible bugs, used to show that a property can fail;
no specification uses them.

### Checkout

`cart, price, checkout, uses, used, stock, creditUsed, orderSequence, orders` are the
committed rows of one store. A worker `w` is a request in `completeCheckout()`: `pc[w]` is
the statement it runs next, `held[w]` the rows it has locked, `tx[w]` what it has read and
will write when it commits. One statement is one action:

| `pc` | Action | Code |
|---|---|---|
| idle | `Begin` | `withTx` BEGIN, first read of `burnCheckoutDiscount` |
| burn | `BurnCheckoutDiscount` | `UPDATE discount_codes`, `INSERT discount_usages` |
| claim | `ClaimCheckout` | `SELECT .. status = 'pending' FOR UPDATE` |
| agent | `VerifyAgentCheckout`, `PoolTimeout` | `verifyAgentCheckout` on another connection |
| number | `NextOrderNumber` | `next_order_number()` |
| prices | `RefetchPrices` | step 4 |
| credit | `CheckCreditAndConsume` | step 4b |
| order | `InsertOrder` | steps 5 and 6 |
| demand | `LoadDemand` | first query of step 7 |
| stock | `DecrementInventory`, `VerifyInventory` | rest of step 7 |
| commit | `Commit` | step 8 and COMMIT |

`Crash` and every refusal are `Rollback`. Uncommitted writes live in `tx`, so that other
handlers do not see them, and become visible in `Commit`: that is READ COMMITTED with the
row locks of PostgreSQL. Handlers beside the completions (`EditCartLine`,
`MarkCartAbandoned`, `SetPrice`, `AdjustInventory`, `CreateCheckout`, and `updateCheckout`
as `ReadForUpdate` and `WriteUpdate`) wait for a row they write (`Unlocked`).

Abstractions: shipping and tax are one constant `Extra`; a discount takes a fixed amount
off; refusals of an agent other than its limit are one nondeterministic refusal; a line
of a cart is identified with its variant; rows that the code locks in one statement and in
one order (the cart lines whose price changed) are locked together. Amounts are in cents.
The stock rows are locked one by one, as the scan of `ORDER BY id FOR UPDATE` does; what a
row will give is fixed when it is locked, which is what the code computes from the rows it
has read.

### OrderPlacement

What the rest of the shop may rely on: completing a checkout is one step that appends the
next order, burns its code within the cap, draws credit within the limit and takes stock
that is there. `PlacementSpec` says that `Checkout` implements it under the mapping
`status <- checkout[ch].status`.

### Sums, SumTheorems

Sums of integers over a finite set, written with cardinalities instead of recursion so
that the provers can use them, and the lemmas about them.

### Payments

`placed`, `financial`, `refundedTotal` (columns of `orders`), `payments`, `refunds` and
`guard` (the replay guard) are committed rows; `charges` and `returned` are the books of
the payment provider, `settled` the events it has an answer to. A handler `w` is one
request; `tx[w]` is what it has read and will write, `lock[o]` the handler that holds the
order row FOR UPDATE and `share[o]` those that hold it FOR KEY SHARE, as an INSERT into
`payments` does through its foreign key.

| Request | Actions | Code |
|---|---|---|
| createPayment | `RequestCreate`, `LockForCreate`, `CreatePayment` | balance under the lock, `INSERT .. ON CONFLICT (order_id, provider_reference)` |
| capturePayment | `RequestCapture`, `LockForCapture`, `CapturePayment` | status and balance under the lock; the provider is not called |
| createRefund | `RequestRefund`, `LockForRefund`, `CheckRefund`, `CallProvider`, `CommitRefund` | lookup by key before the lock, balance of the whole order, the provider called inside the transaction |
| chargeDelegatedToken | `ChargeToken`, `PlaceCharged`, then create and capture | charge first, completeCheckout second, payment last |
| webhook, success | `ReceiveEvent`, `LookUpOrder`, `AutoComplete`, `SumCaptures`, `InsertPayment`, `CommitPayment` | replay guard in a transaction of its own; captures added up without a lock |
| webhook, refund | `ReceiveEvent`, `FindPayment`, `LockForReceived`, `RecordRefund` | the payment found by the charge's reference; cap, insert, totals |

`Provider` chooses the references that the four dispatchers put into a row (`PaidRef`,
`ChargeRef`) and that the provider's refund API understands (`RefundableRefs`): they are
not the same thing, and which refund finds which payment follows from them. `Faults`
names what may go wrong: `crash` (the process dies at any statement; the transaction is
rolled back, and the event is sent again), `statement` (an error while recording, which
the webhook logs and answers with 200), `guard` (the replay guard cannot be written and
fails open), `provider` (it refuses, or its answer is lost), `checkout` (completeCheckout
refuses for a reason of its own). An event is sent until it is settled and can be sent
again at any time, to two handlers at once.

The provider is external: it charges what a customer pays, pays back up to the charge and
sends events. Currencies agree, cents are integers, and a checkout and the order it
becomes have one name.

### OrderLedger

What API captures and refunds do to an order: money comes in up to its total and goes out
up to what came in, one step at a time, with the cent of tolerance of the comparisons.
`LedgerSpec` says that `Payments` without webhooks implements it: a pending payment is no
money yet, and a refund counts once it is committed.

### The background workers

| Module | Rows and processes | Actions and code | What must hold |
|---|---|---|---|
| `WorkerLock` | a lease per name, with its holder | acquire, release, run out (`lib/workerlock.ts`); nothing renews a lease | used by the three below and by `SearchIndex` |
| `Subscriptions` | a subscription (`sub`), its bills and attempts, one `job` per replica or request | boot and shutdown of a replica (`main.ts`), the scheduler's tick (list, bill, log; fail, log), the bill as one transaction, billing by hand, pause, cancel, resume as a read and a write | `BilledOncePerDue`, `OnlyResumeRevives`, `DueIsHandled` |
| `Recovery` | a cart's age, its `abandoned_carts` row, the mails that left | a tick under the lock: list, upsert, send, mark; a mail sent again by hand | `OneMailPerCart`, `AbandonedIsNotified` |
| `BillingQueue` | tasks by the period they renew, the subscription, the card, charges at the provider | enqueue, claim all ready tasks in one UPDATE, charge, advance, invoice, fail, retry, dead letter; upgrade by webhook, cancel, downgrade | `ChargedOncePerTask`, `RenewalsAreInvoiced`, `TasksEnd` |

A charge whose answer was lost is counted in `unseen` (`lost`, for a mail): then the code
cannot know, and the property allows the second one it makes.

### The ledgers beside the payments

| Module | Rows | Actions and code | What must hold |
|---|---|---|---|
| `Wallet` | balance, entries, who holds the row | lock, read, write and append (`adjustStoreCredit`), rollback | the entries add up to the balance, none is overdrawn |
| `Downloads` | links of a file with their counters | generate, validate under FOR UPDATE, redeem, fail, expire | no more files leave than a link allows |
| `Credit` | `credit_used`, orders that drew it, quotes | `checkCreditAndConsume`, `cancelOrder` and its release apart, refunds, `acceptQuote` under the quote's lock, edits of a quote | `CreditIsReturned`, `QuoteOrderedOnce` |
| `Returns` | the return, what was given and what failed | `updateReturn` statement by statement: status, event, remedy, restock; each may fail | `ResolvedIsSettled` |
| `CloudWallet` | funds, their ledger, vouchers | guarded UPDATE, entry, top-up by webhook; read, count and record of a voucher | `FundsAddUp`, `DiscountsAreCounted` |

### Shoppers and agents

| Module | Rows and requests | Actions and code | What must hold |
|---|---|---|---|
| `CartOrders` | one cart's lines, the price, several checkouts and their orders | `addCartLine` as a read and a write, `updateCheckout` likewise, `completeCheckout` as its lock, three readings of the cart, and commit | `OrderIsItsLines` |
| `CheckoutLinks` | link status and stamp, the checkouts built from it | create, void, expire, resolve, start (load, build, stamp), paid by webhook, completed in the storefront | `CompletedIsPaid` |
| `AgentCheckout` | checkout, charge, order, payment; answers in memory | create and update a session; charge with the provider's key, complete, record, capture; refusal, lost answer, restart | `ChargedOnce`, `PaidIsCharged` |
| `Mandates` | intent, cart and payment mandates with their parents | create (read the parent, insert, check the signature), revoke, expire, disable the agent, verify row by row | `AcceptedStoodWhole` |
| `Sessions` | sessions with their family, magic links | sign in, list and prune, issue, consume and rotate, reuse, reset, revoke | `FamilyHasOneHeir` |
| `Identities` | the customer row of an email, unused tokens, invitations | register, verify, reset, magic link, invitation, provider (look up, then insert or update by id), password; staff insert, move to another email, delete | `SignedInHasShown` |

### What lets a request in

| Module | Rows and requests | Actions and code | What must hold |
|---|---|---|---|
| `Oauth` | app, remembered grant, screens shown, codes, refresh tokens | authorize, consent with its nonce, issue and exchange codes, rotate tokens, find a family by walking it, revoke, suspend | `ConsentedScopes`, `CodeHasOneHeir` |
| `ApiKeys` | the key row, a cache per process | look up, read, cache, check the scope; update, revoke, evict, restart; time in ticks | `RevokedIsRefused` |
| `RateLimit` | a bucket, and one of the shared store, which may be loaded at any time or never | count a request, tick | `NoBurst` |

### Bookings, channels, events, search, catalogue

| Module | Rows and requests | Actions and code | What must hold |
|---|---|---|---|
| `Bookings` | a resource's bookings, blocked nights, connections of the pool | `createBooking` (connect, lock the resource, check, price on a second connection, insert, commit), confirm, check in and out, no show, cancel as a read and a write, blocking | `NoDoubleBooking`, `BookingEnds` |
| `Channels` | the nights a provider shows as taken, pushes, imports; with `Bookings` inside | `pushARIToProvider` (calendar, bookings, send), `importICalFeed` date by date | `SoldNightsAreClosed` |
| `Notifications` | the transaction an event is about, the dispatch in memory, what was tried and told | announce inside or after the transaction, load the providers, try, retry, give up; switches; the process dies | `EveryProviderIsTried`; `ToldIsNotUndone` is violated |
| `SearchIndex` | versions of product texts, vectors, `due` | a pass: lock, fetch, embed in batches, write; product and variant edits; crash | `IndexedIsCurrent`, `DueIsIndexed` |
| `SmartCollections` | rules, members, products | add and delete a rule, then the refresh (rules, products, delete, insert); product updates, hand edits | `RulesReachMembers` |
| `CsvImport` | a product and its set of variants, the transaction of a row | update or insert the product, find, insert or update the variant, fail; beside what staff create, rename and delete | `ImportedOnce` |

### MCCheckout, MCPayments, MCWorkers, MCBookings, MCShop

The first two give the constants of `Checkout` and `Payments` small values. The others
hold many components that share no row: a variable `part` chooses one of them in the
initial state and only that one takes steps, so their state spaces add up instead of
multiplying, and one run answers for all. Where components do share rows they are run
together: completions, edits, stock and carts in `Checkout`; API requests, delegated
charges, webhooks and the provider in `Payments`; channels and bookings in `Channels`; the
lock table and the workers. Invariants of MCShop join those of its parts that say the same
of different rows (`BooksAddUp`, `OneHeirEach`, `CompletedIsPaidFor`, `CreditFollowsOrders`).
`Identities` is instantiated with the emails and the number of their rows as parameters,
`People(E, rowsEver)`: once for several emails and once for one whose row is replaced.

## 4. Runs

| Run | Instance | Shows |
|---|---|---|
| `checkout_stock` | 2 completions, 2 checkouts of one cart, 2 rows of stock, adjustments, crashes | types, numbering, no oversell |
| `checkout_caps` | 2 codes (once per customer; single use), 1 customer and guests, 1 company with a limit of 2 cents, prices of 1 and 2 that change | caps, credit drawn = credit recorded <= limit, one order per checkout |
| `checkout_edit` | `updateCheckout` between the statements of 2 completions that take a second connection from a pool of 2 | what is read under a lock stays true; refinement of `OrderPlacement`; every completion ends |
| `payments_admin` | Stripe: 2 requests at a time that create, capture and refund, or charge a delegated token; up to 2 payments and 2 refunds of an order of 3 cents, tolerance 1, crashes | types; refinement of `OrderLedger` |
| `payments_webhook` | Razorpay: charges, dashboard refunds, webhooks and API refunds on 2 handlers, all faults but `checkout` | `total_refunded` = sum of the refunds; refunds are the provider's; nothing recorded beyond what was charged; no request waits for ever |
| `workers` | 2 replicas, 1 subscription that falls due twice, 2 carts, periods of 2 days and 2 attempts, 1 fault and 1 crash | once per due date, per cart and per task; invoices; work is done |
| `bookings` | 2 requests, 2 nights, 2 connections; 2 pushes, 1 import; 2 providers with 2 retries; 2 products and 2 replicas | nights, channels, dispatch and index; booking requests and dispatches end |
| `shop` | see below | fourteen invariants of the parts of MCShop |

Two completions are enough for each of the checkout's races: every rule is about a pair
(two claims, two burns, a burn and an edit), and all further handlers compete for the same
locks. Stock has two rows, so that a demand is spread and a row may run dry; quantities
and prices go up to 2, so that a limit can be met exactly, missed by one and passed.
Payments of one order are independent of other orders, since every statement names its
order; two handlers serve the same event twice at once, and amounts of 1 and 2 of a total
of 2 leave a balance, use it up and exceed it. The tolerance is 1 where the amounts
collide with it and 0 where it would hide a difference of one.

Two replicas are what a lock is about; a subscription that falls due twice shows a bill of
the first due date that commits after the second; two carts show a tick that is cut
between them. Two nights have stays that overlap, touch and contain each other, and two
connections are the pool that two bookings can exhaust. A provider that is
tried once and one that is retried are the two kinds of endpoint.

In `shop`: 3 requests on one wallet; 2 download links with 2 downloads; 2 orders of 2 with
a credit limit of 3, so that both fit only after a release; 1 return with 2 requests and a
fault; vouchers with one redemption and 2 organisations; 3 sessions of which 2 may live,
so that a login prunes; 2 links, 2 checkouts, 2 starts; 1 agent session with 2 requests,
2 idempotency keys, 2 totals and a restart; 1 cart with 2 lines, 2 checkouts, prices of 1
and 3 around a discount of 2; 3 mandates (one chain); 1 code and 2 refresh tokens, each
screen asking for one scope; 2 processes, a cache of 2 ticks over 4; a window of 2 ticks
and 2 requests; 2 products, 1 rule, 2 refreshes; 2 imports of rows with and without a SKU;
2 emails with one customer row, and one email whose row is deleted and made again. The
races are between two of a kind; the third session, mandate and wallet request make the
case of one more than the limit.

Runs that are expected to fail state what a document or a comment of the repository says
of the program and what the code does not do:

| Run | Statement | Code |
|---|---|---|
| `agent_spend_limit` | complete.ts:237 "no concurrent agent checkout can slip through" | the sum is read on another connection and only one checkout row is locked |
| `event_dropped` | payments.md:78 "confirms payments atomically" | an order placed between lookup and auto-complete makes the webhook answer 200 and record nothing |
| `refund_key` | security.md:193 "honors Idempotency-Key" | the provider pays back before the COMMIT and without a key of its own |
| `undone` | payments/service.ts:783 "dispatched outside tx" | the refund route calls `createRefund` inside its transaction, which may still roll back |

## 5. What the models show besides

Behaviours that the models contain and that no run is spent on, reported so that nobody
takes a passing run for their absence. A name in code font is a definition of a module; TLC
refutes it when it is put into the cfg of that module's run (`DiscountedOrdersWithinCap`
with an editor and a code in `checkout_caps`, `RecordedIsCharged` with the operations
`delegated` and `webhook` together).

Checkouts and carts:

- `updateCheckout` (checkout/service.ts:473) writes without asking again for `status =
  'pending'`: a checkout completed since its SELECT gets other totals than its order.
- `completeCheckout` reads the cart three times (complete.ts:319, 458, 523): a line changed
  in between is ordered in one quantity and taken from stock in another. The subtotal is
  computed again only when a price has changed, so a line added after the checkout was
  created is ordered at the old total.
- After a price has fallen the discount can exceed the subtotal (`TotalIsNotNegative`,
  complete.ts:321), and two checkouts of one cart both complete (`CartOrderedOnce`).
- `DiscountedOrdersWithinCap` does not hold: the code of a checkout is read before the claim
  (complete.ts:194), and one applied in between is not burned (service.ts:174 calls it the
  "authoritative burn at complete time").
- No statement sets `orders.fulfillment_status` after the insert, so the guard of
  `cancelOrder` (orders/service.ts:412) never stops the cancel of a shipped order.

Payments, refunds and links:

- `RecordedIsCharged` does not hold when delegated charges and webhooks meet: the webhook
  records the charge under another reference (router.ts:1072; delegated.ts:297 "the
  (order_id, provider_reference) unique constraint makes this idempotent").
- A refund request repeated with the key of a refund that failed is answered with 201
  (payments/service.ts:577), and a concurrent duplicate that finds the balance used up is
  refused (613), where the comment at 569 promises the recorded row.
- A refund made through the API leaves the payment's status and the order's
  `financial_status` as they were (757).
- Stripe's success event is recorded under the id of the event (router.ts:531), and its
  refund event looks for the id of the charge (1189): it finds no payment.
- A completion refused after the charge leaves the money without an order (`ChargedHasOrder`,
  delegated.ts:289), a retry after a crash between the completion and the record is
  answered with NOT_FOUND, and the remembered answer of an agent's session is found by the
  idempotency key alone, whatever the session.
- A second start of a link takes the stamp of the first, and the storefront's completion
  marks no link: a paid checkout leaves its link open (`PaidIsCompleted`,
  checkout-links/service.ts:440).

Credit, returns, ledgers:

- `ReleasedIsConsumed`: a cancel after a refund, or a refund of an order that drew nothing,
  releases more than was drawn (b2b/service.ts:220; 206 "can only be released once per
  order event").
- `OneReplacementPerReturn`: two requests resolve one return twice (returns/service.ts:312).
- `RedemptionsWithinMax`: a voucher is redeemed beyond its limit by two organisations at
  once (engine.ts:641). The top-up of the cloud wallet is not idempotent and writes no entry.

Workers:

- `DueIsAlwaysHandled`: a scheduler that dies, or finds the lease of a dead one, is not
  replaced until a replica boots again (`0020_analytics_partition_retention.sql`:31
  "TTL-based expiry allows automatic failover
  on crash"). With `Unguarded`, two schedulers bill one due date twice (`BilledOncePerDue`;
  scheduler.ts:8 "never double-process"). With `Overrun`, two ticks mail one cart twice
  (worker.ts:46).
- `TasksAlwaysEnd`: a billing task stays in `processing` after a crash or an error
  (worker.ts:3). A stale task charges again after an upgrade, since a renewal does not
  look at the period; the invoice number is a count.
- A resume undoes a cancel that fell between its two statements; trialing subscriptions are
  never billed; no caller marks an abandoned cart recovered.

Customers, applications, keys:

- `ResetEndsSessions`: a refresh that has consumed its session when a password reset revokes
  them inserts a live one after it. One-time tokens are read and used up in two statements,
  so two requests can use one; the counter of failed logins is read and written likewise.
- `VerifiedHasShown`: `sendMagicLink` inserts its customer with `email_verified = true`
  (customer-auth/service.ts:1125; `0003_customer_auth.sql`:60
  "True once the customer has clicked the
  verification link"). `updateCustomer` changes the email and keeps the flag; an acceptance
  under way marks the invitation that has replaced its own as accepted.
- `FamilyIsFound`: a rotation that has consumed its token inserts an heir after its family
  was revoked (oauth/service.ts:11). Narrowing an application's scopes does not narrow the
  refresh tokens it has; the remembered consent is the last one, not the union.
- `RevokedIsEvicted`: an answer that was under way is cached after the eviction, and other
  replicas keep theirs for the TTL (apikeys/service.ts:12); `RevokedIsRefused` is the bound
  that holds.

Bookings, channels, events:

- A night can be blocked, or imported as blocked, while a booking of it commits, since only
  bookings lock the resource.
- Pushes that overlap can leave nights open that were sold meanwhile, which is why
  `SoldNightsAreClosed` speaks of pushes alone; imported blocks are never removed.
- Events of `createOrder`, `capturePayment`, `createShipment` and of tracking are announced
  inside a transaction like those of `createRefund`.

- `TwiceTheLimit`: when the shared store takes over from the process's own bucket, a third
  window opens beside two that touch; `NoBurst` is the bound that holds, three times the
  limit less one. Nothing calls `initRateLimitKv` (middleware.ts:79), nor the reads that would
  load the store, so today each process limits by itself.

Catalogue:

- `MembersMatch`: a product that changes is not looked at until a rule does
  (add-a-product.md:109 "auto-populate"). `MembersWereFound`: two refreshes keep each
  other's insertions. A product put in by hand leaves at the next refresh.
- An import sets stock absolutely over sales made since its file was written, and reports a
  variant deleted meanwhile as updated; an administrator can still insert a SKU an import
  has just inserted.
- An edit between an index pass's fetch and its write, and edits of variants, are never
  indexed (`missed` in `SearchIndex`); a text the embedder refuses blocks its batch on every
  pass (`Poison`).

## 6. Fairness

- `checkout_edit` and `payments_webhook` assume strong fairness of each worker's (handler's)
  `Step`: a handler that has begun is scheduled again, and a row lock that is released again
  and again is obtained, because PostgreSQL serves the waiters of a row in turn.
- `workers` assumes weak fairness of the boots and steps of each replica and of the end of a
  lease: Node runs what is ready, the process manager starts replicas, and time passes.
- `bookings` assumes weak fairness of each request's steps, of the dispatcher's work, of the
  index workers' steps and of the end of a lease. Every attempt at an endpoint has a
  timeout, so the dispatcher's next step is always ready.

Nothing is assumed of clients, editors, administrators, crashes or faults, and liveness is
stated with what may prevent it: `TasksEnd` unless something fails, `DueIsHandled` while a
scheduler runs, a dispatch unless its process dies. The pool gives up a wait after
`connectionTimeoutMillis` (5 s), which is `PoolTimeout` (`Checkout`) and a way a call ends
in `Bookings`; without it two handlers that hold the only connections wait for ever, as the
mutants of those actions show.

## 7. Proofs

Every invariant of a passing run is also a theorem, and so are the action property
`OnlyResumeRevives` and both refinements. The theorems hold for any number of requests,
rows and processes; each rests on an inductive invariant that is not the property itself,
because between two statements a request acts on what it has read, and the property says
nothing of that. The named assumptions on constants are all that is assumed:

| Assumption | Of | Why it is so |
|---|---|---|
| `SetsAssumption`, `NumbersAssumption`, `LimitsAssumption` | `Checkout` | `None` is no row; prices, quantities and limits are numbers that are not negative (a credit limit is a `MoneyStr`, b2b/routes.ts:48, which has no sign) |
| `PaymentSets`, `PaymentNumbers`, `PaymentNames` | `Payments` | the same, and no reference of a provider is `NULL` |
| `NoneAssumption`, `LedgerAssumption`, `TimeAssumption` | `MCShop` | `None` is no row; limits, windows and lives of entries are numbers |
| `LastNightAssumption`, `BillingAssumption` | `MCBookings`, `MCWorkers` | days are numbers; replicas are finitely many |

Where an invariant adds up over rows or counts requests, they are finitely many. The bounds
on time, retries and edits are any numbers: no proof needs them to be small.

### CheckoutProofs: the completion of a checkout

- `TypeCorrect`, `LocksProtect`, `OneOrder`, `NoGap`: `Spec => []` of `TypeOK`,
  `LocksProtectReads`, `OneOrderPerCheckout`, `OrderNumbersHaveNoGap`;
- `CodesStayWithinCaps`, `CompaniesStayWithinLimit`, `StockIsNotOversold`: `Spec => []` of
  `DiscountsWithinCaps`, `CreditWithinLimit`, `NoOversell`;
- `CompletionIsAtomic`: `Spec => PlacementSpec`.

`CoreInv == TypeOK /\ LocksProtectReads` is inductive. `LocksProtectReads` says that a row
is locked by one transaction and that what a transaction learnt under a lock (its checkout
is pending, its number is the next, its code can be burned, the rows have the stock it will
take) is still so; types alone are not inductive, since a commit subtracts what was decided
some statements earlier from stock that only the lock keeps in place. Each statement either
rolls back (`RollbackCore`) or advances (`AdvanceCore`), and then only its own
`Protected(w)` is to be shown again; a commit is shown not to touch what other transactions
have locked (`CommitCore`). `OrdersInv` adds that a completed checkout is one that has an
order, from which uniqueness and numbering follow.

`PreparedInv` adds what a transaction has computed and not yet written: that the credit it
will draw is within the limit of the company it has locked, and that at every row of stock
what it has taken and what it still needs add up to its demand. `DealsInv` adds the three
properties and that every customer who burned a once-per-customer code is on record; only
`Commit` changes what they speak of. `CompletionIsAtomic` then maps each statement to a
stutter and each commit to the one step of `OrderPlacement`, whose guards (cap, limit,
stock) are what `PreparedInv` says of the transaction that commits. Sums over sets of orders
and rows are handled by `SumTheorems`: splitting off an element, replacing a value,
renaming, and comparing term by term.

### PaymentsProofs, LedgerProofs: payments and refunds

- `TypesCorrect`, `RefundTotalsCorrect`: `Spec => []TypeOK`, `Spec => []RefundLedgerAgrees`;
- `EventsAreRecordedOnce`: `Spec => []ReportedIsCharged`;
- `OrdersAreCreditedOnce`: `Ops \cap {"create", "delegated"} = {} => (Spec => []RecordedIsCharged)`;
- `RefundsAreTheProviders`: `SoleNames => (Spec => []RefundsMatchProvider)`;
- `LedgerRefined`: `"webhook" \notin Ops => (Spec => LedgerSpec)`.

They are for each of the four providers and every choice of operations and faults but for
the hypotheses named. `LedgerInv` adds to the first two that every refund has a payment
(`RefundsHavePayments`) and what a request knows at each statement (`Knows`): its payment
and its event exist, and from the lock on the order row to the end of the request
`tx[w].seen` is the row's `total_refunded`. Without that last part the ledger is not
inductive: `recordPaymentRefund` writes `seen + amount` over a column to which
`createRefund` adds. `OthersKnow` shows that knowledge survives the statements of others;
`MoveKeeps`, `ReadKeeps`, `EndKeeps` and `RefusalKeeps` are the four shapes a statement has.

`PaidInv` relates the rows to the books of the provider: every payment is accounted for by
a request or a charge, the name of a charge occurs in one row, and of two handlers that
serve one event only one is past the guard with its insert (`InsertsApart`), or the second
insert meets the unique reference. `ReportedIsCharged` needs no hypothesis: whatever else is
recorded, the payments named by events are at most what was charged. `RecordedIsCharged`
speaks of all payments of an order, and is false when payments are made through the API
too: with Stripe a delegated charge is recorded under its intent and again under the id of
its event, and a payment entered by hand may have no charge at all. TLC shows both.

`ReturnsInv` says the same of the money that goes back: a refund row names one payment back
of its amount, and so does what each request is about to write (`PaysBack`). Its hypothesis
`SoleNames` is `Provider # "stripe" \/ "create" \notin Ops`: Stripe refunds an intent and a
charge alike, so that two payments entered by hand can name one charge and one refund of
the provider is recorded under both. TLC shows that as well; with one name per charge the
theorem has no other condition.

`ApiInv` (`LedgerProofs`) adds that a refund past its check still fits (`Fits`): between the
check and the COMMIT lies the call to the provider, and only the lock keeps captures and
refunds of that order as they were. Every statement leaves the money of all orders as it is
(`MoneyStands`), or moves that of one order that the request has locked (`MoneyIn`,
`MoneyOut`), and the three are the stutter and the two steps of `OrderLedger`. With webhooks
the refinement does not hold, and is not claimed: they add captures up without the lock,
mark payments `partially_refunded`, which takes them out of the captured sum, and count
refunds by payment instead of by order.

### ShopProofs, DoorProofs: the parts of MCShop

`LedgerFrame` and its like say once that a step of the shop is a step of a part or leaves
the part alone; from there each part is proved by itself.

| Theorem | Property | Inductive invariant, and what it adds |
|---|---|---|
| `BooksAlwaysAddUp` | `BooksAddUp` | `WalletInv`: who holds the row has read its balance. `DownloadInv`: who redeems holds the row of a link that is not used up, and no more was served than counted. `CloudInv`: the recorded redemptions and those between count and record |
| `CreditHolds` | `CreditFollowsOrders` | `DrawnInv`: what is used is at most the sum of what the orders hold firmly, a release under way counted as made. `QuoteInv`: who accepts holds the quote, and it is not final |
| `ReturnsSettled` | `ResolvedIsSettled` | `ReturnInv`: what was asked of a return is given, failed, or owed by a request at a known statement; the same of its stock |
| `OrdersAreTheirLines` | `OrderIsItsLines` | `BasketInv`: a total that is not stale is that of the lines, and a completion knows the lines it has copied until the cart is touched |
| `CompletedPaid`, `AgentChargedOnce` | `CompletedIsPaidFor`, `ChargedOnce` | `LinkInv`: a stamp is of a checkout built from the link. `AgentInv`: the provider has one charge under the session's key, and what is on its way has its amount unless the session was totalled again |
| `ChainStoodWhole` | `AcceptedStoodWhole` | `ChainInv`: parents exist, and as long as a verification has found no error, a chain that did not stand when it began is broken at a row it has still to read |
| `ScopesWereConsented`, `HeirsAreAlone` | `ConsentedScopes`, `OneHeirEach` | `ConsentInv`: each code, token and screen under way carries what one approved screen had. `SessionInv`: a request that has consumed a session is the family's only heir until it inserts |
| `RevokedKeysAreRefused` | `RevokedIsRefused` | `KeyInv`: an answer under way grants what the row granted after its query was sent, and an entry of a cache is at most one query older than what it grants |
| `BurstsAreBounded` | `NoBurst` | `RateInv`: the requests of the open window are the last ones; before them lie at most one limit less one (the store: two less one) that are near it |
| `SignedInAreKnown` | `SignedInHasShown` | `VisitInv`: a row that is verified although nobody has answered has neither a password nor a provider to sign in with, and who is about to be signed in has answered |
| `MembersFollowRules` | `RulesReachMembers` | `ShelfInv`: what all committed refreshes found is a member and what none found is not; until the first commits, one that is about to insert has covered every member; the rules of now were read or are about to be |
| `ImportsAreDoneOnce` | `ImportedOnce` | `ImportInv`: one import at a time holds the product, and what it found, or did not find, is still so |

### BookingsProofs, WorkersProofs

| Theorem | Property | Inductive invariant, and what it adds |
|---|---|---|
| `NightsAreSoldOnce` | `NoDoubleBooking` | `DeskInv`: one request holds the resource, and what it has checked is still free |
| `PushedNightsAreClosed` | `SoldNightsAreClosed` | `PushInv`: beside a push that is alone none runs, and one that runs after it knows of its stays; what is about to be sent closes what was sold, and what was sent has closed it |
| `VectorsAreCurrent` | `IndexedIsCurrent` | `IndexInv`: what a worker fetched is the text of now, or the product is due or was missed |
| `BilledOnceEachTime` | `BilledOncePerDue`, unless `Unguarded` | `SubscriptionInv`: a scheduler that runs has the lock; bills and the one still to come are at most the times it fell due |
| `OnlyAResumeRevives` | `OnlyResumeRevives` | an action property: each statement that writes a status |
| `OwnersGetOneMail` | `OneMailPerCart`, unless `Overrun` | `RecoveryInv`: a tick that runs has the lock; a cart whose row does not say so has had no mail, unless a worker is about to say so |
| `TasksChargeOnce` | `ChargedOncePerTask` | `BillingInv`: a task is held by one worker, and a task that may still charge has not, or its answer was lost |
| `PaidRenewalsAreInvoiced` | `RenewalsAreInvoiced` | the invoices to come are counted by the workers between the two statements |

`Unguarded` (a replica boots beside a scheduler whose lease has run out) and `Overrun` (a
tick outlasts its lease) are what section 5 tells of: the code does not prevent them, both
properties are false with them, and the two theorems say that nothing else breaks them.

### What stays with TLC

Liveness (`CompletionEnds`, `RequestsEnd`, `WorkIsDone`, `BookingEnds`, `NothingIsLeft`) is
out of the prover's reach, as is what a definition by recursion computes for every input;
the models have none. The statements of section 5 and of the runs expected to fail are
refuted by TLC and have no theorem.

## 8. Not modelled

`PROJECT.json` lists each component with what is missing.

Of payments: refunds registered with a provider reference of the caller's, the `pending`
refunds that an approved return inserts (`returns/service.ts:297`: without lock, cap or
total; in `Returns` they are remedies and not rows of `Payments`), currencies, the
administration of providers and gateways, the custom webhook, signatures.

Of checkouts: tax and shipping rules, percentages and rounding; changes of discount rules
and company terms while a completion runs; several stores (every row belongs to one store
and every query filters by it); claiming and merging carts.

Of the rest: creating a subscription and changing its plan; lots, serial numbers and
warehouses; modifications, damage claims and messages of bookings; issuing gift cards,
which nothing redeems; blocking, lockout counters and passkeys of customers; client
credentials and signed access tokens, which no row is read for; the Redis stores behind the
lock, the limiter and the cache, which take the place of the tables and maps modelled here.

Shipments are left out although they have interesting state: no statement relates them to
an order's status (section 5), each tracking event overwrites the status of its shipment in
the order of its arrival, and so there is no property the code could be held to. Dashboard
accounts and super-admin sessions are the pattern of `Sessions` again (an atomic consume
for the former, a select and an update for the latter). Stores, tax, feeds, engagement,
analytics, exchange rates, onboarding, x402, mail and HTTP are single statements, reads or
adapters; the SDK's generated types, the web pages, seeds and end-to-end scripts are
clients and hold no state of the system. Together these are most of the lines of the
repository, so the modules stand for the core logic and a small share of all lines.
