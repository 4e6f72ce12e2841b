# Loghmeh, specified

TLA+ specifications of Loghmeh, a Telegram storefront with an
online payment gateway (AbanGateway) and an external delivery connector, the TLC
configurations that check them, and TLAPS proofs. Source references are relative to
the repository root (`src/db/mod.rs` and so on; documentation in `docs/`).

## The system

| Component | State it keeps | Operations | What makes it correct |
|---|---|---|---|
| Order store (`src/db/mod.rs`, `migrations/001_initial.sql`) | `orders`, `payments`, `fulfillment_jobs`, `order_events`, `webhook_deliveries`, `checkout_sessions`, `service_offerings`, `users`, `admin_audit_logs` | one transaction or statement per method | the tables agree with each other, statuses only move forward |
| Checkout conversation (`src/telegram/mod.rs`, `src/state.rs`) | `pending_offerings`, in memory | choose, name the recipient, confirm, cancel | one order per checkout, by and for its user, at its price |
| Invoice creation (`create_payment_and_reply`, `src/payment/aban.rs`) | none between await points | create an invoice, register it, send the link | no link without a registered invoice |
| Webhook (`aban_webhook` in `src/web/mod.rs`) | none between await points | record a delivery, verify, settle | an order is settled once, for its full price, and if it was paid |
| Fulfillment (`src/fulfillment/`) | the job a worker holds | claim, deliver through a provider, finish | exclusive claims, bounded attempts, no lost job, statuses true to the goods |
| Process and configuration (`src/main.rs`, `src/config.rs`) | the configuration | read the environment, connect, spawn the worker, bind the port; end at a signal or a failure | what starts is configured on purpose; neither a restart nor a failed start loses a paid order |
| Admin API and page (`src/web/mod.rs`, `src/admin/`) | the browser's token | create and toggle offerings, summary, lists | codes are distinct, the audit log is true, the page opens |
| Text helpers (`format_rial`, `parse_target_username`) | – | pure | sums are readable, recipients are usernames |
| Offering validation (`validate_offering`) | – | pure | it refuses what the CHECKs of the table refuse |
| Signature and token checks | – | pure | – |

The parts of the order core meet only in the database. A confirmation writes an order;
its handler goes on to the gateway and registers the invoice. The gateway's webhook
settles the order and queues a job in the same transaction. The worker polls the job
table, calls the provider outside any transaction, and files the result.

What is hard about it: handlers of different chats, repeated webhook deliveries and
workers interleave at every `await`; a process can die at each of them; each of three
remote services can fail after having done what it was asked; the gateway repeats and
reorders deliveries; a COMMIT may be carried out without its caller learning of it; and
settlement, claim and finish lock the same rows in transactions of their own, over a pool of
twelve connections.
`PROJECT.json` lists these hazards one by one, at their lines, with the properties that
watch them.

## The modules

| Module | Models |
|---|---|
| `OrderStore` | the tables of the order core and the transactions over them |
| `Transactions` | the same transactions at their statements: locks, connections, rollbacks; the refinement of `OrderStore` |
| `PaymentFlow` | `create_payment_and_reply`, `aban_webhook`, the gateway and the customer |
| `FulfillmentWorker` | `worker::run`, both providers, the connector |
| `CheckoutFlow` | the conversation up to the order, over `PaymentFlow` |
| `OrderPromise` | what the shop promises about an order, abstractly |
| `Storefront` | `PaymentFlow` and `FulfillmentWorker` over the same tables; the refinement of `OrderPromise` |
| `Shop` | `CheckoutFlow` and `Storefront` over the same tables, from the button to the goods |
| `StorefrontInvariant` | the inductive invariants of the order core, in parts |
| `AdminCatalogue` | creating and toggling offerings, the audit log, the login of the admin page |
| `Startup` | `Config::from_env`, `build_provider` and the order of the steps in `main` |
| `TextHelpers` | `format_rial`, `parse_target_username` |
| `StoreProofs`, `QueueProofs`, `MoneyProofs`, `PromiseProofs`, `HandProofs`, `ShopProofs`, `TransactionProofs`, `OperationProofs` | the proofs |
| `MC...` | symmetry and constant values for TLC |

**OrderStore.** A table is a function from ids to rows, with `"absent"` for a row that is
not there yet. Each transaction begins with the row it decides on, locked or
conditionally updated, so each is one atomic operator. `CheckoutFlow` takes
`finalize_checkout` apart at its row lock to see that the lock is needed. Instants are
reduced to the comparisons made with them: a job is due or not, a lock is absent, fresh or
older than ten minutes (`BackoffElapses` and `LeaseAges` let time pass). Columns that no
code reads are left out. `StoreSpec` is any sequence of these transactions, and time
passing, with callers who finish only what is in processing: `finish_fulfillment_job` does
not test that itself, and what becomes of the tables with callers who do not keep to it is
what `CarelessSpec` of `StoreProofs` is about. `TablesAgree` is what the five tables always say of
each other as long as they do, and that the worker does is a theorem.

**Transactions.** `call[t]` is a method's invocation with its arguments, `stage[t]` the
number of rows it has locked, in the order of its statements (`Rows`), and `saw[t]` what
its `SELECT ... FOR UPDATE` returned. PostgreSQL is external and modelled from READ
COMMITTED, the level the code leaves it at: uncommitted writes are invisible, so a
transaction's writes are one step at its COMMIT, and what comes before is finding rows,
waiting for them and looking at them again. A claim skips locked rows, a settlement finds
its order through the payment, an insertion waits for an uncommitted one of the same key. A
rollback is possible at any point, and a worker may not learn of its claim's COMMIT. Webhook
requests and handlers are any calls at any time. A settlement finds its rows unlocked and is
not kept from it by anything: `Serial` is what says that this does no harm.

**PaymentFlow.** `creator[o]` is the callback handler of order `o`, by the await point it
has reached; `requests[r]` is a webhook handler. The gateway's invoices, the links that
customers received and the gateway's deliveries are variables of their own. The gateway is
modelled by what the code relies on: it repeats a delivery under its id until it reads a
200 (which is what the `UNIQUE` constraint on delivery ids is for), it verifies only what
was paid, and surely only once (README.md:9).
A verification is about the invoice that was asked about.

**FulfillmentWorker.** `worker[w]` is the loop's state. Both providers are possible at any
call, as the configuration may change between restarts. The connector follows
`docs/fragment-connector-contract.md`: it never carries out an order twice and answers a
repetition with its decision. Requests may be served late and in any order, also when the
worker has long given up on them. With `hang` it takes a request and never answers (`Hang`).
`unanswered` and `posted` only observe.

**CheckoutFlow.** `lanes[c]` is the handler that a chat is busy with: the dispatcher runs
the updates of one chat in sequence and different chats concurrently. Pressing a button is
possible for every user, in every chat, again and again. `origin`, `choices` and
`cancelled` only observe.

**Storefront** adds nothing but the crash of the whole process, and `OrderPromise` is what
a reader of the documentation would expect: place, pay, settle, deliver, and fulfill,
refuse or review.

**Shop** puts the conversation in front of `Storefront`, whose orders come from nowhere: one
process with its customers, its handlers and its worker, which all end together.
`GoodsAsConfirmed` follows an order through all of it, and `InvoicedOnce` a checkout to the
gateway. As its steps are `Storefront`'s with the conversation in front, what is said of
`Storefront` holds of the shop with its customers.

**AdminCatalogue.** `calls[c]` is a request to the admin API and the handler that serves
it, which changes an offering in one statement and logs it in the next; between the two
other handlers go on, and the connection may break (`Drop`). The log, what was really
done (`changes`) and the entries that were never written (`lost`), which only observe,
are bags, as an entry's place in the log says nothing of the change's. What is typed as a
code is told apart by what normalising removes, blanks around it and ASCII capitals
(`styled`), and by what it leaves, capitals outside ASCII (`wide`). A form is `valid` or not,
by `validate_offering`. `page[t]` is a browser tab: `Login`
and `Load` are the login form and `load()`, which needs the summary. `SumType` and
`ReadsAsI64` say what PostgreSQL and sqlx do with the type of a sum.

**Startup.** The environment is arbitrary, each variable unset, blank, left with the
placeholder of `.env.example` or set. Each step of `main` may fail.

**TextHelpers.** A state is an input of one of the functions; texts are sequences of the
characters the functions tell apart, and a character of two bytes. `Half` is the width of
an `i64`: `Abs` wraps around at `-Half`, as the release build that the Dockerfile makes does
(a debug build panics), and `RialReadable` is about every other amount.

Failures are switched on by name in the constant `Faults`: each database call, the
gateway's and the connector's answers, messages to Telegram, misquoted amounts and
underpayments (`misprice`), lost answers to a COMMIT (`unknown_commit`, for the calls that
are also named) and crashes.

## The runs

| Run | Checks | Shows |
|---|---|---|
| `storefront_safety` | `TypeOK`; money: `LinkedInvoiceRegistered`, `SettledMeansPaidInFull`, `SettledOnce`, `OnlyPaidIsPosted`; queue: `ClaimExclusive`, `AttemptsBounded`; goods: `GoodsAgree`; history: `JournalTellsStatus`, `StatusChain`; the inductive invariant `PromiseInv`, which contains `MoneyInv` and `QueueInv` (and so `OrderFollowsJob`); the refinement `PromiseKept` | the order core under every fault |
| `storefront_liveness` | `NothingForgotten`; `QueuedIsResolved`, `PaidIsResolved` | from the payment to the order's end, and in somebody's hands from the order on, although invoices, recordings, acknowledgements and answers of the connector may fail |
| `payment_swallowed` | `PaidIsSettled` | **violated** as soon as a verification can fail |
| `fulfillment_stranded` | `QueuedIsResolved` | **violated** as soon as a process can die |
| `fulfillment_repeat` | `NoRepeatAfterLostAnswer` | **violated** as soon as an answer can be lost |
| `fulfillment_hang` | `EveryJobGetsItsTurn` | **violated** as soon as the connector can keep a request unanswered |
| `checkout_safety` | `CheckoutTypeOK`, `OneOrderPerSession`, `OrderAsConfirmed`, `ChoiceUsedOnce`, the inductive invariant `CheckoutInv` | two users, chats, offerings and sessions, with crashes and failures |
| `checkout_cancelled` | `CancelledIsOver` | **violated** without any fault |
| `transactions` | `NoWaitCycle`, `TablesAgree`, `TxInv`, `Serial`, `EveryTransactionEnds` | no deadlock over rows or connections; the tables agree after every COMMIT, and the atomic transactions of `OrderStore` are what others see of the real ones |
| `shop` | `GoodsAsConfirmed`, `InvoicedOnce` | two users and offerings, a crash anywhere, wrong amounts and lost answers of the gateway: what leaves the shop is what its customer confirmed and paid, and no checkout is invoiced twice |
| `operation` | start: `NeverPanics`, `ConnectorOnPurpose`; texts: `RialReadable`, `TargetIsUsername`; catalogue: `CodesDistinct`, `AuditNeverInvents`, `AuditTellsMenu`, the inductive invariant `AdminInv` (which contains `AdminTypeOK`) | every environment a process may find; once it serves, the pure functions against reference definitions and admins at work at once, under every fault |
| `admin_page` | `PageOpens` | **violated** without any fault |

Each property of a passing run is paired, in `PROJECT.json`, with a bug that violates it;
the bugs stand in the modules, beside what they are variants of.

### What the violations say

1. **A payment is swallowed.** The delivery is recorded before it is acted on. If
   verifying or settling fails, the gateway is told 500, repeats the delivery, and is
   told 200 because it is known. The paid order waits for ever, although the customer was
   told that it would be brought up to date automatically (`src/telegram/mod.rs:253`).
2. **A job is stranded.** A claim selects only `queued` and `retryable_failure` jobs, and
   those are never locked: the ten-minute lock is dead code, and a job whose worker died
   stays in `processing` for good. The dashboard does not count it either. README.md:10
   promises manual review.
3. **An ambiguous delivery is repeated.** A lost or unusable answer of the connector is
   filed as retryable and posted again, where `docs/architecture.md:26` demands review.
   The connector's idempotency is all that protects the goods; `GoodsAgree` and
   `PromiseKept` show that it suffices.
4. **"Purchase cancelled" is said of a purchase that goes on**, when cancel is pressed
   after confirm (`src/telegram/mod.rs:192`).
5. **One silent request stops the queue.** The connector's HTTP client has no timeout
   (`src/fulfillment/mod.rs:96`) and the worker delivers one job at a time.
6. **The admin page does not open.** `sum(amount_rial)` over a `BIGINT` column is `NUMERIC`
   in PostgreSQL, even when no order matches; sqlx refuses to read it as the `i64` of
   `DashboardSummary`, the summary always answers 500, and the page, which loads it together
   with both lists, never gets past its login. README.md:53 has the operator create the
   offerings there. A cast to `BIGINT` in the query is enough: with `AmountType` a type
   whose sum is a `BIGINT` the page opens. What PostgreSQL and sqlx do is taken from their
   documentation, as no test of the repository runs this query.

Some relatives of these have no run of their own. A lost or unusable answer of the gateway to
`create_invoice` says nothing about whether there is an invoice, but closes the order as
`failed`, and the customer is told that nothing was paid and to try again
(`src/telegram/mod.rs:279-282`), where `docs/architecture.md:26` demands review and no second
payment (`CreateInvoice` with its fault, then `FailCreation`). What the model shows of it is that no
customer was sent that invoice's link, so that nobody pays it over one (`Purses`), and that the same
checkout never makes another (`InvoicedOnce`); if it is paid in some other way, which the model
leaves out, the notice is answered with 200 and dropped. An order whose invoice could not be registered
(`src/telegram/mod.rs:243`) or whose failure could not be marked stays in `payment_creating`, which nothing acts on: this is why
`NothingForgotten` names the faults `register` and `mark_failed`. The worker is spawned before
the port is bound (`src/main.rs:48`): a start that fails because another instance runs may
strand a job like any process that ends (2). And the gateway's client has no timeout either
(`src/payment/aban.rs:43`), so that a silent gateway keeps an order in `payment_creating`, or
its payment unsettled, as a silent connector does a job (5), but one order at a time.

### Bounds

Two of everything is where races begin. `storefront_safety` has one order, with two webhook
requests, two deliveries, so that a late notice meets a repeated one, two amounts, which tell
the right price from a wrong one, and two workers. Every statement on the way from payment
to goods names the rows of one order; that orders, invoices and jobs of several customers do
not mix is what the theorems show, for any number of each. With its one invoice no order can
have two: that part of `PromiseInv` (`OneInvoiceEach`) rests on the theorem, and two invoices
for one checkout are what `shop` looks for. `storefront_liveness` has one
delivery, which its two requests may both be serving, and two workers.
`checkout_safety` has two users, chats, offerings, sessions and orders. The only counter
without a bound of its own, `posted`, is bounded by the three attempts of the code.
`MaxChoices` bounds how often a user chooses an offering: with 2, a second choice meets the
first one in every stage. Sessions, orders, invoices and deliveries are finite sets of ids,
each used once; when they are used up the system may stop, which is why deadlock is not
checked there.

`transactions` has three transactions on two connections, so that one always waits for
another to end, over one order with two workers, all of whose methods meet on its rows; it
checks deadlock, since transactions can always begin. `TxInv`, `Serial`, `TablesAgree` and
`NoWaitCycle` are proved for any number.
`shop` has two orders, invoices, sessions, users and offerings of different prices, so that
each could get into the other's hands; one chat, request, delivery and worker, as what
happens between several of these is `checkout_safety`'s and `storefront_safety`'s; and of the
faults a crash, wrong amounts and lost answers to `create_invoice`.
`MaxChanges` bounds the changes of the catalogue: four are a creation and three toggles, or
two creations with two, made by two concurrent requests. `Magnitude` bounds the sums
of money: every sum within fifty of a power of ten up to 10^8, of either sign, stays within
TLC's integers and has groups of every length; so does `Half`, 2^30 for the 2^63 of an `i64`,
at whose ends the least and the greatest value are tried. Names are tried at the lengths
around 5 and 32. `operation` has two of the six variables that
are all read alike, and every environment; one environment that serves stands for all when
it comes to the rest, which reads no configuration.

### Fairness

The runtime runs every handler and worker that can go on (weak fairness). The gateway
notifies of a paid invoice and repeats unacknowledged deliveries; a delivery and its
recording have strong fairness, because only the model limits concurrent requests and an
outage of the database ends. The connector serves what it receives and time passes (weak
fairness). Nothing makes a customer confirm or pay, an invoice expire, a fault occur
or stop occurring elsewhere, or a process crash. The code's HTTP clients have no timeouts,
so that the connector and the gateway answer or their connections break is an assumption
about them, made by the weak fairness of the worker and of the handlers' calls
(`fulfillment_hang` is the run without it). The
liveness runs switch off the faults that the violation runs show to be fatal, and
crashes.

In `Transactions`, whoever can go on does, and who queues for a row gets it at last, as
PostgreSQL's lock queue is first come, first served (strong fairness of `Lock`, since the row
may pass through other hands first). No method has to be called, and rollbacks may go on
for ever. `AdminFairness`, which only `admin_page` uses, runs the handlers and the page's scripts;
nobody has to log in or to send a request.

## The proofs

Checked by TLAPS for any constants that satisfy the assumptions of the modules
(`FaultsAssumption`, `NullAssumption`, `ProvidersAssumption`; for the conversation
`PriceAssumption`, `CheckoutNullAssumption`, `ChatsAndSessionsFinite` and
`MaxChoicesAssumption`; for the catalogue `CallsFinite` and `AdminFaultsAssumption`; for texts
`CharactersAssumption`, that a comma and a minus are no digits, and `HalfAssumption`, that `Half`
is a positive number): any
number of orders, invoices, requests, workers, users, chats, sessions and admins, any faults.

- `StoreProofs`, over `OrderStore` alone, in two halves. What the transactions see to by
  themselves holds for careless callers, too, who finish any job that was ever claimed, whatever
  its status and as often as they like (`CarelessSpec`): `BooksAlwaysAgree` (`BooksInv`) says
  that a settlement is in all four of its tables or in none (`SettledWhole`), that an order has
  one payment, is verified once and has a job if it was paid, and that no job is tried a fourth
  time; `SettlementsStand`, that no settlement is undone, no job queued again and no attempt
  given back. The parts of `BooksAgree` need each other: that a settlement never meets
  a job needs `JobOnceSettled`, that it is the first one needs `SettledWhole`, and that an order
  gets no second invoice needs `InvoiceAwaited`. What careless callers can break is which status
  an order with a job has: they can take a fulfilled order to review.
- For callers that finish only what is in processing (`StoreSpec`) the lemmas
  `TablesAlwaysAgree` (`TableInv`, all of `TablesAgree`), `StoreKeepsToTheChain`, that no
  transaction takes a status off the documented chain, and `JobsMoveOn` go further. The last:
  each change of a job, its lock's age apart, raises a measure (`Progress`) that is
  twelve at most. So the queue cannot go in circles, and `ORDER BY next_attempt_at`, which
  the models leave open, can put a job behind others only a bounded number of times.
- `TransactionsAgree` and `TransactionsMoveOn` (`TransactionProofs`) carry these lemmas over to
  interleaved statements, and `CoreKeepsToStore` (`QueueProofs`), `Spec => StoreSpec`, to the
  handlers and the worker. The latter is a refinement without a mapping: the tables are the
  same variables. It needs `QueueInv`, as `finish_fulfillment_job` tests nothing itself,
  and `TableInv`. `CoreTablesAgree` and `ShopTablesAgree` are its consequences.
- `TypeCorrect`: `Spec => []TypeOK`. Types alone are not inductive: a settlement writes
  the order that a payment row names, a handler uses the invoice it holds. `WellFormed`
  adds that every reference held by a handler, a notice or a worker exists.
- `QueueInvariant`: `Spec => []QueueInv`, where `QueueInv` is `WellFormed` and `Queue`. It
  carries `ClaimsAreExclusive`, `AttemptsAreBounded` and `OrdersFollowJobs`.
  None of the three is inductive alone. `finish_fulfillment_job` looks neither at the
  job's status nor at its owner, so that it files the right job needs the exclusive
  claim. That a claim stays within three attempts needs `JobConsistent` (a retry is only
  left when attempts are); that `posted` stays below the attempts needs that a worker that
  has claimed has not posted yet. And that a settlement never resets a running job needs
  that an order waiting for payment has no job (`OrderFollowsJob`).
- `MoneyInvariant`: `Spec => []MoneyInv`, from which `SettledIsPaidInFull`, `SettlesOnce`,
  `LinksAreRegistered` and `OnlyPaidPosted`. Between an `await` and the statement after it
  everybody else may act, so the argument is about what a handler knows and why it stays
  true (`HandlersKnow`): an invoice stays with its order, a verified amount never
  changes, an order leaves `payment_creating` only by its own handler. `Accounts` then links
  payments, orders and jobs: a payment's row is about an invoice of its order, a verified order
  is paid in full and has left `awaiting_payment`, and only verified orders have jobs.
  The first verified answer to be settled moves the order on, and the second finds it so.
- `JournalTells` and `OrdersMoveAlongTheChain` (`[][...]` for every step) follow from
  `MoneyInv` and the history of each order: what an event says is undone by no later step.
- `PromiseInvariant`: `Spec => []PromiseInv`, which adds the goods (`Goods`: the connector's
  decision, its answer, the worker's result and the filed status agree, whatever was lost or
  served late) and the purses (`Purses`: money is only in registered invoices, one for each
  order, none of a closed one). `GoodsAreAsTold` is one consequence.
- `ShopKeepsItsPromise`: `Spec => PromiseKept`, the refinement. Initial states map to initial
  states, and each action, under `PromiseInv`, to a step of `OrderPromise` or to a stutter:
  most change nothing the promise speaks of, a payment at the gateway is `pay`, a settlement
  `settle`, the connector's first decision is what delivers, and a finish is its outcome.
- `NothingIsForgotten`: `Spec => []NothingForgotten`, the safety half of the liveness
  properties. Nothing looks again for an order in `payment_creating`, a recorded payment or a
  job in `processing`, so each must always be in the hands of a handler or worker who goes on with
  it. Each part is claimed as long as certain faults are off, and these are exactly what
  drops it: of the last two parts those of findings 1 and 2. That a recorded payment is
  being settled is not inductive (`HandInvariant`, `HandInv`): a handler may find its invoice
  verified by another, so what is passed on is `Settling`, from who recorded to who asks the gateway
  to who settles; a settlement that found the amount wrong would drop the payment, so it needs that
  what is quoted is the order's price (`Prices`) and, from `MoneyInv`, that the first one verified
  is the one that settles. A payment the gateway has not told of yet is in the gateway's
  hands: it is told 200 only of what is recorded (`Notices`).
- `WhatIsDroppedStaysDropped` is the reverse, and the general form of findings 1 and 2: once
  an order in `payment_creating` has no handler (`OrderDropped`), a recorded delivery nobody
  who acts on it (`DeliveryDropped`) or a job in `processing` no worker (`JobDropped`), this is
  so for ever, `[](P => []P)`, whatever the fault was and whatever faults are off since.
- `ShopProofs`, first over `CheckoutFlow`: `CheckoutInvariant` (`CheckoutInv`). That a session
  gives one order is not inductive: it needs that a locked session is still there, in one
  handler's hands, and that one which gave an order is deleted for good (`LockHolds`,
  `OrderSpendsSession`). `OneOrderForACheckout` and `OrdersAreAsConfirmed` follow.
  `ChoicesAreUsedOnce` counts a user's choices in the map, in handlers' hands and in
  sessions; only the button adds to the sum. By the lemma
  `ConversationImplementsPayment`, which only says that the conversation is written with
  `PaymentFlow`'s steps, `ConversationTyped` needs of the payment side
  no more than `PaymentTyped` (`QueueProofs`).
- Then over `Shop`: the lemma `ShopImplementsStorefront`, which holds by how `Shop` is
  written, carries the theorems above over to the shop with its customers; `CustomersArePromised` is `PromiseKept` of it, and
  `ShopForgetsNothing` is `NothingForgotten`.
  `GoodsLeaveAsConfirmed` combines what the parts say: goods were posted
  (`DeliveredOnRequest`), what is posted is paid in full, and the order came out of a
  checkout (`EveryOrderConfirmed`), alone, by its user and at the price it was confirmed
  at. The first and the last are not theirs alone: `CheckoutFlow` knows no goods and
  `Storefront` no sessions, so they are conjuncts of `ShopInv` (`ShopInvariant`).
- `CheckoutsAreInvoicedOnce`: the gateway makes one invoice at most for a checkout, registered
  or not. A checkout gives one order, and an order asks for one invoice
  (`OrdersAreInvoicedOnce`, in `HandProofs`): what is needed for that is that an order whose
  invoice may have been made is never back with a handler that is about to ask
  (`AsksOnce`, in the invariant `Invoicing`).
- `TransactionProofs`, over `Transactions`: `TxInvariant` (`TxInv`: locked rows have one
  holder, what was read or tested of a locked row is still so, a worker's claim is its own),
  `TransactionsSerialise` (every COMMIT is a transaction of `OrderStore` on the rows as they
  are, everything else leaves the tables alone) and `NoDeadlock`: payments and jobs are locked
  first, then orders, then new keys, so each wait leads to a row of a higher rank than
  any its holder waits behind, and no set of transactions can be waiting in a circle.

- `OperationProofs`, over `AdminCatalogue`: `AdminInvariant` (`AdminInv`). That the audit log
  tells no lie and, where no entry was lost, misses nothing is about bags: `BooksBalance` says that what was changed
  is what was logged, what will be and what was lost, copy by copy, and `Past` that an
  offering's state is what its creation and toggles left it in. `CodesAreDistinct` needs that
  a stored code is the normalised one (`CodeStored`): the `UNIQUE` constraint compares spellings.
  It speaks of blanks and ASCII letters, as the code does.
  `AuditIsTrue` and `AuditIsComplete` follow.
- Over `Startup`, `StartInvariant` (`StartInv`): what is configured passed `from_env`, whatever
  the environment and the variables. `StartNeverPanics` and `ConnectorIsChosen`
  follow. Over `TextHelpers`, for texts of any length,
  `RecipientsAreUsernames`, which rests on what trimming a text leaves of it.
- `SumsAreReadable`, for every `i64` but the least (any `Half`), of either sign: the digits that `format_rial`
  takes from the right have the sum's value (`DigitsFromRight` is a recursive function, and
  every induction over it is one over naturals, `NaturalsByInduction`, by a set's least
  element), `push` by `push` the text grows by one group at a time, commas fall where every
  third digit ends, and reading it from the left without them gives the sum back.

`StoreProofs` treats the transactions once, their types, the journal and `TableInv`:
`QueueProofs` cites it for the handlers and the worker, `TransactionProofs` for the COMMITs. The other modules have one
lemma per action, then the sides they belong to and the crash. TLC checks the inductive
invariants in `storefront_safety`, `checkout_safety`, `transactions` and `operation`, and of
`HandInv` what it is for, `NothingForgotten`, in `storefront_liveness`.

Every safety property that a run checks has its theorem. Only model-checked is all liveness
(`QueuedIsResolved`, `PaidIsResolved`, `EveryTransactionEnds`), which is out of the prover's reach, as is `ENABLED`; `NothingIsForgotten`
and `JobsMoveOn` are what safety contributes to it: someone always has the next step in
hand, and there are only so many.

## Not modelled

What `validate_offering` looks at (it refuses what the CHECKs of the table refuse, so the model has its
verdict only; what else the table can refuse, such as a text with a NUL, is an error of the insertion,
the fault `change`), signature and token comparison (a refused request changes nothing), the lists of orders and
the layout of messages and dashboard figures, and the user table (a user is an id; its `role`
is written and never read). An invoice that the gateway reports with a status unknown to the
`payments` table fails the transaction like any other error. Messages to Telegram other than
the payment link are left out, except where a property is about them (`cancelled`). The
admin page beyond its login: it cannot be reached as the code stands. Expired invoices
are in the model, but nothing in the repository says what should become of their orders.
A job's `provider` column is written and never read: after a change of
`FULFILLMENT_PROVIDER` the worker uses the new one, which the models allow at any call.

## What is left

The admin page's form and buttons, once the page opens: the label of a toggle is that of
the last load, so that two admins may undo each other's change.
