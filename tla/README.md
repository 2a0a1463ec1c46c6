# A verification of the Lobel store

Lobel is a shop that sells in West Africa: a Django backend (`lobel_store/`) and
a React frontend (`lobel_store_frontend/`). These TLA+ modules model the shop's
own logic: orders with their stock, payments with the provider's callbacks and
the cron commands, refunds, receipts and mails, the cart and the checkout,
accounts and tokens, the catalogue, its media and the home page's content, and
the pages of the browser that hold state of their own. TLC checks the modules on
small instances; TLAPS proves the main invariants for any number of orders,
payments, refunds, tabs, files and units.

Paths are relative to `src/`. "The service" is the class in
`lobel_store/<app>/services/` the text speaks of.

## 1. Inventory

| Component | State it keeps | Operations | Meets others through |
|---|---|---|---|
| Order lifecycle (`orders/services/lifecycle_service.py`) | `Order`: status, snapshot, reservation and consumption columns, one date per status; `ProductVariant.stock`, `Product.sales_count` | `transition_order` with one target per status; reserve, release, consume | checkout, payments, expiration, refunds, staff; locks the order, then the variants |
| Expiration (`expiration_service.py`) | none | `candidates`, `expire` (cron) | reads payments; locks order, then payments |
| Checkout (`order_checkout_service.py`, `checkout_validation_service.py`) | `CheckoutCreationReceipt` per idempotency key | `preview`, `create_order`, `pending_order` | freezes a cart, then `transition_order` |
| Cart (`cart_service.py`, `orders/views.py`) | `OrderItem` rows, `CartMergeReceipt` per key | add, update, remove, clear, merge | the rows of the checkout |
| Receipts (`receipt_service.py`) | `OrderReceipt` | issue on the paid transition or at a download | the commit of a payment; a page that read the order before |
| Notifications (`notification_service.py`, `refund_notification_service.py`) | one row per order and event | schedule, dispatch after the commit, retry (cron) | every transition; the mail server |
| Payments (`payment_lifecycle_service.py`, `payment_service.py`) | `Payment` | initialize, refresh (poll and cron), `handle_payment_completed` | provider's API; order transitions |
| Webhook (`webhook_service.py`, `payments/views.py`) | `PaymentWebhookEvent`, `PaymentAuditEvent` | authenticate, register, verify, answer | the provider, which repeats what failed |
| Refunds (`refund_service.py`) | `PaymentRefund` | request, process, reconcile | provider's API; order transitions |
| Provider adapters (`payments/providers/`) | none | create, verify, parse a callback | HTTP |
| Mock confirmation (`mock_confirm_service.py`, `providers/mock.py`) | the mock's sessions, in memory | confirm a payment from the mock's page | a developer's server only; same business step as the webhook |
| Settings and checks (`settings/`, `payments/checks.py`) | the environment of a server | read, refuse, check | who may call the webhook |
| Accounts (`users/`) | user and customer rows, links by mail, refresh tokens and their blacklist | register, verify, sign in, rotate, revoke, edit, suspend | actor of every request |
| Catalogue (`products/`) | products, variants, categories | public list, archiving | the shop's pages |
| Media (`media_services.py`, admin) | `ProductMedia` rows, files | add, replace, archive, forms | a storage no transaction covers |
| Content (`content/`) | one cover, one active service | two admin forms, two views | the home page |
| Browser: session (`src/auth`, `src/api`) | tokens in memory and `localStorage` | single refresh, restore, login, logout | every request |
| Browser: cart (`src/cart/`) | the cart shown; guest cart and merge key in `localStorage` | load, mutate, merge at sign-in | cart endpoints |
| Browser: checkout and return (`src/pages/Checkout/`) | recapitulation, idempotency key; the payment left for | preview, submit, repeat; watch a payment | order and payment endpoints |
| Browser: shop and product (`src/pages/Shop`, `Product`, `src/catalog`) | query, text typed, list, selection | search, filter, page, choose, add | catalogue endpoints, cart |

What makes the system hard:

- **Interleaving.** Callback, customer poll, cron, expiration, cancellation and
  staff act on the same order. Each takes row locks, but what a request knew
  before it locked may be stale: the version a checkout tab shows, the cart an
  `add` looked up, the line a `destroy` checked, the order a download read, the
  refund whose provider call is under way. Accounts take no lock at all: every
  request there is a read and a later write of a whole row.
- **Unreliable delivery.** Callbacks come twice, early or never; the answer to
  `create_order`, a merge, a refresh of tokens, a provider's session or refund
  may be lost after the server acted, and the client repeats its request.
- **Order of answers.** The browser has several requests out: an answer may
  belong to a list, a session or a customer that is no longer there.
- **Timeouts and lateness.** A payment may succeed after its order expired and
  its units were sold to somebody else.
- **Crashes and partial failure.** A worker dies between the transaction that
  marks a refund `processing` and the one that writes its answer, between a
  commit and its mail, or between storing a file and naming it; a failed
  confirmation rolls back what recorded it.
- **Limits.** The last unit, the refundable balance, the quantity of a line, the
  quota of media, the limit of a command.

What makes each part correct:

- *Orders*: no unit is lost, sold twice or held by a closed order; only an order
  that consumed its stock is prepared; a frozen order never changes, but for a
  line whose deletion was checked before the freeze, and none becomes payable again.
- *Payments*: an order is paid by one payment; every confirmed payment is
  decided once and either pays its order or is owed back; captured money is
  decided in the end; the evidence of a callback survives what is rolled back.
- *Receipts and mails*: a receipt names the payment that paid and stays; a mail
  is about something committed, comes once, and comes.
- *Refunds*: never more reserved than captured; the order follows its refunds;
  none stays in processing.
- *Checkout and cart*: the order is what the tab showed, placed once per key;
  what a guest put in is merged once; the cart shown is the customer's.
- *Shop's pages*: what a page lets the customer choose can be sold.
- *Accounts and session*: one account per mailbox; a revocation, a suspension
  and a logout hold; a session is not thrown away.
- *Return page*: success is announced only for captured money, and the way back
  is kept until then.
- *Catalogue, media, content*: the list is the query's; a row's file exists; the
  quota holds; a handover never leaves the home page without its service.

## 2. Modules

```
OrderStatus ── OrderLifecycle ──(EXTENDS)── Payments ──(EXTENDS)── Receipts
     │                └───────(refined by)──────┘ └──(refines)── Settlement
     └── Refunds
CartCheckout    GuestCart    Notifications
Amounts (evaluated with CartCheckout)
LigdiCash ──┬── PaymentPage
Deployment ─┴── Callbacks
Accounts ── Sessions ┐                         Media        ┐
            ShownCart┴─ MCContexts             Content      ├─ MCAdministration
Catalogue ── Storefront ── ProductPage         Registration ┘
```

| Module | Models | Proofs |
|---|---|---|
| `OrderStatus` | the statuses and `ALLOWED_ORDER_TRANSITIONS` | |
| `OrderLifecycle` | `transition_order` and its stock | `Payments_proofs` |
| `Payments` | payment services, webhook and cron over `OrderLifecycle` | `Payments_proofs` |
| `Settlement` | abstract: what the payment backend promises about money | `Payments_proofs` |
| `Receipts` | receipts beside the payments, and what the order's page offers | `Payments_proofs` |
| `Refunds` | `RefundService` over one captured payment | `Provider_proofs` |
| `CartCheckout` | cart requests, `create_order`, checkout tabs | `Orders_proofs` |
| `Amounts` | line, order and invoice amounts as operators | |
| `GuestCart` | stored guest cart, its merge, `merge_guest_items` | `Shop_proofs` |
| `Notifications` | mails about orders and refunds, the retry command | `Orders_proofs` |
| `LigdiCash` | a reply of the provider's confirm call and its validation | `PaymentPage_proofs` |
| `PaymentPage` | the customer's way back from the provider | `PaymentPage_proofs` |
| `Deployment` | the environment of a server, its settings and checks | `Provider_proofs` |
| `Callbacks` | the webhook: reading, authentication, events, audit, answers; the mock's confirmation | `Provider_proofs` |
| `Accounts`, `Sessions` | tokens on the server; the session in the browser | `Contexts_proofs` |
| `ShownCart` | the cart provider of the browser | `Contexts_proofs` |
| `Catalogue`, `Storefront`, `ProductPage` | public list; the shop's page; a product's page | `Shop_proofs` |
| `Media` | pictures and videos, the forms on them, the file storage | `Administration_proofs` |
| `Content` | cover and made-to-measure service of the home page | `Administration_proofs` |
| `Registration` | registration, links by mail, profile and admin edits | `Administration_proofs` |
| `Sums` | what the models' sums over finite sets satisfy (lemmas only) | itself |

`MC<Module>` gives a module its small instance. `MCContexts` and
`MCAdministration` run modules that share no state, one at a time: a variable
`part`, which never changes, says which one moves. Definitions whose comment
begins with "Defect:" are altered forms of the code, used to see that the
properties notice them; no specification uses them.

### From code to model

A service method that runs in one `transaction.atomic` under row locks is one
action. A request that raises is rolled back: it is an action that is not
enabled, or, where a part survives the rollback, one that writes that part. A
step that reads without a lock and writes later is two actions, with what it read
kept in a variable. An answer to a browser is an action of its own, after the one
in which the server acted. Logs, texts and layout are left out. A call to the
provider inside a transaction holds the lock (payments); the refund service
calls it between two transactions, so there it is a step of its own.

**OrderLifecycle.** `orders[o]` is the row (status, quantity per variant,
`*_at` columns as booleans or as members of `stamps`); `stock`, `sales`,
`active` are the variants'. Each target of `transition_order` is one action,
`Enter` its common part (table, authorisation, date). Who calls is the parameter
`actor`; what it reads of a payment is the parameter `pay`. `due` stands for the
clock: `ReservationDue` lets the expiry of a reservation pass. An order frozen
before reservations existed (`LegacyOrders`) is in `pending_payment` with nothing
reserved, and pays by taking its stock directly. `EditCart` keeps the order of the
code's checks: the cart is looked up before the lock and only `snapshot_at` is
checked after it, so a cancelled cart may still be written. The deletion of a line
checks `snapshot_at` without a lock and deletes later (`orders/views.py:438-442`):
`DestroyCheck` and `Destroy`, with the deletions under way in `deleting`. A line may
so be taken from an order that was frozen, reserved, paid or cancelled in between.
Two ghosts count what that leaves behind: `stranded`, units that were reserved for
the line and that no release will find, and `unlisted`, sales of lines that are gone.

**Payments.** `pay[p]` is the row, `prov[p]` what the provider's confirm call
would answer now, `seen` the spent deduplication keys, `orphans` the sessions
the provider opened for a row that was rolled back. `Webhook`, `Refresh` and the
cron's `Reconcile` share `Capture` (the four verdicts on a confirmed payment) and
`FollowPayment` (the order follows the payment's status). A payment in
`RequestIds` is one whose callbacks carry its `request_id`, so that all of them
have one key. `Settle` and the hint of a callback are external: a callback is a
hint, only `prov` is believed.

**Receipts.** Every payment step is conjoined with what it does to `receipt`;
`Download` is split into the unlocked read (`asked`) and `issue`. `issuing` says
whether the migration that introduced receipts was run. `can_pay`, `can_cancel`
and `can_download_receipt` are the serializer's.

**Refunds.** `refund[r]` is the row, `task[w]` the refund a worker (an admin's
request or the cron command) is busy with and the answer it holds, `remote[r]`
what the provider did. `Submit` and `Verify` are the provider calls with no lock
held; `Crash` loses the worker and its answer. An administrator's request and the
command are two workers at once; `overtaken` is history: the refunds that one gave
an outcome while a call of the other about them was under way.

**CartCheckout.** One customer: `order`, `item`, `shelf`, `receipt` are rows;
`tab[t]` is a checkout page; `inbox` holds the create requests that may still be
executed, also after their page gave up; `call[c]` is what an unlocked read of a
cart request saw. `create_order` is one action per outcome: `Replay`, `Refuse`
(key used for another content), `AlreadyCreated`, `Stale`, `Place`.

**Amounts.** Whole francs: what the preview shows, what a freeze stores and what
the invoice of the provider adds up, with the check constraints of the tables.

**GuestCart.** `storage` is `localStorage`, shared by tabs; `merge[t]` a merge
under way in a tab; `inbox` the requests that may still be executed. History
are `put`, the units put in; `unkeyed`, whether an edit dropped the key of a merge
whose outcome was open; and `overwritten`, whether the late answer of a merge wrote
what was left of it over a guest cart merged or edited since (`CartContext.jsx:127-132`
does not look at the key it finds). A second tab that merely starts a merge is neither.

**Notifications.** `proc[p]` is a request or a run of the command: the rows its
transaction or savepoint wrote, the callbacks it registered and the notice it is
dispatching. A dispatch is three steps: look at the row under its lock, hand the
mail over, write the outcome. A rolled-back savepoint takes its rows and its
callbacks back; a process may die between any two steps.

**LigdiCash, PaymentPage.** A reply of the confirm call is a record of the fields
the adapter reads, each reduced to how it compares with the payment (a currency that
is left out is read as XOF, `ligdicash.py:92`, so that a capture in another currency
that is not named counts as captured: the shop cannot tell them apart);
`verify_payment` and `validate_provider_confirmation` are operators on it. In
`PaymentPage` `entry` is the `localStorage` entry, `tab[t]` what a return page
shows and waits for (timer, automatic poll, check by hand; `watched` is the entry
it was opened with, `shown` the payment of the latest answer), `row` the shop's
payment and `provider` what the customer did there.

**Deployment, Callbacks.** `Deployment` reads one environment with the
development or production settings, refuses it or starts a server, after the
payment checks or without them. `Callbacks` takes calls of every form the adapter
can be sent: `row`, `events` and `audit` are the tables, and each outcome of
`process` (`Duplicate`, `Unknown`, `RollBack...`, `Complete`, `Fail`,
`StillPending`, ...) is one action that says what its rollback takes back and what
is answered.
A developer's server may run the mock provider: its sessions are of their own
kind (a payment keeps the session it was opened with), its verification
answers what the mock's memory says, and its confirmation page settles a payment
through the same step as the webhook, but writes no audit line. A database
is a developer's or the shop's (`SameDatabase`): a server that is started on one with
sessions in it uses the same kind of provider.

**Accounts, Sessions.** A refresh token is the number it was issued under, an
access token the `token_version` it carries. A refresh request is a record of its
own in `flights`: the server may work on one the tab has given up. The generation
counter is kept as what it decides: whether a request is of the current
generation. A revocation is steps of its own (`users/services.py:27-34`): it reads
the account and its tokens, blacklists them one by one and writes the version it
read, plus one; outside a transaction it may die half-way, and of two overlapping
ones the second lowers or repeats the version of the first. `apart` notes the tabs that
had a session, or waited for it, when another tab signed out.

**ShownCart.** `load` is the request the generation counter knows as current,
`ops` the locks of `mutate`, `merge` the merge under way, `excuses` the history of
why the cart shown may not be the cart.

**Catalogue, Storefront, ProductPage.** A list is the set of its products and
their count. `requests` keeps aborted requests, whose answers may still come;
`input` and `sync` are the text field and the timer that copies the query to it;
`typed` says that the text was typed since the query got the search it has.
`ProductPage` adds the product's page and the additions it asked the cart for, each
against any number of units the cart may hold already; `kept` notes a quantity that
was chosen for the product seen before.

**Media, Content, Registration.** A worker, editor or server keeps what it read
until it writes. In `Media` a row becomes visible at the commit, a file when it is
stored. In `Content` a form is checked, then saved under the lock and the unique
indexes. In `Registration` addresses have spellings, because the checks compare
them in different ways, and a password is a number, the time it was set.

## 3. Runs

| Run | Instance | Shows |
|---|---|---|
| `order_lifecycle` | a new cart of up to two lines and a legacy order, two variants of one unit, late deletions | no unit lost but those of a line deleted late, none sold twice or delivered without being taken; lines frozen, no way back |
| `payments` | one order, two payments (one with a `request_id`), one unit, one orphan session | one commercial payment; captures accounted for; the receipt names the payment that paid; the page offers what is true; refinement of `Settlement`; captured money is decided and due orders leave the payable statuses |
| `refunds` | two requests, amount 2, two workers, one of which may die | balance never over-reserved but by an overtaken refund; the order follows its refunds; nothing stays in processing |
| `cart_checkout` | two tabs, two keys, two cart requests in flight, one variant, two prices | the order is as shown and placed once; amounts of small carts |
| `guest_cart` | two tabs, three keys, quantities up to 2, stock up to 3 | a key has one content; units are counted once, unless a key is dropped or a cart overwritten |
| `notifications` | one order, two events (one address bounces), one refund event, a request, the command | no mail without a committed row, none twice without a reason, those of a working address arrive |
| `contexts` | one tab, three tokens, one revocation at a time, which may stop half-way; one customer and the guest | the session stored is alive; a logout is kept; the cart shown is the customer's; restore and loads end |
| `payment_page` | two payments, one tab, two automatic polls | success is captured money; the way back is kept; verification ends |
| `administration` | one product, quota 1, three files; two services, two covers; two users, two requests | files exist; the quota holds; one account per mailbox; the handover is atomic |
| `storefront` | two products on pages of one, three variants, one word, one category | the list is the query's; searches are typed; what is chosen can be sold; pages stop loading |
| `callbacks` | two payments, two kept events, environments edited in one place at a time, a developer's with the mock among them | events, audit and statuses tell one story; a repetition is heard; a checked server listens |
| `suspension_undone` | as `administration` | a finding (section 6) |

### Bounds, and why they are enough

- *OrderLifecycle*: competition for stock needs two orders and fewer units than
  both want: one unit of a variant both may ask for. One is a new cart and one a
  legacy order, so that a reservation and a direct consumption meet. The second
  variant leaves a cart with a line when a deletion takes the other. The proofs have
  no bound.
- *Payments, Receipts*: duplicates need two payments; one order suffices because two
  orders only meet in the stock, which `order_lifecycle` covers. `MaxOrphans` counts
  sessions without a row, which nothing reads.
- *Refunds*: amount 2 with two requests gives full, partial, failed and
  reallocated balances; two workers are the administrator and the command, and what
  one worker does to another's refund needs no third; `MaxCrashes` is 1 because a
  crash only resets a worker.
- *CartCheckout*: `MaxEdits` 2 and `MaxChanges` 1 count the customer's edits and
  the shop's changes; two is what it takes to change a line between what is shown
  and what is asked and again afterwards. `MaxOrders` and `MaxItems` bound row
  ids: two carts in a row and two lines, so that a late request can meet the next
  cart. The amounts take two lines with prices from a negative to a large one.
- *GuestCart*: `MaxStock` 3 over `MaxQuantity` 2, so that a line is limited once
  by stock and once by its own limit; three keys let an old key return after a
  newer one was made.
- *Notifications*: `Limit` 2 is one more than the addresses that bounce, so that a
  bouncing row may be ahead of a good one without filling the command. One crash
  decides every outcome of a row; a second one meets another row.
- *Contexts*: three tokens give a rotation whose answer is late and a login after
  it; two requests of each kind let an old one cross a new one. `MAX_MOVES` 4 is a
  login, a mutation, a logout and one more. The run has one tab, because `RestoreEnds`
  is about one; the invariants are proved for any number of tabs, requests of the
  staff and revocations.
- *PaymentPage*: two payments let an answer about one arrive while the other is
  watched; two attempts let the automatic polls run out. One tab is what liveness
  allows; the proofs are for any number. A page has one check by hand under way at a
  time (`Retry`), though its button is not disabled: a second one asks the same
  question.
- *Administration*: quota 1 and two uploads are the race for the last place; the
  third file replaces one. Two spellings of one mailbox and another address.
  `MaxHashes` 2 is one change of password, `MaxLinks` 1 a link that may be used
  twice before it is spent.
- *Storefront*: two products on pages of one give a second page that may vanish;
  two moves are a change of query and a second before the first is answered. Two
  colours and two sizes in three variants leave one choice that no variant meets;
  two additions of up to two units meet any number the cart holds.
- *Callbacks*: `MAX_EVENTS` 2 keeps a duplicate apart from a call for the other
  payment. Environments differ from a working one in one variable at a time,
  because each check reads its variables independently.

Symmetry is used only where the members of a set are exchangeable and the run
has no liveness property. Deadlock is not checked in `Refunds`, where all
refunds may be settled, nor in `Contexts`, `ProductPage` and `Administration`,
where the bounds on moves, tokens and files let everything come to rest.

### Fairness

- `FairReceiptSpec` (as `FairPaySpec`): weak fairness of `Reconcile(p)` and of
  `ExpireUnpaid(o)`. Both commands are in the crontab of
  `lobel_store/docs/payment-operations.md:9-15`. They take the oldest rows up to a
  limit (200 payments, 500 orders); the model assumes the backlog stays below it.
  Neither the provider nor its callbacks are fair.
- `FairRefundSpec`: strong fairness of `StartReconcile` per refund, since a
  worker is free again and again but not continuously (cron every five minutes,
  `payment-operations.md:11`), and weak fairness of a worker's next step and of
  the provider's settlement of a refund it took. A crash needs no fairness.
- `Notifications`: weak fairness of a process that runs and of the retry command
  (cron), and that a mail server accepts a working address if it is tried again
  and again (strong fairness of `MailAccepted`). Commits and crashes are not fair.
- `Sessions`, `ShownCart`, `PaymentPage`, `Storefront`, `ProductPage`: a request
  is answered or fails (axios has a timeout of 15 s), and a timer that is set
  fires. In `Sessions` these are the refresh and the profile request; a revocation
  need not go on. The customer is never fair.

## 4. Proofs

`tlapm` proves the invariants and action properties of all passing runs, for
every value of the constants that satisfies the named assumptions; what the runs
add is liveness, and that the invariants are not vacuous. The assumptions are
those the modules declare and TLC evaluates in their runs: ranges of the limits
and bounds, a mark that is no member of the set it marks (`None \notin Payments`),
finite sets of orders, refunds, keys, media and products where they are counted,
and

- `ProductPageAssumption`: variants of a product differ in colour or size, which
  is the unique constraint of the table (`products/models.py:175-179`);
- `NoticeAssumption`: notices are of their order's events, only an order with an
  address has one, and there are finitely many runs of the command.

Each module of proofs states one inductive invariant per component and one lemma
per action, or per kind of action; a theorem reads its property off the invariant.

**Sums.** `SumFunctionOnSet` is recursive, so its value needs induction over a
finite set. The library's induction theorem takes an operator, which the provers
cannot instantiate; the lemmas go by minimal counterexample instead: a non-empty
family of subsets of a finite set has a minimal member, taken from the library's
theorem that strict inclusion is well-founded. They say that the sum is an
integer, that taking an element out takes its weight out, and that changing one
weight changes the sum by the difference.

**Payments_proofs.**

- *Orders.* `IInv == TypeOK /\ \A o : RowInv(orders[o])`. The safety properties
  alone are not inductive: that an order in fulfilment has consumed its stock needs
  to know which columns are set in the statuses before it (a reservation is never
  released twice; a consumed order left the payable statuses). `RowInv` speaks of
  one row, so each action has one lemma about the row it writes. From it:
  `TypeCorrect`, `FulfilmentBacked`, `ClosedHoldNothing`, `DatesInOrder`, and the
  action properties `Frozen` and `UnitsConserved` (each step moves units between
  shelf, hold and sale of one order; a deletion carried out late moves the units of
  its line to the ghosts, and nothing else does). `SalesCounted` adds the sum over all
  orders and the sales of the lines that are gone.
- *Payments.* `LifecycleRefinement`: every payment step is a step of
  `OrderLifecycle` or leaves the orders alone, so `IInv` carries over. `PInv` adds
  what ties payments to orders (an order consumed its stock iff it has a
  commercial payment; an undecided payment is not completed). From it:
  `OneCommercial`, `CapturesAccounted`, `DecisionsFinal`, `PayTypes`.
- *Receipts.* `ReceiptRefinement` carries all of it over. `RInv` adds that a
  receipt, and the payment a download has read, name a commercial payment, and
  that the order of such a download is frozen; without the second part the unlocked
  read of a download would not support the first. From it: `ReceiptCommercial`,
  `ReceiptStanding`. `OffersHold` excepts by name an order that a late deletion has
  emptied: it is offered for payment and refused.
- *Refinement.* `SettlementRefinement`: every payment step is a step of
  `Settlement` or a stutter. `Initialize` is `Open`; a confirmed payment that pays
  its order is `Accept`; a duplicate or refundable one is `GiveBack`; cancellation
  and expiry are `Shut`; the rest changes nothing a customer is owed. Besides
  `PInv` it needs that an absent payment belongs to no order (`Unopened`).

**Provider_proofs.**

- *Refunds.* `RefundInv` joins the properties with two facts they rest on: an
  answer `completed` is held only if the provider paid, and a refund that was not
  requested does not affect the order yet. From it: `RefundTypes`, `PendingRefund`,
  `Confirmed`. `CompletedFinal` and `ReservedWithin` say what two workers can do to
  each other, for any number of them: an answer that is written over an outcome is
  one of a call that was under way when that outcome came, so the refund is
  `overtaken`; those that are not never exceed the payment.
- *Callbacks.* `CallbackInv` adds to the property that a payment with a row has a
  session, and the mock's where the mock is at work. From it: `EvidenceKept` and
  the action property `RetriesHeard`.
- *Deployment.* `CheckedServerHears` goes through the variables an environment may
  have wrong, one by one: the checks refuse each of those that would turn the
  provider away, but for an allow-list of other addresses.

**Orders_proofs.**

- *CartCheckout.* `CartInv` says that frozen rows and receipts are in bijection and
  that no active cart is frozen. Only `Place` freezes, every other step is `Quiet`:
  it may delete a line of a frozen row (section 6) but never changes or adds one.
  From it: `AsShown` and `OncePlaced`.
- *Notifications.* `MailInv` has three parts. What an open transaction announces
  has no row yet, and orders are locked by one request each, so that two commits
  never write one row. A row has one sender and one mail unless its excuse says why
  (`Single`). With `--failed-only` and one scheduler, the rows a request still has
  to send are pending and nobody else's (`Alone`); the command takes failed ones,
  so it never meets them. From it: `RepeatsExcused`.

**Shop_proofs.**

- *GuestCart.* `GuestInv` adds to the types that an answer accepts no more than was
  sent, without which the storage could become negative, and restates
  `KeyHasOneContent` over everything that is sent. From it: `GuestTypes`,
  `OneContentPerKey`, `StockRespected`. `CountInv` is the ledger of a unit: in the
  storage, or merged under a key; until a key is dropped or a cart overwritten,
  a request under another key than the pending one is settled already, so that only
  the pending key can still get a receipt. From it:
  `EveryUnitIsCounted`, for any number of tabs.
- *Storefront, ProductPage.* `BrowseInv`: only the request that is not aborted asks
  for the query in the address bar, so an answer that is taken is the query's; the
  text field differs from the query only when typed in or about to be set; the
  selection is one the offer sent with the product allows. From it: `QuerysList`,
  `OnlyTypedSearches`, `SellableChoice`.

**PaymentPage_proofs.** `OnlyCaptures` goes through the replies of the provider:
whatever fields are missing, one that passes `validate_provider_confirmation`
comes from a capture that fits. `ReturnInv` then says that a request that brings
"completed" is about a completed row, and that, unless a payment was started
while another was watched, all that is watched or stored is one payment
(`Together`). From it: `PageTypes`, `SuccessPaid`, `EntryStays`. The proof is for
any number of tabs, and asks for care about a page opened without an entry: it
takes up, by its button, a payment another tab started, so the success it then
announces is of the payment it shows, not of one it was opened for.

**Contexts_proofs.**

- *ShownCart.* `CartInv`: what is shown was seen by the latest request, and what
  that request saw is the cart, unless a mutation that will have it read again is
  done (`Undone`) or an excuse was noted. From it: `CartShown`, `OwnLines`.
- *Sessions.* `SessionInv`: a token on its way to the browser has been used by
  nobody (`ComingUnseen`) and comes once (`OneHolder`); a request of an older
  generation was sent for a token the browser has replaced since (`OldFlights`); a
  stored token was exchanged only by a request that is awaited, or was given up with
  a note (`StoredSpent`). Tokens that a revocation blacklisted (`revoked`) are apart
  from those a request used up, so that one that stops half-way excuses only the
  tokens it reached. From it: `TokenLives`. `LogoutKept` adds that between a logout
  and a login nothing is stored or held by a tab that was not `apart`; it is for any
  number of tabs.

**Administration_proofs.**

- *Media.* `MediaInv` adds to the properties what each step of a worker relies on: a
  file it stored is its own (`UploadsOwn`), a row it locked still has the columns it
  read and no other holder (`Locked`), and one that counted has its product to
  itself and room for a row (`Counted`); the last is why `QuotaHolds` survives two
  overlapping uploads. From it: `MediaTypes`, `NamedFiles`, `Quotas`, `Leftovers`.
- *Content.* `Handover`: only the deletion of the active service, or a save of its
  own form, can leave the home page without one; what another form deactivates it
  replaces in the same step (`ContentInv`: a form that does not activate its own has
  locked no other).
- *Registration.* `OneAccount`: the unique index is read at the write, so that what
  a request checked before need not hold any more (`RegInv`).

Only model-checked:

- Liveness under fairness, which is out of the prover's reach:
  `CapturesAreProcessed`, `DueOrdersLeavePayment`, `ProcessingIsResolved`,
  `OrderMailsArrive`, `RestoreEnds`, `BusyEnds`, `VerificationEnds`,
  `PagesStopLoading`.
- `Amounts`, evaluated over the carts of its instance: what its folds compute for
  every cart is an induction over data.
- The findings of section 6, which are violations.

### Statements outside the runs

Some definitions state what is proved, or what a run also satisfies, without being
in a `.cfg`; each can be added to the `.cfg` of its module and holds there. Proved:
`TypeOK`, `ClosedOrdersHoldNothing`, `DatesFollowTheChain`, `PayTypeOK`,
`ImplementsLifecycle`, `DecisionsAreFinal`, `RefundTypeOK`, `RefundedIsConfirmed`,
`CompletedIsFinal`, `GuestTypeOK`, `MergeWithinStock`, `MediaTypeOK`,
`NoLeftovers`, `LinesAreOwn`, `PageTypeOK`.
Model-checked once: the type invariants of the other modules that have one,
`PageShowsItsOrder` (CartCheckout), `PublishedIsShown` and `OneOfEach` (Content),
`OnlyWholeSavesGoBack` (Registration).

## 5. Not modelled

- *Stock written by the admin form, variants deleted after a freeze*: the form
  writes the stock it displayed, so reservations made since are overwritten, and an
  order with a deleted variant can be neither paid, cancelled nor expired.
  `StepConservesUnits` would be false with it, and no document promises otherwise;
  the model lets stock be written by transitions only.
- *Order of row locks*: actions are atomic here. `initialize` and `expire` lock the
  order and then payments; webhook, refresh and refunds the payment and then the
  order. Two that meet deadlock in the database, which aborts one: a step that
  does nothing.
- *Limit of the reconcile command and of the expiration command*, and the
  `--older-than` option.
- *Receipt rendering*: a layout of frozen columns. *Legacy
  checkout*: refused in every environment but a test's, and through the same
  services. *Build configuration, account forms, order list and detail pages,
  layout*: display, or a check that stops the build.
- *Collections, best sellers, variant resolution, addresses*: queries and
  validation of single rows.
- *Audit lines and health counts* beyond those of `Callbacks`: no decision reads
  them.

## 6. Where the code and its documents disagree

`suspension_undone` is a run: `CustomerUpdateSerializer.update` saves every column
of the customer row it read, so a profile request that overlaps a suspension lifts
it (`users/serializers.py:126`; `PHASE7_AUTH_ACCOUNT_SECURITY.md:27-29` says that
only `unsuspend_user()` does).

The following have a property that TLC finds violated; run it with the `.cfg` named.

| Property | With | What happens |
|---|---|---|
| `NoSecondSession` | `Receipts.cfg` | an ambiguous initialisation is rolled back with the row that records it, and the next attempt opens a second provider session (`payment_lifecycle_service.py:104`; excluded by `payment-operations.md:28-29`) |
| `RefundedForLackOfStock` | `MCReceipts`, `PaymentsStockError.cfg` | after a failed payment, a retry that succeeds before a poll finds the order in `payment_failed`, which has no transition to `paid`: it is counted as a stock error and refunded, its stock still reserved (`payment_service.py:99`) |
| `LateSuccessKeepsProof` | `MCReceipts`, `PaymentsLateSuccess.cfg` | of two late successes of one order the second raises, and its proof is rolled back at each attempt (`payment_service.py:124`; `phase9-order-lifecycle.md:40-42`) |
| `ReservedWithinPayment` without its exception `overtaken` | `Refunds.cfg` | the cron fails a refund whose submission still waits for its answer, its balance is given away, and the late answer completes it (`refund_service.py:144`, `245`) |
| `UnitsAreCounted` without its exception `overwritten` | `GuestCart.cfg` | a merge under k1 leaves a rest; one tab applies it and merges the rest under k2, which is accepted after stock came back; the other tab's late answer to k1 writes the rest back, and it is merged again (`CartContext.jsx:127-132`) |
| `LogoutIsKept` without its exception `apart` | `Contexts.cfg` with `Tabs = {t1, t2}` | a tab that had the session when another signed out keeps it in memory, and stores it again with its next refresh (`authSession.js`) |
| `FrozenLinesKept` | `MCCartCheckout`, `FrozenLines.cfg` | a deletion checked before the checkout removes a line of the frozen order (`orders/views.py:442`; `PHASE4_ORDER_SNAPSHOTS.md:35-36`) |
| `OnlyConfirmedLeave` | `MCGuestCart`, `GuestEditLost.cfg` | a line added to the guest cart while a merge waits for its answer is overwritten (`CartContext.jsx:131`; `phase6-cart.md:70-71`) |
| `EveryMutationReloads` | `Contexts.cfg` | of two overlapping mutations the second is not followed by a reload (`CartContext.jsx:166`; `phase6-cart.md:57-58`) |
| `NetworkErrorsKeepSession` | `Contexts.cfg` | a login that has stored its tokens throws them away if the profile request after it meets a network error (`AuthContext.jsx:107`; `lobel_store_frontend/README.md:189`) |
| `MismatchesAreCounted` | `Callbacks.cfg` | the audit line of a mismatch is rolled back with its callback, so `payment_health` always counts none (`webhook_service.py:199-212`, `payment_health.py:58-62`; `payment-operations.md:21-25`) |
| `ActivationReplaces` | `Administration.cfg` | the form refuses to activate a second service, though its help text says that the activation deactivates the first (`content/models.py:156-159`) |

Met on the way, read in the code and without a property:

- *Orders and payments.* `phase7-checkout.md:69` says that no stock is reserved
  before payment; the code reserves at `pending_payment`
  (`lifecycle_service.py:83`). The table of `phase9-order-lifecycle.md:12-28` omits
  the transitions from the payable statuses to `refund_required` and from
  `refund_failed` to `refund_pending`. An order that goes from a payable status
  to `refund_required` keeps its reservation. A refund whose answer was lost is
  marked failed although the provider took it (`refund_service.py:151`). The
  latest payment the order's serializer shows may be an unpaid later session.
  A line deleted late (`orders/views.py:438-442`) takes its units with it: the release
  and the invoice work from the lines that are left, so the units come back to no
  shelf and the lines no longer add up to the total; an order that is emptied so
  can be neither expired nor cancelled (`lifecycle_service.py:319-322` raises), and its
  page offers a payment that `initialize` refuses (`payment_lifecycle_service.py:242`).
- *Webhook.* An invalid confirmation rolls its event back and is answered 200, so
  the provider does not repeat it; an early callback ("Unknown payment") and one
  whose payment is still pending consume their key. The throttle of anonymous
  visitors applies to callbacks, and behind a proxy the allow-list compares the
  proxy's address (`REMOTE_ADDR`). A reply that names no currency is taken to be in
  XOF (`ligdicash.py:92`), so that a capture in another one passes.
- *Settings.* `production.py` accepts settings that `payments/checks.py` refuses,
  and the checks do not run under WSGI; `env_https_url_list` accepts
  `https://localhost` though PHASE10 says local origins are refused;
  `DJANGO_USE_X_FORWARDED_PROTO` is documented and not read; the development settings
  read any unknown text of a switch as false (`development.py:34,38`).
- *Return page.* It says "Le paiement n'a pas été confirmé" of a completed payment
  whose order has moved past `paid`; the success of one payment clears the entry of
  another; one network error, or a tab hidden when its turn comes, ends polling; its
  retry button is not disabled while a check is under way.
- *Notifications.* Refund notices are never retried; a crash leaves a pending
  notice that `--failed-only` never takes.
- *Accounts.* The password is saved and the sessions are revoked in two commits; a
  revocation outside a transaction may stop with some tokens blacklisted and the
  version as it was; a profile or revocation that read an old `token_version` lowers
  it again; the admin
  form writes back the password it read, and an e-mail changed there stays
  verified; after such a change an old user name and a new registration in another
  case make both unable to sign in. One reset link can serve two overlapping resets.
- *Session.* A late refusal of an old refresh clears a new login
  (`authSession.js:50-55`); the reset page during a refresh leaves the session
  initializing for ever (hence the last disjunct of `RestoreEnds`); a login clears
  the stored session before it asks; two tabs share `localStorage` unaware of each
  other (`apart`).
- *Cart shown.* A locked key returns null and the page announces a success; Retry
  after a failed merge only fetches; a cart is not reset at logout.
- *Media, content, catalogue.* The admin's form for a medium counts without a lock,
  and only for a new row (`products/admin.py:56-63`): two forms, or an edit that
  activates a row again, pass the quota; it can write back a file that was replaced.
  `ProductMediaInline` is defined and not used. A stale form of the active service
  unpublishes it; a page beyond the last is an error the shop's page never corrects
  (`phase5-catalogue.md:46`); a link with the same search and another filter has its
  search replaced by what was being typed (`Shop.jsx:50-62`); the quantity chosen
  for one product is kept for the next one opened; choosing colours and sizes can
  lead where no variant is; the product table accepts a negative price, which the
  line then refuses.
