# Coffix: a verification project

Coffix sells coffee and espresso machines and repairs them. Its backend
(`backend/src/coffix`, Python, FastAPI, SQLAlchemy over PostgreSQL) serves a mobile
application for customers (`mobile`, React Native) and an administration site (`admin`,
React), and runs a worker process beside the API. This directory holds TLA+ models of the
backend's core logic and of the logic of the two applications that stands between it and
their users, TLC configurations that check them on small instances, and TLAPS proofs of
the main properties for every instance.

The backend's state is in PostgreSQL. Every request runs in one transaction at READ
COMMITTED (`core/database.py`), takes the row locks its handler asks for, and is rolled back
when it raises. Several API processes, the worker's loops, the payment provider's webhooks
and the administrators run at the same time and meet only in the database. The applications
keep caches of that state (TanStack Query), a session, and what the user has entered; their
hard part is that anything may happen between a request and its answer.

## 1. Inventory

| Component | State | Operations | Talks to |
|---|---|---|---|
| Carts (`carts/`) | `carts` (status, `expires_at`), `cart_items` | get or create, add, set, remove, expiry on access | inventory in the same transaction |
| Inventory (`inventory/`) | `stock_reservations`, `product_skus.stock_quantity` | reserve, release, transfer to order, consume | called by carts, orders, worker |
| Orders (`orders/`) | `orders` (state, payment deadline, idempotency key), items, shipment, history | checkout, process, ship, deliver, cancel, request refund, provider events | carts, inventory, payments, outbox, machines |
| Payments (`payments/`) | `payments`, `refunds`, `payment_events` | create payment, create refund, process a webhook | provider; orders and service |
| Expiration worker (`worker/expiration.py`) | none of its own | expire batches of carts and orders | carts, orders, inventory |
| Administration (`admin/`) | `audit_logs` | correct stock, retry a push, change access, versioned edits, listings | inventory, notifications, users |
| Outbox (`worker/outbox.py`, `notifications/`) | `outbox_events`, `notifications` | emit, claim, process, fail | creates notifications and deliveries |
| Push delivery (`worker/notifications.py`, `notifications/`) | `notification_deliveries`, `device_tokens` | claim, send, record the answer; register and deactivate devices | push provider |
| Service workflow (`service/`) | `service_requests`, quotes, notes, media, history | intake, fee, payments, quote, decision, repair, return | payments, scheduling, media, outbox |
| Scheduling (`scheduling/`) | appointment fields of a request | confirm, preview, assign, overlap check | service, outbox |
| Authentication (`auth/`) | `auth_sessions`; counters in Redis | request and verify a code, refresh, logout | SMS provider, users |
| Media (`media/`) | `media_uploads`, attachments, object store | ticket, complete, attach, delete, cleanup loop | object store |
| Users and machines | addresses, registered machines | saved addresses, registration, completion of a serial number | orders, service, media |
| Catalog and shop | categories, products, SKUs, settings | paged lists, versioned edits | carts, media |
| Platform (`api/`, `core/`, `health/`, `activity/`) | Redis counters, heartbeats | request scope, rate limits, health | everything |
| Phone: session | token store, push registration | restore, refresh, sign in, sign out, register for push | authentication, notifications |
| Phone: shop | cached catalog and cart, payment screen | search, page, choose, change the cart, check out, pay | catalog, carts, orders, provider |
| Phone: orders | cached orders | follow, tap a notification, draw the timeline | orders, push |
| Phone: service | cached machines and requests, stored draft | register, complete, ask for service, follow, pay | machines, service, media, provider |
| Phone: profile and notifications | cached addresses, inbox | add, remove, choose; page, mark, walk | users, notifications |
| Dashboard: session | cookie of the browser, memory of each tab | refresh under a lock, sign in and out, resend | authentication |
| Dashboard: screens | forms, pages that poll | edit, create, command, reassign | administration, orders, service, media |
| Generated client, tests, scripts, infrastructure, documents | none | | |

What makes the parts hard, and what makes them correct:

- **Carts, inventory, orders.** Reservations and the carts and orders that own them expire at
  different clocks; a reservation is made by one actor and released, moved or consumed by five
  others. Correct means: unexpired reservations of a tracked SKU never exceed its stock; a cart
  becomes at most one order; stock falls once per paid order and never otherwise.
- **Concurrent transactions.** A cart mutation, a checkout and a webhook read something, wait
  (for a lock or for the provider) and then write. Correct means that what they read is still
  so when they write, or is checked again.
- **Payments.** A provider event may come twice, out of order, after the deadline, after the
  worker expired the order or after a cancellation. Correct means: a captured payment either
  paid its order or is flagged for reconciliation, and an order is refunded exactly when its
  refund was confirmed.
- **Worker, outbox, push delivery.** Batches with a limit, rows locked elsewhere skipped, workers
  that crash or are slow and go on after losing their claim. Correct means: what is due is closed in
  the end; an event notifies all its recipients once or nobody; nothing is recorded that did not
  happen; every delivery settles.
- **Service workflow and scheduling.** A request's state, quote, technician and two payments move
  on different people's orders, dispatchers read a calendar others are writing. Correct
  means: no work unpaid or unaccepted, no payment unaccounted, a closed request stays closed;
  two open jobs overlap only where an administrator allowed it.
- **Sessions.** Refresh tokens rotate, and the wrong one ends the session. Correct means: a session
  ends by reuse only for a reason, no user sees another's data or works in his name, and a phone
  nobody is signed in on gets nobody's messages.
- **Caches and screens.** Answers come late, in any order or not at all; several screens write the same cached
  list; the process may end. Correct means: when nothing is on its way the screen shows
  what the API keeps; the customer who presses again has one order, one request, one payment;
  and what an administrator saves replaces only what he was shown.

`PROJECT.json` lists the hazards with the line where each bites and the properties that cover it.

## 2. Modules

One module per component, and a few that put components together. `MC<module>` holds symmetry sets and
values of function constants for TLC.

| Module | Models | Level of detail |
|---|---|---|
| `Storefront` | carts, inventory, orders, payments, worker, stock correction | every transaction is one step |
| `StockRaces` | the transactions of one SKU that read before they lock | begin, commit, rollback |
| `OutboxPromise` | what the outbox promises of an event | abstract specification |
| `Outbox` | `worker/outbox.py` and its repository; implements `OutboxPromise` | every transaction is one step |
| `PushDelivery` | `worker/notifications.py`, device tokens, the administrator's retry | transactions and the provider call are one step each |
| `ServiceWorkflow` | the life of a service request with payments, quote, technician | every transaction is one step |
| `StaffRaces` | bookings and changes of access, which decide on rows they do not write | every statement that reads, waits or writes |
| `AdminRecords` | the versioned forms of eight kinds of record and their pictures | requests, their serving and their answers |
| `AdminCreation` | creating a category, a machine model, a product with pictures | the same |
| `AdminDesk` | an order's page in several browsers; the form that reassigns a request | polls and commands are one step |
| `AdminConsole` | `StaffRaces`, `AdminRecords`, `AdminCreation`, `AdminDesk` as the desks of one dashboard | |
| `SessionFamilies` | refresh token families as the API keeps them; no state of its own | operators for the next two |
| `PhoneSession` | the phone's tokens, requests, push registration | between any two awaits anything may run |
| `WebSession` | tabs of one browser, its cookie and its lock | between two answers of the network |
| `CodeSignIn` | one-time codes: two screens, cooldown, limits | requests, their serving and their answers |
| `AddressBook` | three screens that change one cached list of addresses | the same |
| `Inbox` | the notifications, loaded by offsets, and the walk that marks all | every page is a request |
| `PhoneAccount` | `PhoneSession`, `CodeSignIn`, `AddressBook`, `Inbox` | |
| `CatalogPages` | search and paged lists; a product's page with variety and quantity | requests, their serving and their answers |
| `MobileCart` | the cached cart with its queue of changes, against the API's cart | the same |
| `MobileShop` | extends `MobileCart` by checkout, payment sheet, confirmation, the order's life | the same |
| `OrderTracking` | the list and the page of an order, push messages, taps | the same |
| `OrderTimeline` | an order's history as written and as drawn | every move is one step |
| `MachinePages` | list, page and card of a machine; completion of its serial number | requests, their serving and their answers |
| `PhoneScreens` | `CatalogPages`, `MobileShop`, `OrderTracking`, `OrderTimeline`, `MachinePages` | |
| `MachineRegistration` | registering a machine while its photo is uploaded | every await of the upload |
| `ServiceIntake` | the draft of a request on a stack of screens, its storage, its submission | every storage operation and request |
| `ServiceTracking` | extends `ServiceWorkflow` by the phone that follows and pays a request | requests, sheet, poll |
| `PhoneService` | `MachineRegistration`, `ServiceIntake`, `ServiceTracking` | |
| `StorefrontProofs`, `PushDeliveryProofs`, `AdminConsoleProofs`, `PhoneAccountProofs`, `WebSessionProofs`, `PhoneScreensProofs`, `PhoneServiceProofs` | proofs about the module in their name and the modules it composes | |
| `BackendRacesProofs` | proofs about `StockRaces` and about `Outbox` | |

`AdminConsole`, `PhoneAccount`, `PhoneScreens` and `PhoneService` compose by choice: their parts share no
state in the code (each screen has its query keys, its own component state, its own storage), so
that a behaviour is of one part, chosen at the start, and the reachable states are the sum and not
the product. `MobileShop` and `ServiceTracking` compose for real: the phone and the API's cart,
orders and requests are in one state.

### Storefront, StockRaces

| Variable | Code |
|---|---|
| `cart[k]`, `items[k][s]` | `carts.status`, `carts.expires_at`; `cart_items.quantity`; `k = <<customer, n>>` is the customer's n-th cart |
| `resv[o][s]` | the ACTIVE `stock_reservations` row of a cart or an order; released and consumed rows are gone |
| `stock[s]`, `skuActive[s]` | `product_skus.stock_quantity` (`Unlimited` for NULL); SKU and product are active |
| `order[o]` | `orders`; `o = <<customer, key>>` because (customer, idempotency key) is unique |
| `payment[o]`, `refund[o]` | `payments.state` and the state of the payment's one refund |
| `reconcile` | orders with a `payment_events` row whose result is `requires_reconciliation` |
| `now` | the clock; `expires_at` columns are compared with it |

A handler is one action: `AddItem`, `SetItem` and `RemoveItem` include the reservation, the
refresh of the cart's expiry and the creation of a missing cart; `Checkout` includes the
transfer of all rows, the cart's status and the payment; `PaymentConfirms` includes the
consumption of every row. A request that the code answers with an error changes nothing and
is no step; where the error path commits (a lapsed cart on access) it is `ExpireOnAccess`,
and where it is rolled back (checkout of a lapsed cart) it is not.

Taking a transaction as one step is right where the handler locks what it reads before it
reads it. Where it does not, `StockRaces` has the steps: `BeginMutation` (customer and cart
locked, SKU perhaps already loaded), `CommitMutation`; `BeginCheckout`, `CommitCheckout`
(the provider call lies between them); `BeginConfirmation`, `CommitConfirmation`; and their
rollbacks. Locks are guards: the worker skips a customer whose request is open
(`request[c] = Idle`), a cancellation waits for an open webhook (`~webhook[c]`).

### Outbox, PushDelivery

Both pass loops are modelled with several workers: one is deployed, but the claims are
written for more (`SKIP LOCKED`, leases) and a rollout runs two. `claim` is `claimed_at`:
`free` for null, `held` when recent, `stale` when older than the lease; `due` says whether
`available_at` or `next_attempt_at` has come. How long a lease or a retry delay lasts is left
open, so a slow worker, and a worker that outlives its lease, are ordinary behaviours. `todo[w]`
is the rest of the batch a pass holds in memory; a crash loses it. In `PushDelivery` the provider
is a nondeterministic answer; a failure or a timeout may hide an accepted message (`accepted`).
The three `mark_*` calls record by the delivery's id with no look at its state, as the code
does, so two workers may overwrite each other; the properties say what survives that.

### ServiceWorkflow, StaffRaces

| Variable | Code |
|---|---|
| `state[r]`, `technician[r]` | `service_requests.state`, `.assigned_technician_id` |
| `history[r]` | the states of the request's `service_status_history` rows |
| `quote[r]` | the decision on the request's one quote |
| `payment[p]` | the `payments` row of a request and a phase, `p = <<r, "diagnostic">>` or `<<r, "additional">>` |
| `charge[p]`, `events` | the provider's intent, and the events it may deliver, once or again; external |
| `ignored` | payments with an event logged as `ignored_owner_state` |
| `available` | active technicians |

`TRANSITIONS` is the table of `service/state_machine.py`, and every handler asks it, as in the
code, for the actor's permission and the next state. A capture is the provider's and the
customer's: no handler closes a payment sheet, so it may come after a cancellation, and the
webhook finds what it finds. `Advanced(p)` reads the history, not the state, so that a payment
stays accounted for after the request has moved on.

In `StaffRaces`, `txn[t]` is an open transaction: where it is (`at`) and what it is about. A booking
goes `booking` (the request's row locked), `looking` (the technician's account locked and tested),
`booked` (the technician's calendar read) and commits; a change of access goes `access`, `counting`
(the account locked), `writing` (the administrators counted) and commits. A statement sees what
is committed and nothing else (READ COMMITTED); a lock is a guard (`FreeAccount`, `LocksJob`).
Both commits also wait for their author's account: the history or audit row refers to it, and the
foreign key's check takes a share lock which a FOR UPDATE of the same row blocks. Two transactions
that wait for each other so are PostgreSQL's deadlock, whose victim takes `Rollback`.

### The applications

A request of a screen is a record with a `stage`: asked or sent, then served (the API has acted,
its answer is on the way), then shown, failed or lost. Between any two of those steps the user,
other screens, other devices and the API's other actors go on, and the answer carries what the API
read when it served. The query cache follows the code's client (`mobile/src/api/queryClient.ts`:
no retries) and TanStack's rules, modelled from how the code uses them: refetching a query that has
data drops the request under way; a first load under way is shared by whoever asks meanwhile;
writing the cache does not stop a request, whose answer then overwrites it; a next page takes the
place of a refetch; pages are fetched again one after the other.

| Module | State and steps in terms of the code |
|---|---|
| `SessionFamilies` | a session is one row, a token is a session and a generation; presenting a generation other than the row's revokes it (`auth/service.py`) |
| `PhoneSession` | `store` is the secure store, `call[c]` a request of the API client with the token it read, `flow` the boot, sign-in or logout under way, `push` the push session of `push.ts`, `row` the API's `device_tokens`; `Clear` is `secureTokenStore.clear()` with its listeners |
| `WebSession` | `cookie` and `queue` (the browser's lock) are shared, `tab[t]` is a tab's memory; a refresh that waited for the lock uses the cookie it finds then |
| `CodeSignIn` | `wait` is the screen's countdown, `hold` the cooldown in Redis, `tries` and `window` its counters; `spent` counts what was really sent and checked |
| `AddressBook` | `listed` the cached list, `load` its request, `edit` the additions and removals on their way with the list their screen held when it asked, `till` the choice of the checkout |
| `Inbox` | `inbox` the API's notifications in its order, `pages` what is cached, `walk` the command that marks all |
| `CatalogPages` | `typed` and `query` around the debounce, `found[t]` the pages under a search's key, `display` and quantity of a product's page; `version` dates a page's answer |
| `MobileCart` | `cache` the cached cart, `queue[s]` the change of a SKU under way and the one that waits for it (`mutations.ts`), `fetch` and `adding` the other requests; `wish` and `behind` are history |
| `MobileShop` | `screens[n]` the n-th payment screen with its attempt's key and fee, `conf` the confirmation with its sheet, `orders` the API's orders |
| `OrderTracking` | `answer[q]`, `asking[q]` the two queries, `look` the lookup of a tapped notification, `mode` and `mounted` the application's state |
| `OrderTimeline` | the history rows with the times they are stamped with; `TextBefore` compares times as the code does, as text |
| `MachinePages` | `cached[q]`, `pending[q]` the three queries, `serial` the completion under way |
| `MachineRegistration` | `op[o]` an upload operation with its token, `photo` what the form shows, `media` the API's upload, `creation` the registration |
| `ServiceIntake` | `hook[i]` the draft of a mounted screen, `stored` and `io` the store and its serialized operations, `requests` the API's |
| `ServiceTracking` | the cached request and the payment screen over `ServiceWorkflow`'s state |
| `AdminRecords` | `loaded` what lists and galleries have cached, `editor` and `save` the form, `picture` and `upload` its picture editor, `trace` what was replaced unseen |
| `AdminCreation` | `creator` the form with what it has already created, `made` the API's records |
| `AdminDesk` | `page[p]` an order's page with its key, `provider` the keys the provider has seen; `desk` the assignment form, `unseen` what it changed that was not reviewed |

Variables called history in the modules (`behind`, `wish`, `mixed`, `crossed`, `excused`, `misrun`,
`passed`, `told`, ...) record what happened for the properties; no guard of an action reads them
(`trace.used` of `AdminRecords` apart, which keeps a picture from being uploaded twice).

Mutants: operators marked `Mutant:` sit beside the definition they replace. They are
plausible slips in that code (a missing release, a forgotten refresh, a filter too many) and
each makes one checked property fail; no specification uses them.

## 3. What is checked

| Run | Checks | Instance |
|---|---|---|
| `storefront_rivals` | `NoOversell`, `MoneyFollowsOrders`, `DueRowsClose` (liveness) | 2 customers, 1 SKU with 2 units, 1 cart and key each, quantities up to 2, one edit, batch size 1, clock 0..2 |
| `storefront_two_lines` | `CheckedOutOnce`, `StockFallsByPaymentOnly` | 1 customer, 2 SKUs, 2 carts, 2 keys, one edit, clock 0..3 |
| `stock_races` | `LockedReadsHold`, `StockConserved` | 2 customers, 2 units, one correction, clock 0..4 |
| `stock_races_snapshot` | **violated:** `NoOversell` | 2 customers, 2 units, clock stands still |
| `outbox` | `KeepsPromise` (refinement with liveness) | 2 events (1 and 2 recipients), 2 workers, 2 attempts, 1 crash |
| `push_delivery` | `DeliveriesAreTold`, `PushesSettle` (liveness) | 1 notice, 1 device that changes hands (3 sessions), 2 workers, batch 1, 2 attempts, 1 crash, 1 retry |
| `service_workflow` | `PaymentsAccounted`, `WorkIsAccounted`, `ClosedStaysClosed` | 2 requests, 1 technician |
| `admin_console` | `BookingsAreSound`, `OnlyOvertakenRemoveTheLast`, `NothingUnseenIsReplaced`, `CatalogPicturesAreKept`, `CreatedOnce`, `RefundIsAskedOnce`, `ReassignedAsReviewed` | 2 administrators, 1 technician, 2 jobs with overlapping windows, 2 transactions; 8 kinds of record, 2 pictures, 2 writes, 1 lost answer (none for a product); 2 records created; 2 pages of an order; 2 technicians to choose from |
| `phone_account` | `ReuseHasACause`, `StoreFollowsScreens`, `PushIsNobodys`, `SignInIsFair`, `AddressesAgree`, `NothingIsSkipped` | 2 users, 2 sessions of 2 generations, 2 requests, 1 fault; cooldown 2, window 4, limits 2 and 1; 2 addresses, 2 changes at once; pages of 2, 3 notices |
| `web_session` | `CacheIsTheUsers`, `ReuseOnlyAfterLoss`, `UploadsRunAsTheirAuthor` | 2 tabs, 2 users, 2 sessions of 2 generations, a request and an upload, 1 fault |
| `phone_screens` | `CatalogIsFollowed`, `CacheSettles`, `LastTapWins`, `OnePaidOrder`, `TrackingIsCurrent`, `TimelineTellsTheMoves`, `MachineIsCurrent` | 2 searches over 3 products, pages of 1, 2 varieties; 1 SKU, 3 taps (1 where a payment is made or the fee changes, which it does once), 1 payment screen, 1 order, 1 fault; an order that moves twice; 5 entries of a history in 2 seconds; 1 serial number |
| `phone_service` | `PhotoIsSafe`, `SubmittedOnce`, `PaymentIsHonest`, `VerifiedIsShown` (liveness) | 2 brands of a model each, 2 picks, 3 edits, 1 loss; 1 text, 3 screens, 2 drafts, 1 fault; 1 request, 1 visit, 1 retry, 1 loss |

Some properties are conjunctions of named parts that belong together, among them:
`MoneyFollowsOrders` (payment and refund), `WorkIsAccounted`, `BookingsAreSound`,
`DeliveriesAreTold`, `SignInIsFair` (countdown and limits), `NothingIsSkipped` (list and walk),
`CatalogIsFollowed` (results, pages, quantity), `TrackingIsCurrent`, `OnePaidOrder`, `SubmittedOnce`,
`PaymentIsHonest`, `PhotoIsSafe`. Each module defines the parts with comments of their own. Type invariants
(`TypeOK`, `TrackTypeOK`, ...) are not given to the runs; for the proved modules they are theorems or conjuncts
of the inductive invariants.

Why the bounds are enough to matter. Two customers are what a race for a unit takes; the TTLs
differ, so a cart and its reservation, an order and its rows, lapse in both orders; the clock
passes the cart's TTL and the payment's; two SKUs are what a cart with one stale line takes,
two keys what a double checkout takes; batch size 1 leaves due rows behind in every pass. Two
workers and one crash are enough for a delivery to be held by a worker that lost its claim;
`PushDelivery`'s safety was also run once with 2 devices and batch 2 (736,070 states, no error),
which is too slow to keep. Requests of `ServiceWorkflow` share only the technicians, so that two
say what many would; the events need no bound, a set holds them. In `StaffRaces` the long window
contains the short one, which is the overlap a comparison of starting times alone would miss;
both windows and both jobs may be taken in either order, and access goes both ways.

In the applications every race is between two requests, or a request and one event elsewhere, and the
bounds let two be under way: two calls that refresh one token (and two tabs that do), two changes
of the address list, a walk and an arriving notice, two uploads, a refetch and a tap. One fault is
enough for a lost answer at each place in turn; two generations are what reuse of an old token
takes, two sessions what another user takes. Pages of one and three products make a page boundary for
every change; two pages of a size of two make the inbox's. A second of three ticks has a whole second and two
fractions, which is where text and time disagree.

The bounds (`MaxTime`, `MaxCorrections`, `CartsPerCustomer`, `MaxCrashes`, `MaxSessions`, `MaxGen`,
`MaxFaults`, `MaxTaps`, ...) only cut behaviours short; each is named and explained where it is declared, and in no
proof is a particular value used. Deadlock is not checked: customers, staff and the
provider may stop at any time, so a state without a step is a legal end.

Fairness. `Storefront!FairSpec` assumes only that the worker's pass is taken when a pass would
change something (`run_expiration_loop` never ends, and goes straight on after a full batch).
`Outbox!FairSpec` and `PushDelivery!FairSpec` assume that a worker claims and goes through its
batch (the loops of `run_worker`, a crash being followed by a restart), and that leases and
retry delays end (time passes). `PhoneService!ServiceSpec` assumes only that a screen which
shows the request asks for it every five seconds and is answered (`refetchInterval` in
`features/service/queries.ts`). No fairness is assumed of customers, staff, the payment
provider, or of the push provider ever accepting.

### Where code and documents disagree

`stock_races_snapshot` states what `docs/spec.md` says of concurrent cart additions and shows a
behaviour of the code that departs from it: a cart mutation can reserve against a stock figure from
before it waited for the SKU's lock. `PROJECT.json` quotes the lines. The other disagreements met while
modelling; the properties name each as an exception where one bears on them:

- A live, refreshed cart can lose a line's reservation: only the touched line is renewed
  (`inventory/service.py:109`; `docs/spec.md:168`).
- A checkout whose provider call outlasts the reservation revives it after a rival took the unit
  (`inventory/service.py:183`).
- Three administrators who take each other's access away at the same time can all succeed: each
  counts the others before any of them has committed, and none is asked again whether he still is
  an administrator (`admin/queries.py:587`; `docs/spec.md:156`). Two cannot: each one's audit row
  waits for the account the other has locked, and the database aborts one of them.
  `OnlyOvertakenRemoveTheLast` says what does hold.
- Requests in flight are said to be discarded after a change of session (`admin/README.md:75`); one
  that a tab sends again after a refresh may have run as whoever the refresh brought before its
  answer is discarded. Uploads are checked for that, other requests are not.
- A refresh is said to be safe to repeat (`docs/plan.md:698`); repeated after a lost answer it ends
  the session, as `ReuseHasACause` and `ReuseOnlyAfterLoss` allow.
- A submission is said to be stored before it is posted (`intakeStore.ts:19`); a review that was left
  in between posts without storing, for `update` does nothing once its screen is gone
  (`useIntakeDraft.ts:34`).
- A cancelled order is said to have been cancelled before a successful payment (`docs/spec.md:265`)
  and not to have been charged (`usePayment.ts:146`); one that is cancelled behind an open sheet may
  have been, and is then flagged for reconciliation. The payment of a service request that is
  captured but not yet recorded can likewise coexist with a cancellation: the money is kept and
  logged (`ignored`), not refunded.
- A gallery saved beside a form gives the form a version its text never saw
  (`ProductImagesEditor.tsx:24` says otherwise; `ProductEditor.tsx:25`, `:79`), and a lost answer of the
  gallery leaves the form with a version that is refused for good (`ProductEditor.tsx:95`).

Things a reader should know, which no document promises otherwise:

- A push claimed by a worker that dies is claimed again, whatever its attempts (`AttemptsBounded`
  gives the bound there is), and eligibility of a device is read when a delivery is claimed: a
  device that changes hands while the pass is under way may still get the push.
- After a refund that failed at the provider the order's page offers no further one; the
  confirmation of a reassignment mixes the form as reviewed with the request as polled
  (`AppointmentForm.tsx:52`).
- A removal at the checkout writes the list it saw before its request, so that an address added
  meanwhile disappears and the choice falls back to the default (`checkout.tsx:221`); the pickup screen
  replaces a list it could not load by the one address it created (`PickupAddress.tsx:73`); a profile
  screen left before its answer leaves the other screens with the old list (`addresses.tsx:44`).
- A tapped notification that brings the application to the front is looked up by the push session
  which that same event replaces: it is marked read and opens nothing (`PushProvider.tsx:44`, `:52`). A
  message during a first load only joins it. The card of the home screen is not refetched on focus.
- Times are compared as text (`status.ts:93`): a whole second sorts after its fractions.
- An older read of a machine that lands after its number was completed brings the form back, and an
  older completion's answer replaces a newer service history (`machines/queries.ts:76`).
- Pages of the catalog that are read across a change repeat or omit a product; a quantity above a
  lowered stock is not taken back (`product/[productId].tsx:85`).
- The cooldown of a code is kept when sending it fails (`auth/service.py:161`), and a customer who
  goes back to the number is refused until it ends. Refused presses count toward the window.

## 4. What is proved

For every value of the constants that meets the modules' `ASSUME`s (finite sets where
cardinalities are taken, positive TTLs and batch sizes, `Unlimited` and the null values
outside the sets they stand apart from):

| Module | Theorems |
|---|---|
| `StorefrontProofs` | `Typing`, `NeverOversold`, `StockFallsOnce`, `HoldersAreOpen`, `MoneyFollows` (from `MoneyIsAccounted` and `RefundsMatch`), `OneOrderPerCart`, `RowsFollowLines`, `CartsOutliveRows` |
| `BackendRacesProofs` | of `StockRaces`: `StockTyping`, `LocksProtect`, `HoldersAreOpen`, `NothingLost`; of `Outbox`: `Typing`, `SafePromise` (safety of the refinement), `AttemptsAreBounded` |
| `PushDeliveryProofs` | `Typing`, `RecordsAreTold` (from `NoFalseSuccess` and `NoStuckDeadLetter`), `AttemptsAreBounded` |
| `AdminConsoleProofs` | of `StaffRaces`: `Typing`, `SoundBookings` (from `NoSilentOverlap` and `JobsGoToTechnicians`), `LastRemovalIsOvertaken`; of `AdminRecords`: `NothingUnseenGoes`, and the records' half of `PicturesAreKept`; of `AdminCreation`: `RecordsAreCreatedOnce`, and the other half; of `AdminDesk`: `RefundsAreAskedOnce`, `AssignmentsAreReviewed`; and `ConsoleIsItsDesks` |
| `PhoneAccountProofs` | of `PhoneSession`: `PhoneIsTyped`, `PushBelongsToNobody`, `StoreIsTheScreens`, `ReuseNeedsACause`; of `CodeSignIn`: `SigningInIsFair`; of `AddressBook`: `SavedAddressesAgree`; of `Inbox`: `NoNotificationIsSkipped`; and `AccountIsItsParts` |
| `WebSessionProofs` | `WebIsTyped`, `CacheBelongsToTheUser`, `ReuseNeedsALoss`, `UploadsGoInTheirAuthorsName` |
| `PhoneScreensProofs` | of `MobileShop` and `MobileCart`: `ShopTypeCorrect`, `TheCartSettles`, `TheLastTapWins`, `OneOrderAndPaid`; of `OrderTracking`: `OrdersAreTracked`; of `OrderTimeline`: `TheTimelineTells`; of `MachinePages`: `MachinesAreCurrent`; of `CatalogPages`: `TheCatalogIsFollowed` |
| `PhoneServiceProofs` | of `ServiceWorkflow`: `Typing`, `MoneyIsAccounted`, `WorkAccounted` (from `PaidWork` and `RecordsMatch`), `OnlyAcceptedIsCharged`, `Final`; of `MachineRegistration`: `ThePhotoIsSafe`; of `ServiceIntake`: `DraftsAreSubmittedOnce`; of `ServiceTracking`: `PaymentsAreHonest`, `PhoneStaysInTheWorkflow`, `TrackingIsTyped` |

Where a module composes others by choice, a behaviour of it is one of each part (which it may never be
at): `ConsoleIsItsDesks`, `AccountIsItsParts`. A part's theorems so hold of the composition, which is what the
runs check.

Each is an invariance argument: the strengthened invariant holds initially and is kept by every
action. The strengthenings, and why they are needed:

- `MoneyLedger` adds that an absent order has no payment, that an order in a paid state has a
  confirmed one, and that an order is flagged for reconciliation exactly when its payment is
  confirmed and the order is in no paid state: without the last, an administrator's command
  could move a paid order out of those states unaccounted.
- `CartsOrdered` adds to `CheckedOutOnce` that a cart belongs to an order only if the order is
  there, so that the first order of a cart is also its only one.
- `RowsLedger` adds to `RowsMatchLines` that an order holding rows came from a cart;
  `CartDeadlines` adds to `CartOutlivesItsRows` that no cart expires later than one cart lifetime
  from now, so that a refreshed cart outlives the rows it had.
- `Fits` (for `NoOversell`) is the statement for each SKU in terms of held units. Its core are
  lemmas on how the set of held units changes: it only shrinks as time passes, splits over the
  owners, and keeps its size when a cart's units become the order's. These rest on
  the finite-set theorems of the library.
- `RaceInv` holds, for every open transaction, what it may rely on: the status of
  its cart, its row's owner and quantity, the state of its order. `NothingLost` needs it
  because the webhook writes quantities it read before waiting.
- `AttemptsExplained` and `Holders`, in `BackendRacesProofs` and again in `PushDeliveryProofs`, say
  where each extra attempt came from: a failure that was recorded, a worker that still holds
  the row, or a crash.
- `Report` adds to the first two push invariants that a worker about to record "sent" has heard it
  from the provider.
- `ServiceWorkflow`'s `IInv` joins its invariants with `Ledger`: the history contains the
  current state and no repair before there was one; the additional payment is awaited only after
  acceptance; no charge stands without a payments row, and a captured charge behind every
  confirmed event. Without the history's part a confirmation could be the second one to move
  the same request.
- `StaffRaces`' `IInv` joins `TypeOK` and `OverlapsWereAllowed` with `OneLocker` (no row is locked
  twice), `BookingHolds` (an open booking's technician is one still, and what it read of his
  calendar is so still unless it allows overlaps) and `NoneQuits` (no administrator is removing
  himself). That the last removal was overtaken then needs no word about the count: its author is
  not the account he removes, so he was an administrator only if another remains.
- `CodeInvariant` has `Counts` (what was sent or checked was counted first), `AnswersBelong` (whose
  answer may still come to which screen) and `CountdownCovers`: the API's cooldown is never ahead
  of the screen's countdown unless an answer that will start it anew is on its way. The seconds pass
  on both sides at once, which keeps it; each answer that is lost or comes to a screen
  that was left is an excuse and recorded as one.

- The phone's session has four. `Shape` says which stages, tokens and flows go together, and that every
  token held was issued. `PushInvariant` has the push token: one that was ever given up is registered for
  nobody, and one nobody uses is registered only after the end of the process. `FollowInvariant` says of
  behaviours without an excuse that everything held and under way is of the session shown.
  `CalmInvariant` says that without a lost answer and overlapping refreshes every token about to be
  presented is the one its session accepts, and no two requests hold tokens of one session; then
  the API never sees an old one.
- `WebInvariant` describes the browser's lock: `Turns` (the tabs with a command stand in the queue once
  each, only the first has one under way), `CookieIsCurrent` (the cookie is the token the API expects,
  or the answer with it is on its way, unless one was lost) and `CallsFollow` (what is under way
  for a session was asked by its user). Without the queue's order the cookie's currency is not inductive.
- A dashboard form is safe because of what its tokens mean: `BlindInvariant` says that whoever holds a
  token below the record's version has the text, or the picture, of that version (`ListsKnow`,
  `EditorKnows`, `RequestsKnow`), and `OneIsServed` that of a form's two requests at most one has
  been served before its answer is shown, and how its version stands to the form's. `PictureInvariant` adds which uploads have arrived, and
  that a picture that was once on record leaves the store only by an editor that took it away.
- `CreationInvariant` relates a form to what it has made: whose request may be under way
  (`RequestShape`), that it owns the pictures it names (`FormHolds`), that no version it knows is
  ahead (`VersionsBehind`), and, as long as no answer was lost, that it knows its one record
  (`OnePerForm`) and, with nobody else at work, that record's version (`VersionsKnown`).
- `OrderInvariant` has `KeysAreCounted`: the provider has seen no more keys than one for the refund there
  is and one for each commit that failed; `DeskInvariant` says that the technician
  shown is the one reviewed unless a poll came, and that a tick was set for the one chosen.
- `RegInvariant` follows the photo: operations are begun in order and only an ended one is
  discarded (`OpsInOrder`), the form follows the last one (`ScreenFollows`), its photo cannot change while
  the registration is under way (`CreationHolds`), and whoever uploaded a photo will tell, or has told,
  whom to ask for its removal (`KeptIsKnown`).
- `TrackInvariant` adds to the workflow's `IInv` that whatever the phone holds or waits for tells only of
  payments that were made (`ToldIsAdvanced`), and that an attempt which has not come to its sheet has a
  press of its own (`SheetsArePressed`). The first is inductive because a payment made stays made in
  every step of the workflow (`AdvancedStays`: histories grow and an accepted quote stays accepted), so
  the phone's answers may be as old as they like; and the phone's own steps are steps of the
  workflow (`TrackIsService`).
- `IntakeInvariant` follows a draft from the screen to the API. The storage runs one operation at a time,
  writes ahead of the reads still wanted (`WritesComeFirst`, `LoadsOfTheFront`), and only the screen in
  front works (`OnlyFrontWorks`), so that one draft is written at a time and is that screen's
  (`OneDraftIsWritten`). Of each draft the submission is on its way once: about to be stored, posted,
  refused, or requested (`OnItsWayOnce`), and from then on nobody has the draft unlocked
  (`LockedOnItsWay`). As long as no screen left behind has written anything, what is stored, waiting
  or in the screens below is of the latest draft or of one already requested (`Undisturbed`). The property
  names only the ends of this path, a request and the drafts beside it; only where the submission is in
  between says that no step makes a second one.

- `ShopInvariant` joins the cart and the payment. Of the cart, `WishesAreKept` says of every SKU where the
  quantity asked for last is: in the queue, with the request under way, in an answer or with the API;
  `AnswersAreCurrent` that an answer not yet taken, with what is still asked for, is the API's cart, so
  that the last one may be shown. Of the payment, `OrderHasKey` and `OrderIsAlone` (each press has one key and a
  key one order, whichever screens and answers are lost), `AnswersAreTold` and `ShownIsPaid` (what a
  screen was told of an order is true of it from then on). The run has one SKU and one screen of each kind; the
  theorems any number (`Skus` is not empty, as the catalog is not).
- `OrdersFollowMessages` (`OrderTracking`) says that a mounted screen behind a message has its request
  still to be served or asks again, `ClosedIsEmpty` and `OnlyLookIsOwed` what the end of the process and a tap on a
  notification leave; `HistoryMoves` (`OrderTimeline`) that consecutive stamps do not fall,
  by whatever clock they were taken; `MachineInvariant` that a number the customer was told is what the
  page and the list have or will get (`NumberIsShown`, `ListHasNumber`) and that what a screen has is as new
  as what it was asked anew for (`PagesFollowNews`).
- `ListInvariant` (`CatalogPages`) has of every search's pages, the cached and the loading ones: a
  page that was read of the catalog as it is now is what would be read there, every page but the last is
  full, and a page was asked for only after one that said there is more. That the rows of such pages, one after
  the other, are a beginning of the matching products is a lemma on page numbers and division
  (`RowsInOrder`). `QuantityIsOfItsSku` says the rest of the quantity on the stepper.
- `BookInvariant` (`AddressBook`): an edit not yet answered is served or on its way, once
  (`EditsAreServed`), and whatever the screen's list lacks of the API's rows is one of those (`ListAgrees`).
- `InboxInvariant` (`Inbox`): between the rows of the pages, the cached and the loading ones, nothing of the first
  page's moment is missing (`NoGap`), and of what "mark all" must mark the unmarked is ahead of its
  walk (`WalkIsAhead`). It holds because positions only grow: a notification arrives in front of all.

Proving corrected the models in one place: three definitions chose between screens by a `CASE` whose
arms overlap, which TLC reads from the top and TLA+ does not; they are decisions in order now
(`MachineRegistration!Proceed`, `MobileCart!CartScreen`, `MobileShop!Confirmation`). In `ServiceIntake` the
push of the next screen was a step of its own after the write it waits for; it is a part of the write's end,
as the code after an `await` is, and reads and clearings that fail were added. In `AddressBook`, `Inbox`
and `CatalogPages` lists are filtered and joined by ranks (the k-th place that is kept), not by
the recursive `SelectSeq` and `FlattenSeq`, of which the provers know nothing.

Only model-checked: all liveness (`DueRowsClose`, `PushesSettle`, `VerifiedIsShown`, the
liveness of `KeepsPromise`), which depends on fairness and `ENABLED`, out of the prover's reach;
and the violation. `NoOversell` is proved
of `Storefront` and refuted of `StockRaces`: the first says the design is right when
transactions are atomic, the second that a stale read breaks that atomicity.

## 5. Not modelled

Parts of the backend:

- Prices, names, invoices, audit rows: written, never read by the logic above. Machines registered
  when an order is paid: one insert per unit in the same transaction.
- The payment event log (deduplication by event id, events that overtake the commit): the
  models let the provider's event arrive any number of times after the commit, and let a
  repetition change nothing, which is what `apply_state` does.
- Order of notifications of one aggregate: the code spaces `available_at`, but a retry may be
  overtaken; the models say only when each event may be handled.
- Notes and media of a service request, its service type and the editor of intake options, and
  `PUBLIC_ACTIONS`, the table of buttons each actor is shown: none of them decides a step.
- A reconciliation of payments whose webhook never came: `reconciliation_candidates`
  (`payments/service.py:84`) selects them and nothing but a test calls it.
- Checks of a medium's type, size and signature; signed download links; limits per address and per
  device, which work as the one per number does.
- Read-only listings and dashboards, health checks, logging, the components marked
  `not_modelled` in `PROJECT.json`.

What the modules of the applications leave out:

- `PhoneSession`: stopping the push session on a return to the front is one step; `clearAll` of the
  stored drafts. The two items of a token pair are written together.
- `AddressBook`: contents of an address and edits of them; which one is the default is left open.
- `Inbox`: a mark and its effect are one step; the badge with the number of unread ones.
- `CodeSignIn`: one request per screen and one guess on their way.
- `CatalogPages`: varieties whose stock is not counted; texts, filters, featured products; the list
  and the product's page are separate, a category is a search.
- `MobileCart`, `MobileShop`: one mount of the cart's screen; refusals at the product's page and the payment leave
  the cache alone; refusals for an inactive SKU; the address; preparing the sheet and polling are one step each. A lost
  checkout answer followed by leaving makes a new key, which meets an empty cart.
- `OrderTracking`: one order, one lookup at a time, no message for its creation, and not the cap of
  200 remembered notifications.
- `MachinePages`: one machine; staff's corrections of numbers; completion is one step under its locks.
- `ServiceIntake`: the screens before the review are one, what is entered is one text. Photos of an issue.
- `AdminRecords`, `AdminCreation`, `AdminDesk`: other administrators appear by the writes the API
  accepts; one upload and one request of each sort at a time; a gallery is one picture; a refusal is
  served and answered in one step; a product's form loses no answers (bound); polls and commands
  of an order's page are one step. Machine models carry no version in the code, and none here.
- The customer's name, questions and settings; the dashboard's lists, filters, quote and note forms; the
  technician's pages: texts and single-row edits.

## 6. What is left

1. `PaymentEvents`: the event log, deduplication, refund events that overtake the commit of their
   request (`unmatched`), the lock order of a refund request and a refund webhook, and what the
   missing reconciliation job would add.
2. `OrderPromise`: an abstract order (paid at most once, refunded only if paid, never paid after
   it closed) that `Storefront` implements; proof of the refinement's safety.
3. Composition of `Outbox` and `PushDelivery` through `create_notification`, and a promise of the
   whole chain from a business event to a device.
4. A further proof: that `StockRaces` with its two departures repaired keeps `NoOversell`, so that the repair is known to be enough.
5. The photos of an issue, which share the upload of `MachineRegistration` and the store of
   `ServiceIntake`.
