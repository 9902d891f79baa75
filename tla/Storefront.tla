----------------------------- MODULE Storefront -----------------------------
(***************************************************************************)
(* The commerce core of the Coffix backend: shopping carts, the stock      *)
(* reservations they hold, checkout into an order with its payment, the    *)
(* payment provider's webhooks, the administrator's order commands, stock  *)
(* corrections and the expiration worker.                                  *)
(*                                                                         *)
(* Every action is one database transaction of the backend, taken as one   *)
(* step: the handlers lock the customer, cart, order and SKU rows they     *)
(* change.  A request that raises an ApiError is rolled back and is not a  *)
(* step.  StockRaces takes apart the transactions that read before they    *)
(* lock what they read.                                                    *)
(***************************************************************************)
EXTENDS Naturals, FiniteSets

CONSTANTS
  Customers,         \* customer accounts
  Skus,              \* sellable SKUs
  Keys,              \* checkout idempotency keys a customer's app may send
  CartTTL,           \* cart_ttl_seconds, in ticks
  PaymentTTL,        \* payment_ttl_seconds, in ticks
  BatchSize,         \* rows one expiration pass takes of each kind
  InitialStock,      \* tracked stock of every SKU at the start
  Unlimited,         \* stock_quantity = NULL
  CartsPerCustomer,  \* bound: carts a customer may go through
  MaxQty,            \* bound: quantity of one cart line
  MaxStock,          \* bound: stock an administrator may enter
  MaxCorrections,    \* bound: administrator edits of a SKU (stock or active flag)
  MaxTime            \* bound: the clock

Carts  == Customers \X (1..CartsPerCustomer)  \* a customer's n-th cart
Orders == Customers \X Keys                   \* unique (customer_id, key)
Owners == Carts \union Orders                 \* a reservation's cart_id or order_id

ASSUME SetsAssumption ==
  /\ IsFiniteSet(Customers) /\ IsFiniteSet(Keys)
  /\ Carts \intersect Orders = {}

ASSUME NumbersAssumption ==
  /\ CartTTL \in Nat \ {0} /\ PaymentTTL \in Nat \ {0} /\ BatchSize \in Nat \ {0}
  /\ InitialStock \in Nat /\ Unlimited \notin Nat
  /\ CartsPerCustomer \in Nat /\ MaxQty \in Nat /\ MaxStock \in Nat
  /\ MaxCorrections \in Nat /\ MaxTime \in Nat

VARIABLES
  now,          \* the server clock
  stock,        \* stock[s]: stock_quantity, or Unlimited
  skuActive,    \* skuActive[s]: the SKU and its product are active
  corrections,  \* administrator edits so far (bound only)
  cart,         \* cart[k]: status and expires_at
  items,        \* items[k][s]: quantity of the cart line, 0 for none
  resv,         \* resv[o][s]: the ACTIVE reservation of owner o, qty 0 for none
  order,        \* order[o]: state, source cart, payment deadline, shipment
  payment,      \* payment[o]: state of the order's payment
  refund,       \* refund[o]: state of the payment's one refund
  reconcile     \* orders with an event logged as "requires_reconciliation"

vars == <<now, stock, skuActive, corrections, cart, items, resv, order,
          payment, refund, reconcile>>

NoRow == [qty |-> 0, expires |-> 0]
NoOrder == [state |-> "absent", cart |-> <<>>, deadline |-> 0, shipped |-> FALSE]
NoItems == [s \in Skus |-> 0]

OrderStates == {"pending_payment", "paid", "processing", "shipped", "delivered",
                "payment_expired", "cancelled", "refunded"}
\* States an order is in only after its payment was applied to it.
PaidStates == {"paid", "processing", "shipped", "delivered", "refunded"}

(***************************************************************************)
(* Stock reservations.  The SQL sum of quantities is the number of         *)
(* reserved units: unit i of owner o is held when its row counts i or more.*)
(***************************************************************************)
HeldUnits(s, owners) ==
  {u \in owners \X (1..MaxQty) :
      u[2] <= resv[u[1]][s].qty /\ resv[u[1]][s].expires > now}

Reserved(s, owners) == Cardinality(HeldUnits(s, owners))

\* Mutant: availability forgets the units held by pending orders.
CanReserveIgnoringOrders(k, s, desired, expires) ==
  stock[s] # Unlimited => desired + Reserved(s, Carts \ {k}) <= stock[s]

\* reserve() does not refuse this quantity for the cart's line.
CanReserve(k, s, desired, expires) ==
  LET current == resv[k][s] IN
  /\ current.qty > 0 => current.expires > now
  /\ desired > current.qty => skuActive[s]
  /\ desired > 0 => expires > now
  /\ stock[s] # Unlimited => desired + Reserved(s, Owners \ {k}) <= stock[s]

\* The row reserve() leaves: none for an untracked SKU or a removed line.
ReservedRow(s, desired, expires) ==
  IF stock[s] = Unlimited \/ desired = 0
  THEN NoRow ELSE [qty |-> desired, expires |-> expires]

\* release_cart() and release_order() of every owner in the set.
Released(owners) ==
  [o \in Owners |-> IF o \in owners THEN [s \in Skus |-> NoRow] ELSE resv[o]]

Unexpired(o) == \A s \in Skus : resv[o][s].qty > 0 => resv[o][s].expires > now

-----------------------------------------------------------------------------
(***************************************************************************)
(* Carts                                                                   *)
(***************************************************************************)
Active(k) == cart[k].status = "active"
Lapsed(k) == Active(k) /\ cart[k].expires <= now

\* The cart _active_cart() hands to a mutation: the customer's active one
\* unless it has lapsed, or the next new one when the customer has none.
OpenCart(c, k) ==
  /\ k[1] = c
  /\ \/ Active(k) /\ ~Lapsed(k)
     \/ /\ \A j \in Carts : j[1] = c => ~Active(j)
        /\ cart[k].status = "unused"
        /\ \A j \in Carts : (j[1] = c /\ j[2] < k[2]) => cart[j].status # "unused"

Refreshed(k) ==
  [cart EXCEPT ![k] = [status |-> "active", expires |-> now + CartTTL]]

Expired(ks) ==
  [k \in Carts |-> IF k \in ks THEN [cart[k] EXCEPT !.status = "expired"] ELSE cart[k]]

\* GET cart, for a customer without an active cart.
CreateCart(c, k) ==
  /\ OpenCart(c, k)
  /\ ~Active(k)
  /\ cart' = Refreshed(k)
  /\ UNCHANGED <<now, stock, skuActive, corrections, items, resv, order,
                 payment, refund, reconcile>>

\* Any cart endpoint that meets a lapsed cart expires it, commits, answers 409.
ExpireOnAccess(k) ==
  /\ Lapsed(k)
  /\ cart' = Expired({k})
  /\ resv' = Released({k})
  /\ UNCHANGED <<now, stock, skuActive, corrections, items, order, payment,
                 refund, reconcile>>

SetQuantity(c, k, s, desired) ==
  /\ OpenCart(c, k)
  /\ CanReserve(k, s, desired, now + CartTTL)
  /\ resv' = [resv EXCEPT ![k][s] = ReservedRow(s, desired, now + CartTTL)]
  /\ items' = [items EXCEPT ![k][s] = desired]
  /\ cart' = Refreshed(k)
  /\ UNCHANGED <<now, stock, skuActive, corrections, order, payment, refund,
                 reconcile>>

AddItem(c, k, s, quantity) ==
  /\ items[k][s] + quantity <= MaxQty
  /\ SetQuantity(c, k, s, items[k][s] + quantity)

SetItem(c, k, s, quantity) == SetQuantity(c, k, s, quantity)

\* A cart without the line answers with no change; a missing cart is created
\* by CreateCart.
RemoveItem(c, k, s) ==
  /\ OpenCart(c, k)
  /\ items[k][s] > 0
  /\ CanReserve(k, s, 0, cart[k].expires)
  /\ resv' = [resv EXCEPT ![k][s] = NoRow]
  /\ items' = [items EXCEPT ![k][s] = 0]
  /\ cart' = Refreshed(k)
  /\ UNCHANGED <<now, stock, skuActive, corrections, order, payment, refund,
                 reconcile>>

-----------------------------------------------------------------------------
(***************************************************************************)
(* Checkout, payment and the order's life                                  *)
(***************************************************************************)

\* transfer_to_order(): the cart's rows become the order's, until the deadline.
Transferred(k, o, deadline) ==
  [resv EXCEPT ![k] = [s \in Skus |-> NoRow],
               ![o] = [s \in Skus |-> IF resv[k][s].qty > 0
                                      THEN [qty |-> resv[k][s].qty, expires |-> deadline]
                                      ELSE NoRow]]

\* Mutant: the cart stays active, so a second key orders it again.
CheckoutKeepingCart(k, o) ==
  /\ o[1] = k[1]
  /\ order[o].state = "absent"
  /\ Active(k) /\ ~Lapsed(k)
  /\ \E s \in Skus : items[k][s] > 0
  /\ order' = [order EXCEPT ![o] =
                 [state |-> "pending_payment", cart |-> k,
                  deadline |-> now + PaymentTTL, shipped |-> FALSE]]
  /\ resv' = Transferred(k, o, now + PaymentTTL)
  /\ payment' = [payment EXCEPT ![o] = "pending"]
  /\ UNCHANGED <<now, stock, skuActive, corrections, cart, items, refund, reconcile>>

\* A repeated key returns the existing order; a lapsed cart's expiry is rolled
\* back with the error checkout raises.  Neither changes anything.
Checkout(k, o) ==
  /\ o[1] = k[1]
  /\ order[o].state = "absent"
  /\ Active(k) /\ ~Lapsed(k)
  /\ \E s \in Skus : items[k][s] > 0
  /\ \A s \in Skus : items[k][s] > 0 => skuActive[s]
  /\ Unexpired(k)
  /\ order' = [order EXCEPT ![o] =
                 [state |-> "pending_payment", cart |-> k,
                  deadline |-> now + PaymentTTL, shipped |-> FALSE]]
  /\ resv' = Transferred(k, o, now + PaymentTTL)
  /\ cart' = [cart EXCEPT ![k].status = "checked_out"]
  /\ payment' = [payment EXCEPT ![o] = "pending"]
  /\ UNCHANGED <<now, stock, skuActive, corrections, items, refund, reconcile>>

\* TRANSITIONS of the order state machine.
NextOrderState ==
  [payment_confirmed |-> [from |-> {"pending_payment"}, to |-> "paid"],
   payment_expired   |-> [from |-> {"pending_payment"}, to |-> "payment_expired"],
   cancel            |-> [from |-> {"pending_payment"}, to |-> "cancelled"],
   process           |-> [from |-> {"paid"}, to |-> "processing"],
   ship              |-> [from |-> {"processing"}, to |-> "shipped"],
   deliver           |-> [from |-> {"shipped"}, to |-> "delivered"],
   refund_confirmed  |-> [from |-> {"paid", "processing", "shipped", "delivered"},
                          to |-> "refunded"]]

Allowed(o, action) == order[o].state \in NextOrderState[action].from

Transitioned(o, action) ==
  [order EXCEPT ![o].state = NextOrderState[action].to]

\* Payment.apply_state() and Refund.apply_state() accept the provider's state.
Applies(current, state) ==
  /\ current # state
  /\ current = "failed" => state = "confirmed"
  /\ current \in {"pending", "failed"}

\* consume_order(): refused as a whole when a row lapsed or stock is short.
CanConsume(o) ==
  /\ Unexpired(o)
  /\ \A s \in Skus : stock[s] # Unlimited => resv[o][s].qty <= stock[s]

\* Mutant: the rows are consumed but the stock is not decremented.
ConsumedWithoutDecrement(o) == [s \in Skus |-> stock[s]]

Consumed(o) ==
  [s \in Skus |-> IF stock[s] = Unlimited THEN Unlimited ELSE stock[s] - resv[o][s].qty]

\* A failed attempt only records the state and a notification.
PaymentFails(o) ==
  /\ Applies(payment[o], "failed")
  /\ payment' = [payment EXCEPT ![o] = "failed"]
  /\ UNCHANGED <<now, stock, skuActive, corrections, cart, items, resv, order,
                 refund, reconcile>>

PaymentConfirms(o) ==
  /\ Applies(payment[o], "confirmed")
  /\ Allowed(o, "payment_confirmed") /\ order[o].deadline > now
  /\ CanConsume(o)
  /\ payment' = [payment EXCEPT ![o] = "confirmed"]
  /\ order' = Transitioned(o, "payment_confirmed")
  /\ stock' = Consumed(o)
  /\ resv' = Released({o})
  /\ UNCHANGED <<now, skuActive, corrections, cart, items, refund, reconcile>>

\* Mutant: a late payment is recorded but not flagged.
PaymentConfirmsUnflagged(o) ==
  /\ Applies(payment[o], "confirmed")
  /\ ~(Allowed(o, "payment_confirmed") /\ order[o].deadline > now)
  /\ payment' = [payment EXCEPT ![o] = "confirmed"]
  /\ UNCHANGED <<now, stock, skuActive, corrections, cart, items, resv, order,
                 refund, reconcile>>

\* Money captured for an order that can no longer take it.
PaymentConfirmsTooLate(o) ==
  /\ Applies(payment[o], "confirmed")
  /\ ~(Allowed(o, "payment_confirmed") /\ order[o].deadline > now)
  /\ payment' = [payment EXCEPT ![o] = "confirmed"]
  /\ reconcile' = reconcile \union {o}
  /\ UNCHANGED <<now, stock, skuActive, corrections, cart, items, resv, order,
                 refund>>

Cancel(o) ==
  /\ Allowed(o, "cancel")
  /\ resv' = Released({o})
  /\ order' = Transitioned(o, "cancel")
  /\ UNCHANGED <<now, stock, skuActive, corrections, cart, items, payment,
                 refund, reconcile>>

Process(o) ==
  /\ Allowed(o, "process")
  /\ order' = Transitioned(o, "process")
  /\ UNCHANGED <<now, stock, skuActive, corrections, cart, items, resv, payment,
                 refund, reconcile>>

Ship(o) ==
  /\ Allowed(o, "ship")
  /\ ~order[o].shipped
  /\ order' = [Transitioned(o, "ship") EXCEPT ![o].shipped = TRUE]
  /\ UNCHANGED <<now, stock, skuActive, corrections, cart, items, resv, payment,
                 refund, reconcile>>

Deliver(o) ==
  /\ Allowed(o, "deliver")
  /\ order[o].shipped
  /\ order' = Transitioned(o, "deliver")
  /\ UNCHANGED <<now, stock, skuActive, corrections, cart, items, resv, payment,
                 refund, reconcile>>

\* Mutant: the order is refunded when the refund is requested.
RequestRefundMarkingOrder(o) ==
  /\ Allowed(o, "refund_confirmed")
  /\ payment[o] = "confirmed"
  /\ refund[o] = "none"
  /\ refund' = [refund EXCEPT ![o] = "pending"]
  /\ order' = Transitioned(o, "refund_confirmed")
  /\ UNCHANGED <<now, stock, skuActive, corrections, cart, items, resv, payment,
                 reconcile>>

\* create_full_refund(): one refund per payment, whatever its outcome.
RequestRefund(o) ==
  /\ Allowed(o, "refund_confirmed")
  /\ payment[o] = "confirmed"
  /\ refund[o] = "none"
  /\ refund' = [refund EXCEPT ![o] = "pending"]
  /\ UNCHANGED <<now, stock, skuActive, corrections, cart, items, resv, order,
                 payment, reconcile>>

RefundFails(o) ==
  /\ Applies(refund[o], "failed")
  /\ refund' = [refund EXCEPT ![o] = "failed"]
  /\ UNCHANGED <<now, stock, skuActive, corrections, cart, items, resv, order,
                 payment, reconcile>>

RefundConfirms(o) ==
  /\ Applies(refund[o], "confirmed")
  /\ refund' = [refund EXCEPT ![o] = "confirmed"]
  /\ IF Allowed(o, "refund_confirmed")
     THEN order' = Transitioned(o, "refund_confirmed") /\ UNCHANGED reconcile
     ELSE reconcile' = reconcile \union {o} /\ UNCHANGED order
  /\ UNCHANGED <<now, stock, skuActive, corrections, cart, items, resv, payment>>

-----------------------------------------------------------------------------
(***************************************************************************)
(* The expiration worker, the administrator's stock and the clock          *)
(***************************************************************************)
Overdue(o) == order[o].state = "pending_payment" /\ order[o].deadline <= now

\* LIMIT BatchSize FOR UPDATE SKIP LOCKED: due rows that another transaction
\* holds are passed over, so any BatchSize of them may be the ones taken.
IsBatch(batch, due) == batch \subseteq due /\ Cardinality(batch) <= BatchSize

\* Mutant: the query finds lapsed carts by their reservations.
CartBatchByRows(ks) ==
  IsBatch(ks, {k \in Carts : Lapsed(k) /\ \E s \in Skus : resv[k][s].qty > 0})

CartBatch(ks) == IsBatch(ks, {k \in Carts : Lapsed(k)})

\* Mutant: the query leaves out orders whose payment attempt failed.
OrderBatchUnfailed(os) == IsBatch(os, {o \in Orders : Overdue(o) /\ payment[o] # "failed"})

OrderBatch(os) == IsBatch(os, {o \in Orders : Overdue(o)})

\* One pass: both batches in one transaction.  An empty pass changes nothing.
ExpirationPass(ks, os) ==
  /\ CartBatch(ks) /\ OrderBatch(os)
  /\ ks \union os # {}
  /\ cart' = Expired(ks)
  /\ order' = [o \in Orders |->
                 IF o \in os THEN [order[o] EXCEPT !.state = NextOrderState.payment_expired.to]
                 ELSE order[o]]
  /\ resv' = Released(ks \union os)
  /\ UNCHANGED <<now, stock, skuActive, corrections, items, payment, refund,
                 reconcile>>

CorrectStock(s, quantity) ==
  /\ corrections < MaxCorrections
  /\ quantity # stock[s]
  /\ quantity # Unlimited => quantity >= Reserved(s, Owners)
  /\ stock' = [stock EXCEPT ![s] = quantity]
  /\ corrections' = corrections + 1
  /\ UNCHANGED <<now, skuActive, cart, items, resv, order, payment, refund,
                 reconcile>>

\* The catalog editor's activation switch of a SKU or its product.
ToggleSku(s) ==
  /\ corrections < MaxCorrections
  /\ skuActive' = [skuActive EXCEPT ![s] = ~@]
  /\ corrections' = corrections + 1
  /\ UNCHANGED <<now, stock, cart, items, resv, order, payment, refund, reconcile>>

Tick ==
  /\ now < MaxTime
  /\ now' = now + 1
  /\ UNCHANGED <<stock, skuActive, corrections, cart, items, resv, order,
                 payment, refund, reconcile>>

-----------------------------------------------------------------------------
Init ==
  /\ now = 0
  /\ stock = [s \in Skus |-> InitialStock]
  /\ skuActive = [s \in Skus |-> TRUE]
  /\ corrections = 0
  /\ cart = [k \in Carts |-> [status |-> "unused", expires |-> 0]]
  /\ items = [k \in Carts |-> NoItems]
  /\ resv = [o \in Owners |-> [s \in Skus |-> NoRow]]
  /\ order = [o \in Orders |-> NoOrder]
  /\ payment = [o \in Orders |-> "none"]
  /\ refund = [o \in Orders |-> "none"]
  /\ reconcile = {}

CartStep(k) ==
  \/ CreateCart(k[1], k)
  \/ ExpireOnAccess(k)
  \/ \E s \in Skus, quantity \in 1..MaxQty :
        AddItem(k[1], k, s, quantity) \/ SetItem(k[1], k, s, quantity)
  \/ \E s \in Skus : RemoveItem(k[1], k, s)
  \/ \E o \in Orders : Checkout(k, o)

WebhookStep(o) ==
  \/ PaymentFails(o)
  \/ PaymentConfirms(o)
  \/ PaymentConfirmsTooLate(o)
  \/ RefundFails(o)
  \/ RefundConfirms(o)

AdminStep(o) ==
  \/ Cancel(o)
  \/ Process(o)
  \/ Ship(o)
  \/ Deliver(o)
  \/ RequestRefund(o)

Pass == \E ks \in SUBSET Carts, os \in SUBSET Orders : ExpirationPass(ks, os)

Next ==
  \/ \E k \in Carts : CartStep(k)
  \/ \E o \in Orders : WebhookStep(o) \/ AdminStep(o)
  \/ Pass
  \/ \E s \in Skus :
        ToggleSku(s) \/ \E quantity \in (0..MaxStock) \union {Unlimited} : CorrectStock(s, quantity)
  \/ Tick

Spec == Init /\ [][Next]_vars

\* The worker's loop never stops; customers, staff and the provider may.
FairSpec == Spec /\ WF_vars(Pass)

-----------------------------------------------------------------------------
(***************************************************************************)
(* Properties                                                              *)
(***************************************************************************)

CartRecords ==
  [status : {"unused", "active", "expired", "checked_out"}, expires : Nat]
Rows == [qty : 0..MaxQty, expires : Nat]
OrderRecords ==
  [state : OrderStates \union {"absent"}, cart : Carts \union {<<>>},
   deadline : Nat, shipped : BOOLEAN]
MoneyStates == {"none", "pending", "failed", "confirmed"}

\* Every variable keeps the shape of its table.
TypeOK ==
  /\ now \in Nat
  /\ stock \in [Skus -> Nat \union {Unlimited}]
  /\ skuActive \in [Skus -> BOOLEAN]
  /\ corrections \in Nat
  /\ cart \in [Carts -> CartRecords]
  /\ items \in [Carts -> [Skus -> 0..MaxQty]]
  /\ resv \in [Owners -> [Skus -> Rows]]
  /\ order \in [Orders -> OrderRecords]
  /\ payment \in [Orders -> MoneyStates]
  /\ refund \in [Orders -> MoneyStates]
  /\ reconcile \subseteq Orders

\* The unexpired reservations of a tracked SKU never exceed its stock, across
\* carts, pending orders, payments, expiry and stock corrections.
NoOversell == \A s \in Skus : stock[s] # Unlimited => Reserved(s, Owners) <= stock[s]

\* Stock is held only for an active cart or an order awaiting payment: every
\* way a cart or an order closes also releases, moves or consumes its rows.
OnlyOpenOwnersHold ==
  \A s \in Skus :
    /\ \A k \in Carts : resv[k][s].qty > 0 => Active(k)
    /\ \A o \in Orders : resv[o][s].qty > 0 => order[o].state = "pending_payment"

\* A row holds exactly the quantity of the line it was made for, and an
\* order's rows lapse with its payment deadline, not earlier or later.
RowsMatchLines ==
  \A s \in Skus :
    /\ \A k \in Carts : resv[k][s].qty \in {0, items[k][s]}
    /\ \A o \in Orders : resv[o][s].qty > 0 =>
          resv[o][s] = [qty |-> items[order[o].cart][s], expires |-> order[o].deadline]

\* No reservation outlives the cart it belongs to.
CartOutlivesItsRows ==
  \A k \in Carts, s \in Skus : resv[k][s].expires <= cart[k].expires

\* A cart becomes at most one order, and is checked out exactly when it did.
CheckedOutOnce ==
  \A k \in Carts :
    /\ cart[k].status = "checked_out" <=> \E o \in Orders : order[o].cart = k
    /\ \A o, p \in Orders : order[o].cart = k /\ order[p].cart = k => o = p

\* Captured money either paid its order or is flagged for reconciliation,
\* never both and never neither, wherever a webhook meets the deadline, the
\* worker or a cancellation.
CapturedMoneyAccounted ==
  \A o \in Orders : payment[o] = "confirmed" <=>
    \/ order[o].state \in PaidStates /\ o \notin reconcile
    \/ order[o].state \notin PaidStates /\ o \in reconcile

\* An order is refunded exactly when its refund was confirmed, and only a paid
\* order has a refund at all.
RefundMatchesOrder ==
  \A o \in Orders :
    /\ order[o].state = "refunded" <=> refund[o] = "confirmed"
    /\ refund[o] # "none" => order[o].state \in PaidStates

\* The money of an order and its state tell the same story, whatever webhooks of
\* the payment and of the refund meet.
MoneyFollowsOrders == CapturedMoneyAccounted /\ RefundMatchesOrder

\* Finalisation: outside an administrator's correction the stock changes only
\* when an order becomes paid, then by exactly the rows that order held.
BecomesPaid(o) == order[o].state = "pending_payment" /\ order'[o].state = "paid"

StockFallsByPaymentOnly ==
  [][/\ \A o \in Orders : BecomesPaid(o) =>
           \A s \in Skus : stock[s] # Unlimited => stock'[s] + resv[o][s].qty = stock[s]
     /\ \A s \in Skus : stock'[s] # stock[s] =>
           corrections' # corrections \/ \E o \in Orders : BecomesPaid(o)]_vars

\* A lapsed cart and an overdue order are closed by the worker however the
\* batches fall, even if nobody touches them again.
LapsedCartsClose == \A k \in Carts : Lapsed(k) ~> ~Active(k)
OverdueOrdersClose == \A o \in Orders : Overdue(o) ~> order[o].state # "pending_payment"
DueRowsClose == LapsedCartsClose /\ OverdueOrdersClose
=============================================================================
