----------------------------- MODULE StockRaces -----------------------------
(***************************************************************************)
(* One SKU under concurrent requests.  Storefront takes every transaction  *)
(* as one step; here the three that wait for something between what they   *)
(* read and what they write are taken apart:                               *)
(*   - a cart mutation reads the cart and its SKUs, then waits for the     *)
(*     SKU's row lock;                                                     *)
(*   - checkout moves the reservations, then calls the payment provider;   *)
(*   - a payment webhook checks the order, then waits for the SKU's lock.  *)
(* The database is READ COMMITTED: an open transaction shows the others    *)
(* nothing but its row locks.  One cart and one order per customer.        *)
(***************************************************************************)
EXTENDS Integers, FiniteSets

CONSTANTS
  Customers,       \* customer accounts
  CartTTL,         \* cart_ttl_seconds, in ticks
  PaymentTTL,      \* payment_ttl_seconds, in ticks
  InitialStock,    \* the SKU's stock_quantity at the start
  Fresh,           \* a mutation that has not loaded the SKU with its cart
  MaxQty,          \* bound: quantity of the cart line
  MaxStock,        \* bound: stock an administrator may enter
  MaxCorrections,  \* bound: administrator corrections
  MaxTime          \* bound: the clock

ASSUME RacesAssumption ==
  /\ IsFiniteSet(Customers) /\ Fresh \notin Nat
  /\ CartTTL \in Nat \ {0} /\ PaymentTTL \in Nat \ {0}
  /\ InitialStock \in Nat /\ MaxQty \in Nat \ {0} /\ MaxStock \in Nat
  /\ MaxCorrections \in Nat /\ MaxTime \in Nat

VARIABLES
  now,          \* the server clock
  stock,        \* committed stock_quantity
  supply,       \* history: stock delivered so far, what corrections made of it
  corrections,  \* administrator corrections so far (bound only)
  cart,         \* cart[c]: status and expires_at
  line,         \* line[c]: quantity of the cart's line, then of the order's item
  row,          \* row[c]: the ACTIVE reservation, of the cart or of the order
  order,        \* order[c]: state
  request,      \* request[c]: the customer's open transaction
  webhook       \* webhook[c]: a confirmation of the order's payment is open

stockVars == <<now, stock, supply, corrections, cart, line, row, order, request, webhook>>

NoRow == [owner |-> "none", qty |-> 0, expires |-> 0]
Idle == [does |-> "nothing", seen |-> Fresh, quantity |-> 0, expires |-> 0]

Live(c) == row[c].qty > 0 /\ row[c].expires > now

\* The SQL sum of the committed unexpired reservations, as a count of units.
Reserved(customers) ==
  Cardinality({u \in customers \X (1..MaxQty) : Live(u[1]) /\ u[2] <= row[u[1]].qty})

-----------------------------------------------------------------------------
(***************************************************************************)
(* A cart mutation                                                         *)
(***************************************************************************)

\* _active_cart() under the customer's and the cart's lock.  Loading the cart
\* loads the SKU of a line it already has, stock_quantity included.
BeginMutation(c, quantity) ==
  /\ request[c] = Idle
  /\ \/ cart[c].status = "unused" /\ quantity > 0
     \/ cart[c].status = "active" /\ cart[c].expires > now
  /\ quantity = 0 => line[c] > 0
  /\ request' = [request EXCEPT ![c] =
       [does |-> "mutation", quantity |-> quantity,
        seen |-> IF line[c] > 0 THEN stock ELSE Fresh,
        expires |-> IF quantity > 0 THEN now + CartTTL ELSE cart[c].expires]]
  /\ UNCHANGED <<now, stock, supply, corrections, cart, line, row, order, webhook>>

\* lock_sku() returns the SKU already in the session without reloading it.
SessionStock(c) == IF request[c].seen = Fresh THEN stock ELSE request[c].seen

\* reserve() from the SKU's lock on, the line, refresh_activity() and commit.
CommitMutation(c) ==
  LET quantity == request[c].quantity
      kept == [owner |-> "cart", qty |-> quantity, expires |-> request[c].expires]
  IN
  /\ request[c].does = "mutation"
  /\ row[c].qty > 0 => row[c].expires > now
  /\ quantity > 0 => request[c].expires > now
  /\ quantity + Reserved(Customers \ {c}) <= SessionStock(c)
  /\ row' = [row EXCEPT ![c] = IF quantity > 0 THEN kept ELSE NoRow]
  /\ line' = [line EXCEPT ![c] = quantity]
  /\ cart' = [cart EXCEPT ![c] =
       [status |-> "active",
        expires |-> IF quantity > 0 THEN request[c].expires ELSE now + CartTTL]]
  /\ request' = [request EXCEPT ![c] = Idle]
  /\ UNCHANGED <<now, stock, supply, corrections, order, webhook>>

-----------------------------------------------------------------------------
(***************************************************************************)
(* Checkout                                                                *)
(***************************************************************************)

\* The checks of checkout() and transfer_to_order(), before the provider call.
BeginCheckout(c) ==
  /\ request[c] = Idle
  /\ cart[c].status = "active" /\ cart[c].expires > now
  /\ line[c] > 0
  /\ row[c].qty > 0 => row[c].expires > now
  /\ request' = [request EXCEPT ![c] =
       [does |-> "checkout", seen |-> Fresh, quantity |-> 0, expires |-> now + PaymentTTL]]
  /\ UNCHANGED <<now, stock, supply, corrections, cart, line, row, order, webhook>>

\* The provider answered: the order, its reservation and payment are committed.
CommitCheckout(c) ==
  /\ request[c].does = "checkout"
  /\ row' = [row EXCEPT ![c] = [owner |-> "order", qty |-> row[c].qty,
                                expires |-> request[c].expires]]
  /\ cart' = [cart EXCEPT ![c].status = "checked_out"]
  /\ order' = [order EXCEPT ![c] = "pending_payment"]
  /\ request' = [request EXCEPT ![c] = Idle]
  /\ UNCHANGED <<now, stock, supply, corrections, line, webhook>>

\* A refusal, an error of the provider or a crash: the transaction is undone.
Rollback(c) ==
  /\ request[c] # Idle
  /\ request' = [request EXCEPT ![c] = Idle]
  /\ UNCHANGED <<now, stock, supply, corrections, cart, line, row, order, webhook>>

-----------------------------------------------------------------------------
(***************************************************************************)
(* The payment webhook                                                     *)
(***************************************************************************)

\* _handle_payment() and consume_order() up to the SKU's lock, with the
\* payment, the order and its reservations locked.
BeginConfirmation(c) ==
  /\ ~webhook[c]
  /\ order[c] = "pending_payment"
  /\ row[c].expires > now
  /\ webhook' = [webhook EXCEPT ![c] = TRUE]
  /\ UNCHANGED <<now, stock, supply, corrections, cart, line, row, order, request>>

\* Mutant: short stock is emptied instead of refused.
CommitConfirmationClamped(c) ==
  /\ webhook[c]
  /\ stock' = IF row[c].qty <= stock THEN stock - row[c].qty ELSE 0
  /\ row' = [row EXCEPT ![c] = NoRow]
  /\ order' = [order EXCEPT ![c] = "paid"]
  /\ webhook' = [webhook EXCEPT ![c] = FALSE]
  /\ UNCHANGED <<now, supply, corrections, cart, line, request>>

\* The SKU's lock, consumption and commit.
CommitConfirmation(c) ==
  /\ webhook[c]
  /\ row[c].qty <= stock
  /\ stock' = stock - row[c].qty
  /\ row' = [row EXCEPT ![c] = NoRow]
  /\ order' = [order EXCEPT ![c] = "paid"]
  /\ webhook' = [webhook EXCEPT ![c] = FALSE]
  /\ UNCHANGED <<now, supply, corrections, cart, line, request>>

\* INSUFFICIENT_STOCK or a crash; the provider delivers the event again.
RollbackConfirmation(c) ==
  /\ webhook[c]
  /\ webhook' = [webhook EXCEPT ![c] = FALSE]
  /\ UNCHANGED <<now, stock, supply, corrections, cart, line, row, order, request>>

-----------------------------------------------------------------------------
(***************************************************************************)
(* The worker, the administrator and the clock.  The worker skips rows     *)
(* another transaction has locked; the administrator waits for them.       *)
(***************************************************************************)

\* Mutant: the worker does not skip the carts of open requests.
ExpireAnyCart(c) ==
  /\ cart[c].status = "active" /\ cart[c].expires <= now
  /\ cart' = [cart EXCEPT ![c].status = "expired"]
  /\ row' = [row EXCEPT ![c] = NoRow]
  /\ UNCHANGED <<now, stock, supply, corrections, line, order, request, webhook>>

\* expire_carts(), and the customer's own request that meets a lapsed cart.
ExpireCart(c) ==
  /\ request[c] = Idle
  /\ cart[c].status = "active" /\ cart[c].expires <= now
  /\ cart' = [cart EXCEPT ![c].status = "expired"]
  /\ row' = [row EXCEPT ![c] = NoRow]
  /\ UNCHANGED <<now, stock, supply, corrections, line, order, request, webhook>>

\* expire_orders() once the payment deadline, which is the row's, has passed;
\* cancel() at any time.
CloseOrder(c, state) ==
  /\ ~webhook[c]
  /\ order[c] = "pending_payment"
  /\ state = "payment_expired" => row[c].expires <= now
  /\ order' = [order EXCEPT ![c] = state]
  /\ row' = [row EXCEPT ![c] = NoRow]
  /\ UNCHANGED <<now, stock, supply, corrections, cart, line, request, webhook>>

CorrectStock(quantity) ==
  /\ corrections < MaxCorrections
  /\ quantity # stock
  /\ quantity >= Reserved(Customers)
  /\ stock' = quantity
  /\ supply' = supply + quantity - stock
  /\ corrections' = corrections + 1
  /\ UNCHANGED <<now, cart, line, row, order, request, webhook>>

Tick ==
  /\ now < MaxTime
  /\ now' = now + 1
  /\ UNCHANGED <<stock, supply, corrections, cart, line, row, order, request, webhook>>

StockInit ==
  /\ now = 0
  /\ stock = InitialStock /\ supply = InitialStock
  /\ corrections = 0
  /\ cart = [c \in Customers |-> [status |-> "unused", expires |-> 0]]
  /\ line = [c \in Customers |-> 0]
  /\ row = [c \in Customers |-> NoRow]
  /\ order = [c \in Customers |-> "absent"]
  /\ request = [c \in Customers |-> Idle]
  /\ webhook = [c \in Customers |-> FALSE]

StockNext ==
  \/ \E c \in Customers :
       \/ \E quantity \in 0..MaxQty : BeginMutation(c, quantity)
       \/ CommitMutation(c)
       \/ BeginCheckout(c)
       \/ CommitCheckout(c)
       \/ Rollback(c)
       \/ BeginConfirmation(c)
       \/ CommitConfirmation(c)
       \/ RollbackConfirmation(c)
       \/ ExpireCart(c)
       \/ \E state \in {"payment_expired", "cancelled"} : CloseOrder(c, state)
  \/ \E quantity \in 0..MaxStock : CorrectStock(quantity)
  \/ Tick

StockSpec == StockInit /\ [][StockNext]_stockVars

-----------------------------------------------------------------------------
(***************************************************************************)
(* Properties                                                              *)
(***************************************************************************)

\* Every variable keeps the shape of its column, and the stock_quantity never
\* becomes negative.
StockTypeOK ==
  /\ now \in Nat /\ stock \in Nat /\ supply \in Int /\ corrections \in Nat
  /\ cart \in [Customers ->
       [status : {"unused", "active", "expired", "checked_out"}, expires : Nat]]
  /\ line \in [Customers -> 0..MaxQty]
  /\ row \in [Customers ->
       [owner : {"none", "cart", "order"}, qty : 0..MaxQty, expires : Nat]]
  /\ order \in [Customers ->
       {"absent", "pending_payment", "paid", "payment_expired", "cancelled"}]
  /\ request \in [Customers ->
       [does : {"nothing", "mutation", "checkout"}, seen : Nat \union {Fresh},
        quantity : 0..MaxQty, expires : Nat]]
  /\ webhook \in [Customers -> BOOLEAN]

\* What an open transaction read of the cart, the order and the reservation it
\* will change is still so when it writes, whatever the worker, the
\* administrator and the other customers do meanwhile.
LockedReadsHold ==
  \A c \in Customers :
    /\ request[c].does = "mutation" => cart[c].status \in {"unused", "active"}
    /\ request[c].does = "checkout" =>
         cart[c].status = "active" /\ row[c].owner = "cart" /\ row[c].qty = line[c]
    /\ webhook[c] =>
         order[c] = "pending_payment" /\ row[c].owner = "order" /\ row[c].qty = line[c]

\* Stock is held only for an active cart or an order awaiting payment, also
\* while their transactions are open.
OnlyOpenOwnersHold ==
  \A c \in Customers :
    /\ row[c].owner = "cart" => cart[c].status = "active"
    /\ row[c].owner = "order" => order[c] = "pending_payment"
    /\ row[c].owner = "none" <=> row[c].qty = 0

\* Every unit delivered is on the shelf or in exactly one paid order: no
\* decrement is lost or repeated however confirmations, corrections and
\* cancellations interleave, and no more is ever sold than was delivered.
SoldUnits == {u \in Customers \X (1..MaxQty) : order[u[1]] = "paid" /\ u[2] <= line[u[1]]}

StockConserved == stock + Cardinality(SoldUnits) = supply

\* docs/spec.md: concurrent cart additions cannot reserve more than the
\* available tracked stock.
NoOversell == Reserved(Customers) <= stock
=============================================================================
