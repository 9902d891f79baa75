-------------------------- MODULE StorefrontProofs --------------------------
(* Theorems about Storefront, for any sets of customers, SKUs and keys and  *)
(* any bounds, proved with TLAPS.                                           *)
EXTENDS Storefront, FiniteSetTheorems, TLAPS

LEMMA Numbers ==
  /\ CartTTL \in Nat /\ PaymentTTL \in Nat /\ InitialStock \in Nat
  /\ MaxQty \in Nat /\ MaxStock \in Nat
  BY NumbersAssumption

LEMMA EmptyRow == NoRow \in Rows
  BY Numbers DEF NoRow, Rows

LEMMA ReleasedType ==
  ASSUME TypeOK, NEW owners
  PROVE  Released(owners) \in [Owners -> [Skus -> Rows]]
  BY EmptyRow DEF TypeOK, Released

LEMMA ExpiredType ==
  ASSUME TypeOK, NEW ks
  PROVE  Expired(ks) \in [Carts -> CartRecords]
  BY DEF TypeOK, Expired, CartRecords

LEMMA RefreshedType ==
  ASSUME TypeOK, NEW k \in Carts
  PROVE  Refreshed(k) \in [Carts -> CartRecords]
  BY Numbers DEF TypeOK, Refreshed, CartRecords

LEMMA TransferredType ==
  ASSUME TypeOK, NEW k \in Carts, NEW o \in Orders, NEW deadline \in Nat
  PROVE  Transferred(k, o, deadline) \in [Owners -> [Skus -> Rows]]
  <1>1. k \in Owners /\ o \in Owners
    BY DEF Owners
  <1>2. [s \in Skus |-> NoRow] \in [Skus -> Rows]
    BY EmptyRow
  <1>3. [s \in Skus |-> IF resv[k][s].qty > 0
                        THEN [qty |-> resv[k][s].qty, expires |-> deadline]
                        ELSE NoRow] \in [Skus -> Rows]
    BY <1>1, EmptyRow DEF TypeOK, Rows
  <1> QED
    BY <1>1, <1>2, <1>3 DEF TypeOK, Transferred

LEMMA TransitionedType ==
  ASSUME TypeOK, NEW o \in Orders, NEW action \in DOMAIN NextOrderState
  PROVE  Transitioned(o, action) \in [Orders -> OrderRecords]
  <1>1. NextOrderState[action].to \in OrderStates
    BY DEF NextOrderState, OrderStates
  <1> QED
    BY <1>1 DEF TypeOK, Transitioned, OrderRecords

LEMMA TypeInit == Init => TypeOK
  BY Numbers, EmptyRow
  DEF Init, TypeOK, NoItems, NoOrder, OrderStates, CartRecords, OrderRecords, MoneyStates

\* The steps of Next, with both ways to set a line's quantity as one.
LEMMA StepCases ==
  ASSUME TypeOK, [Next]_vars
  PROVE
    \/ \E k \in Carts :
         \/ CreateCart(k[1], k)
         \/ ExpireOnAccess(k)
         \/ \E s \in Skus, desired \in 0..MaxQty : SetQuantity(k[1], k, s, desired)
         \/ \E s \in Skus : RemoveItem(k[1], k, s)
         \/ \E o \in Orders : Checkout(k, o)
    \/ \E o \in Orders : WebhookStep(o) \/ AdminStep(o)
    \/ \E ks \in SUBSET Carts, os \in SUBSET Orders : ExpirationPass(ks, os)
    \/ \E s \in Skus : ToggleSku(s)
    \/ \E s \in Skus, quantity \in (0..MaxStock) \union {Unlimited} : CorrectStock(s, quantity)
    \/ Tick
    \/ UNCHANGED vars
  <1>1. ASSUME NEW k \in Carts, NEW s \in Skus, NEW quantity \in 1..MaxQty,
               AddItem(k[1], k, s, quantity) \/ SetItem(k[1], k, s, quantity)
        PROVE  \E desired \in 0..MaxQty : SetQuantity(k[1], k, s, desired)
    <2>1. CASE AddItem(k[1], k, s, quantity)
      <3>1. items[k][s] \in 0..MaxQty
        BY DEF TypeOK
      <3>2. items[k][s] + quantity \in 0..MaxQty
        BY <2>1, <3>1, Numbers DEF AddItem
      <3> QED
        BY <2>1, <3>2 DEF AddItem
    <2>2. CASE SetItem(k[1], k, s, quantity)
      BY <2>2, Numbers DEF SetItem
    <2> QED
      BY <1>1, <2>1, <2>2
  <1>2. ASSUME NEW k \in Carts, CartStep(k)
        PROVE  \/ CreateCart(k[1], k)
               \/ ExpireOnAccess(k)
               \/ \E s \in Skus, desired \in 0..MaxQty : SetQuantity(k[1], k, s, desired)
               \/ \E s \in Skus : RemoveItem(k[1], k, s)
               \/ \E o \in Orders : Checkout(k, o)
    BY <1>1, <1>2 DEF CartStep
  <1> QED
    BY <1>2 DEF Next, Pass

LEMMA TypeStep == TypeOK /\ [Next]_vars => TypeOK'
  <1> SUFFICES ASSUME TypeOK, [Next]_vars PROVE TypeOK'
    OBVIOUS
  <1>1. ASSUME NEW k \in Carts, CreateCart(k[1], k) PROVE TypeOK'
    BY <1>1, RefreshedType DEF CreateCart, TypeOK
  <1>2. ASSUME NEW k \in Carts, ExpireOnAccess(k) PROVE TypeOK'
    BY <1>2, ExpiredType, ReleasedType DEF ExpireOnAccess, TypeOK
  <1>3. ASSUME NEW k \in Carts, NEW s \in Skus, NEW desired \in 0..MaxQty,
               SetQuantity(k[1], k, s, desired)
        PROVE  TypeOK'
    <2>1. now + CartTTL \in Nat
      BY Numbers DEF TypeOK
    <2>2. ReservedRow(s, desired, now + CartTTL) \in Rows
      BY <2>1, EmptyRow DEF ReservedRow, Rows
    <2>3. resv' \in [Owners -> [Skus -> Rows]]
      BY <1>3, <2>2 DEF SetQuantity, Owners, TypeOK
    <2>4. items' \in [Carts -> [Skus -> 0..MaxQty]]
      BY <1>3 DEF SetQuantity, TypeOK
    <2> QED
      BY <1>3, <2>3, <2>4, RefreshedType DEF SetQuantity, TypeOK
  <1>4. ASSUME NEW k \in Carts, NEW s \in Skus, RemoveItem(k[1], k, s) PROVE TypeOK'
    <2>1. resv' \in [Owners -> [Skus -> Rows]]
      BY <1>4, EmptyRow DEF RemoveItem, Owners, TypeOK
    <2>2. items' \in [Carts -> [Skus -> 0..MaxQty]]
      BY <1>4, Numbers DEF RemoveItem, TypeOK
    <2> QED
      BY <1>4, <2>1, <2>2, RefreshedType DEF RemoveItem, TypeOK
  <1>5. ASSUME NEW k \in Carts, NEW o \in Orders, Checkout(k, o) PROVE TypeOK'
    <2>1. now + PaymentTTL \in Nat
      BY Numbers DEF TypeOK
    <2>2. resv' \in [Owners -> [Skus -> Rows]]
      BY <1>5, <2>1, TransferredType DEF Checkout
    <2>3. order' \in [Orders -> OrderRecords]
      BY <1>5, <2>1 DEF Checkout, OrderRecords, OrderStates, TypeOK
    <2>4. cart' \in [Carts -> CartRecords] /\ payment' \in [Orders -> MoneyStates]
      BY <1>5 DEF Checkout, CartRecords, MoneyStates, TypeOK
    <2> QED
      BY <1>5, <2>2, <2>3, <2>4 DEF Checkout, TypeOK
  <1>6. ASSUME NEW o \in Orders, PaymentFails(o) PROVE TypeOK'
    BY <1>6 DEF PaymentFails, TypeOK, MoneyStates
  <1>7. ASSUME NEW o \in Orders, PaymentConfirms(o) PROVE TypeOK'
    <2>1. order' \in [Orders -> OrderRecords]
      BY <1>7, TransitionedType DEF PaymentConfirms, NextOrderState
    <2>2. stock' \in [Skus -> Nat \union {Unlimited}]
      BY <1>7 DEF PaymentConfirms, Consumed, CanConsume, TypeOK, Rows, Owners
    <2>3. payment' \in [Orders -> MoneyStates]
      BY <1>7 DEF PaymentConfirms, TypeOK, MoneyStates
    <2> QED
      BY <1>7, <2>1, <2>2, <2>3, ReleasedType DEF PaymentConfirms, TypeOK
  <1>8. ASSUME NEW o \in Orders, PaymentConfirmsTooLate(o) PROVE TypeOK'
    BY <1>8 DEF PaymentConfirmsTooLate, TypeOK, MoneyStates
  <1>9. ASSUME NEW o \in Orders, RefundFails(o) PROVE TypeOK'
    BY <1>9 DEF RefundFails, TypeOK, MoneyStates
  <1>10. ASSUME NEW o \in Orders, RefundConfirms(o) PROVE TypeOK'
    <2>1. Transitioned(o, "refund_confirmed") \in [Orders -> OrderRecords]
      BY TransitionedType DEF NextOrderState
    <2> QED
      BY <1>10, <2>1 DEF RefundConfirms, TypeOK, MoneyStates
  <1>11. ASSUME NEW o \in Orders, Cancel(o) PROVE TypeOK'
    <2>1. Transitioned(o, "cancel") \in [Orders -> OrderRecords]
      BY TransitionedType DEF NextOrderState
    <2> QED
      BY <1>11, <2>1, ReleasedType DEF Cancel, TypeOK
  <1>12. ASSUME NEW o \in Orders, Process(o) PROVE TypeOK'
    <2>1. Transitioned(o, "process") \in [Orders -> OrderRecords]
      BY TransitionedType DEF NextOrderState
    <2> QED
      BY <1>12, <2>1 DEF Process, TypeOK
  <1>13. ASSUME NEW o \in Orders, Ship(o) PROVE TypeOK'
    <2>1. Transitioned(o, "ship") \in [Orders -> OrderRecords]
      BY TransitionedType DEF NextOrderState
    <2>2. [Transitioned(o, "ship") EXCEPT ![o].shipped = TRUE] \in [Orders -> OrderRecords]
      BY <2>1 DEF OrderRecords
    <2> QED
      BY <1>13, <2>2 DEF Ship, TypeOK
  <1>14. ASSUME NEW o \in Orders, Deliver(o) PROVE TypeOK'
    <2>1. Transitioned(o, "deliver") \in [Orders -> OrderRecords]
      BY TransitionedType DEF NextOrderState
    <2> QED
      BY <1>14, <2>1 DEF Deliver, TypeOK
  <1>15. ASSUME NEW o \in Orders, RequestRefund(o) PROVE TypeOK'
    BY <1>15 DEF RequestRefund, TypeOK, MoneyStates
  <1>16. ASSUME NEW ks \in SUBSET Carts, NEW os \in SUBSET Orders, ExpirationPass(ks, os)
         PROVE  TypeOK'
    <2>1. order' \in [Orders -> OrderRecords]
      BY ZenonT(30), <1>16 DEF ExpirationPass, NextOrderState, OrderRecords, OrderStates, TypeOK
    <2> QED
      BY <1>16, <2>1, ExpiredType, ReleasedType DEF ExpirationPass, TypeOK
  <1>17. ASSUME NEW s \in Skus, ToggleSku(s) PROVE TypeOK'
    BY <1>17 DEF ToggleSku, TypeOK
  <1>18. ASSUME NEW s \in Skus, NEW quantity \in (0..MaxStock) \union {Unlimited},
                CorrectStock(s, quantity)
         PROVE  TypeOK'
    BY <1>18, Numbers DEF CorrectStock, TypeOK
  <1>19. CASE Tick
    BY <1>19 DEF Tick, TypeOK
  <1>20. CASE UNCHANGED vars
    BY <1>20 DEF vars, TypeOK
  <1> QED
    BY <1>1, <1>2, <1>3, <1>4, <1>5, <1>6, <1>7, <1>8, <1>9, <1>10, <1>11, <1>12,
       <1>13, <1>14, <1>15, <1>16, <1>17, <1>18, <1>19, <1>20, StepCases
    DEF WebhookStep, AdminStep

\* Every variable keeps the shape of its table in every reachable state.
THEOREM Typing == Spec => []TypeOK
  BY TypeInit, TypeStep, PTL DEF Spec

-----------------------------------------------------------------------------
LEMMA OwnersDisjoint ==
  /\ Carts \subseteq Owners /\ Orders \subseteq Owners
  /\ \A k \in Carts, o \in Orders : k # o
  BY SetsAssumption DEF Owners

LEMMA ReleasedRows ==
  ASSUME NEW owners, NEW o \in Owners, NEW s \in Skus
  PROVE  Released(owners)[o][s] = IF o \in owners THEN NoRow ELSE resv[o][s]
  BY DEF Released

LEMMA TransferredRows ==
  ASSUME TypeOK, NEW k \in Carts, NEW o \in Orders, NEW deadline
  PROVE  \A x \in Owners, s \in Skus :
           Transferred(k, o, deadline)[x][s] =
             IF x = k THEN NoRow
             ELSE IF x = o THEN IF resv[k][s].qty > 0
                                THEN [qty |-> resv[k][s].qty, expires |-> deadline]
                                ELSE NoRow
             ELSE resv[x][s]
  BY OwnersDisjoint DEF Transferred, TypeOK

\* The state machine's table, entry by entry.
LEMMA Table ==
  /\ NextOrderState["payment_confirmed"] = [from |-> {"pending_payment"}, to |-> "paid"]
  /\ NextOrderState["payment_expired"] = [from |-> {"pending_payment"}, to |-> "payment_expired"]
  /\ NextOrderState["cancel"] = [from |-> {"pending_payment"}, to |-> "cancelled"]
  /\ NextOrderState["process"] = [from |-> {"paid"}, to |-> "processing"]
  /\ NextOrderState["ship"] = [from |-> {"processing"}, to |-> "shipped"]
  /\ NextOrderState["deliver"] = [from |-> {"shipped"}, to |-> "delivered"]
  /\ NextOrderState["refund_confirmed"] =
       [from |-> {"paid", "processing", "shipped", "delivered"}, to |-> "refunded"]
  /\ DOMAIN NextOrderState =
       {"payment_confirmed", "payment_expired", "cancel", "process", "ship", "deliver",
        "refund_confirmed"}
  BY DEF NextOrderState

LEMMA TransitionedRows ==
  ASSUME TypeOK, NEW o \in Orders, NEW action, NEW p \in Orders
  PROVE  /\ Transitioned(o, action)[p].state =
              IF p = o THEN NextOrderState[action].to ELSE order[p].state
         /\ Transitioned(o, action)[p].cart = order[p].cart
         /\ Transitioned(o, action)[p].deadline = order[p].deadline
  BY DEF Transitioned, TypeOK, OrderRecords

\* What Process, Ship and Deliver do to the order table.
LEMMA FulfilledRows ==
  ASSUME TypeOK, NEW o \in Orders, Process(o) \/ Ship(o) \/ Deliver(o)
  PROVE  /\ order[o].state \in {"paid", "processing", "shipped"}
         /\ order'[o].state \in {"processing", "shipped", "delivered"}
         /\ \A p \in Orders :
              /\ p # o => order'[p].state = order[p].state
              /\ order'[p].cart = order[p].cart
              /\ order'[p].deadline = order[p].deadline
  <1>1. CASE Process(o)
    BY <1>1, TransitionedRows, Table DEF Process, Allowed
  <1>2. CASE Ship(o)
    <2>1. order' = [Transitioned(o, "ship") EXCEPT ![o].shipped = TRUE]
      BY <1>2 DEF Ship
    <2>2. Transitioned(o, "ship") \in [Orders -> OrderRecords]
      BY TransitionedType, Table
    <2>3. \A p \in Orders :
            /\ order'[p].state = Transitioned(o, "ship")[p].state
            /\ order'[p].cart = Transitioned(o, "ship")[p].cart
            /\ order'[p].deadline = Transitioned(o, "ship")[p].deadline
      BY <2>1, <2>2 DEF OrderRecords
    <2> QED
      BY <1>2, <2>3, TransitionedRows, Table DEF Ship, Allowed
  <1>3. CASE Deliver(o)
    BY <1>3, TransitionedRows, Table DEF Deliver, Allowed
  <1> QED
    BY <1>1, <1>2, <1>3

LEMMA CheckoutRows ==
  ASSUME TypeOK, NEW k \in Carts, NEW o \in Orders, Checkout(k, o), NEW s \in Skus
  PROVE  /\ resv'[k][s] = NoRow
         /\ resv[k][s].qty > 0 =>
              resv'[o][s] = [qty |-> resv[k][s].qty, expires |-> now + PaymentTTL]
         /\ ~(resv[k][s].qty > 0) => resv'[o][s] = NoRow
         /\ \A x \in Owners \ {k, o} : resv'[x][s] = resv[x][s]
  <1>1. resv' = Transferred(k, o, now + PaymentTTL)
    BY DEF Checkout
  <1>2. \A x \in Owners :
           resv'[x][s] = IF x = k THEN NoRow
                         ELSE IF x = o THEN IF resv[k][s].qty > 0
                                            THEN [qty |-> resv[k][s].qty,
                                                  expires |-> now + PaymentTTL]
                                            ELSE NoRow
                         ELSE resv[x][s]
    BY <1>1, TransferredRows
  <1> QED
    BY <1>2, OwnersDisjoint

LEMMA CheckoutCart ==
  ASSUME TypeOK, NEW k \in Carts, NEW o \in Orders, Checkout(k, o)
  PROVE  /\ \A j \in Carts : j # k => cart'[j] = cart[j]
         /\ cart'[k].status = "checked_out" /\ cart'[k].expires = cart[k].expires
  BY DEF Checkout, TypeOK, CartRecords

LEMMA CheckoutOrder ==
  ASSUME TypeOK, NEW k \in Carts, NEW o \in Orders, Checkout(k, o)
  PROVE  /\ \A p \in Orders : p # o => order'[p] = order[p]
         /\ order[o].state = "absent"
         /\ order'[o].state = "pending_payment" /\ order'[o].cart = k
         /\ order'[o].deadline = now + PaymentTTL
  BY DEF Checkout, TypeOK

LEMMA HoldersInit == Init => OnlyOpenOwnersHold
  BY OwnersDisjoint DEF Init, OnlyOpenOwnersHold, NoRow

LEMMA HoldersStep ==
  TypeOK /\ OnlyOpenOwnersHold /\ [Next]_vars => OnlyOpenOwnersHold'
  <1> SUFFICES ASSUME TypeOK, OnlyOpenOwnersHold, [Next]_vars
               PROVE  OnlyOpenOwnersHold'
    OBVIOUS
  <1> USE OwnersDisjoint DEF OnlyOpenOwnersHold, Active
  <1>1. ASSUME NEW k \in Carts, CreateCart(k[1], k) PROVE OnlyOpenOwnersHold'
    BY <1>1 DEF CreateCart, Refreshed, TypeOK
  <1>2. ASSUME NEW k \in Carts, ExpireOnAccess(k) PROVE OnlyOpenOwnersHold'
    BY <1>2, ReleasedRows DEF ExpireOnAccess, Expired, NoRow
  <1>3. ASSUME NEW k \in Carts, NEW s \in Skus, NEW desired \in 0..MaxQty,
               SetQuantity(k[1], k, s, desired)
        PROVE  OnlyOpenOwnersHold'
    BY <1>3 DEF SetQuantity, Refreshed, TypeOK
  <1>4. ASSUME NEW k \in Carts, NEW s \in Skus, RemoveItem(k[1], k, s)
        PROVE  OnlyOpenOwnersHold'
    BY <1>4 DEF RemoveItem, Refreshed, TypeOK
  <1>5. ASSUME NEW k \in Carts, NEW o \in Orders, Checkout(k, o)
        PROVE  OnlyOpenOwnersHold'
    <2>1. ~(NoRow.qty > 0)
      BY DEF NoRow
    <2>2. ASSUME NEW x \in Owners, NEW s \in Skus, resv'[x][s].qty > 0
          PROVE  x # k /\ (x = o \/ resv[x][s].qty > 0)
      <3>1. resv'[k][s] = NoRow /\ \A y \in Owners \ {k, o} : resv'[y][s] = resv[y][s]
        BY <1>5, CheckoutRows
      <3> QED
        BY <2>1, <2>2, <3>1
    <2> QED
      BY <1>5, <2>2, CheckoutCart, CheckoutOrder
  <1>6. ASSUME NEW o \in Orders, WebhookStep(o) PROVE OnlyOpenOwnersHold'
    <2>1. CASE PaymentConfirms(o)
      BY <2>1, ReleasedRows, TransitionedRows DEF PaymentConfirms, NoRow
    <2>2. CASE RefundConfirms(o)
      <3>1. CASE Allowed(o, "refund_confirmed")
        <4>1. order[o].state # "pending_payment"
          BY <3>1, Table DEF Allowed
        <4> QED
          BY <2>2, <3>1, <4>1, TransitionedRows DEF RefundConfirms
      <3>2. CASE ~Allowed(o, "refund_confirmed")
        BY <2>2, <3>2 DEF RefundConfirms
      <3> QED
        BY <3>1, <3>2
    <2> QED
      BY <1>6, <2>1, <2>2
      DEF WebhookStep, PaymentFails, PaymentConfirmsTooLate, RefundFails
  <1>7. ASSUME NEW o \in Orders, AdminStep(o) PROVE OnlyOpenOwnersHold'
    <2>1. CASE Cancel(o)
      BY <2>1, ReleasedRows, TransitionedRows DEF Cancel, NoRow
    <2>2. CASE Process(o) \/ Ship(o) \/ Deliver(o)
      BY <2>2, FulfilledRows DEF Process, Ship, Deliver
    <2> QED
      BY <1>7, <2>1, <2>2 DEF AdminStep, RequestRefund
  <1>8. ASSUME NEW ks \in SUBSET Carts, NEW os \in SUBSET Orders, ExpirationPass(ks, os)
        PROVE  OnlyOpenOwnersHold'
    BY <1>8, ReleasedRows DEF ExpirationPass, Expired, NoRow
  <1>9. CASE \E s \in Skus : ToggleSku(s)
    BY <1>9 DEF ToggleSku
  <1>10. CASE \E s \in Skus, quantity \in (0..MaxStock) \union {Unlimited} :
                CorrectStock(s, quantity)
    BY <1>10 DEF CorrectStock
  <1>11. CASE Tick \/ UNCHANGED vars
    BY <1>11 DEF Tick, vars
  <1> QED
    BY <1>1, <1>2, <1>3, <1>4, <1>5, <1>6, <1>7, <1>8, <1>9, <1>10, <1>11, StepCases

\* Stock is held only for active carts and orders awaiting payment.
THEOREM HoldersAreOpen == Spec => []OnlyOpenOwnersHold
  BY Typing, HoldersInit, HoldersStep, PTL DEF Spec

-----------------------------------------------------------------------------
\* CapturedMoneyAccounted is not inductive: a late confirmation must find the
\* order unpaid, so every paid order has to have its money already.
MoneyLedger ==
  \A o \in Orders :
    /\ order[o].state = "absent" => payment[o] = "none"
    /\ order[o].state \in PaidStates => payment[o] = "confirmed"
    /\ o \in reconcile <=> payment[o] = "confirmed" /\ order[o].state \notin PaidStates

LEMMA LedgerInit == Init => MoneyLedger /\ RefundMatchesOrder
  BY DEF Init, MoneyLedger, RefundMatchesOrder, NoOrder, PaidStates

LEMMA LedgerStep ==
  TypeOK /\ MoneyLedger /\ RefundMatchesOrder /\ [Next]_vars
    => MoneyLedger' /\ RefundMatchesOrder'
  <1> SUFFICES ASSUME TypeOK, MoneyLedger, RefundMatchesOrder, [Next]_vars
               PROVE  MoneyLedger' /\ RefundMatchesOrder'
    OBVIOUS
  <1> DEFINE Kept == MoneyLedger' /\ RefundMatchesOrder'
  <1> USE DEF MoneyLedger, RefundMatchesOrder, PaidStates
  <1>1. ASSUME NEW k \in Carts, NEW o \in Orders, Checkout(k, o) PROVE Kept
    <2>1. /\ payment'[o] = "pending" /\ \A p \in Orders : p # o => payment'[p] = payment[p]
          /\ refund' = refund /\ reconcile' = reconcile
      BY <1>1 DEF Checkout, TypeOK
    <2>2. order'[o].state = "pending_payment" /\ order[o].state = "absent"
      BY <1>1, CheckoutOrder
    <2>3. \A p \in Orders : p # o => order'[p].state = order[p].state
      BY <1>1, CheckoutOrder
    <2> QED
      BY <2>1, <2>2, <2>3
  <1>2. ASSUME NEW o \in Orders, PaymentFails(o) PROVE Kept
    BY <1>2 DEF PaymentFails, Applies, TypeOK
  <1>3. ASSUME NEW o \in Orders, PaymentConfirms(o) PROVE Kept
    <2>1. order[o].state = "pending_payment" /\ payment[o] # "confirmed"
      BY <1>3, Table DEF PaymentConfirms, Allowed, Applies
    <2>2. order'[o].state = "paid" /\ \A p \in Orders : p # o => order'[p].state = order[p].state
      BY <1>3, Table, TransitionedRows DEF PaymentConfirms
    <2> QED
      BY <1>3, <2>1, <2>2 DEF PaymentConfirms, TypeOK
  <1>4. ASSUME NEW o \in Orders, PaymentConfirmsTooLate(o) PROVE Kept
    BY <1>4 DEF PaymentConfirmsTooLate, Applies, TypeOK
  <1>5. ASSUME NEW o \in Orders, RefundFails(o) PROVE Kept
    BY <1>5 DEF RefundFails, Applies, TypeOK
  <1>6. ASSUME NEW o \in Orders, RefundConfirms(o) PROVE Kept
    <2>1. order[o].state \in PaidStates \ {"refunded"}
      BY <1>6 DEF RefundConfirms, Applies
    <2>2. Allowed(o, "refund_confirmed")
      BY <2>1, Table DEF Allowed
    <2>3. /\ order'[o].state = "refunded"
          /\ \A p \in Orders : p # o => order'[p].state = order[p].state
      BY <1>6, <2>2, Table, TransitionedRows DEF RefundConfirms
    <2>4. reconcile' = reconcile /\ payment' = payment
      BY <1>6, <2>2 DEF RefundConfirms
    <2>5. /\ refund'[o] = "confirmed"
          /\ \A p \in Orders : p # o => refund'[p] = refund[p]
      BY <1>6 DEF RefundConfirms, TypeOK
    <2>6. MoneyLedger'
      BY <2>1, <2>3, <2>4
    <2>7. RefundMatchesOrder'
      BY <2>1, <2>3, <2>5
    <2> QED
      BY <2>6, <2>7
  <1>7. ASSUME NEW o \in Orders, Cancel(o) PROVE Kept
    <2>1. order[o].state = "pending_payment"
      BY <1>7, Table DEF Cancel, Allowed
    <2>2. /\ order'[o].state = "cancelled"
          /\ \A p \in Orders : p # o => order'[p].state = order[p].state
      BY <1>7, Table, TransitionedRows DEF Cancel
    <2> QED
      BY <1>7, <2>1, <2>2 DEF Cancel
  <1>8. ASSUME NEW o \in Orders, Process(o) \/ Ship(o) \/ Deliver(o) PROVE Kept
    BY <1>8, FulfilledRows DEF Process, Ship, Deliver
  <1>9. ASSUME NEW o \in Orders, RequestRefund(o) PROVE Kept
    <2>1. order[o].state \in PaidStates
      BY <1>9, Table DEF RequestRefund, Allowed
    <2> QED
      BY <1>9, <2>1 DEF RequestRefund, TypeOK
  <1>10. ASSUME NEW ks \in SUBSET Carts, NEW os \in SUBSET Orders, ExpirationPass(ks, os)
         PROVE  Kept
    <2>1. \A o \in os : order[o].state = "pending_payment"
      BY <1>10 DEF ExpirationPass, OrderBatch, IsBatch, Overdue
    <2>2. \A o \in Orders : order'[o].state = IF o \in os THEN "payment_expired"
                                              ELSE order[o].state
      BY <1>10, Table DEF ExpirationPass, TypeOK, OrderRecords
    <2> QED
      BY <1>10, <2>1, <2>2 DEF ExpirationPass
  <1>11. ASSUME UNCHANGED <<order, payment, refund, reconcile>> PROVE Kept
    BY <1>11
  <1> QED
    BY <1>1, <1>2, <1>3, <1>4, <1>5, <1>6, <1>7, <1>8, <1>9, <1>10, <1>11, StepCases
    DEF WebhookStep, AdminStep, CreateCart, ExpireOnAccess, SetQuantity, RemoveItem,
        ToggleSku, CorrectStock, Tick, vars

\* Captured money either paid its order or is flagged for reconciliation.
THEOREM MoneyIsAccounted == Spec => []CapturedMoneyAccounted
  <1>1. MoneyLedger => CapturedMoneyAccounted
    BY DEF MoneyLedger, CapturedMoneyAccounted
  <1> QED
    BY <1>1, Typing, LedgerInit, LedgerStep, PTL DEF Spec

\* An order is refunded exactly when the provider confirmed its refund.
THEOREM RefundsMatch == Spec => []RefundMatchesOrder
  BY Typing, LedgerInit, LedgerStep, PTL DEF Spec

\* Money and state of an order tell the same story, for any customers, keys and
\* bounds and whatever the order of the provider's events.
THEOREM MoneyFollows == Spec => []MoneyFollowsOrders
  <1>1. CapturedMoneyAccounted /\ RefundMatchesOrder => MoneyFollowsOrders
    BY DEF MoneyFollowsOrders
  <1> QED
    BY <1>1, MoneyIsAccounted, RefundsMatch, PTL

-----------------------------------------------------------------------------
\* CheckedOutOnce is not inductive either: a checkout may not overwrite the
\* cart of an order that was there before.
CartsOrdered ==
  /\ CheckedOutOnce
  /\ \A o \in Orders : order[o].state = "absent" => order[o].cart \notin Carts

LEMMA NoCartYet == <<>> \notin Carts
  BY DEF Carts

LEMMA CheckedOutInit == Init => CartsOrdered
  BY NoCartYet DEF Init, CartsOrdered, CheckedOutOnce, NoOrder

\* The steps that check no cart out and place no order.
LEMMA CartsKept ==
  ASSUME TypeOK, CartsOrdered,
         \A k \in Carts : cart'[k].status = "checked_out" <=> cart[k].status = "checked_out",
         \A o \in Orders :
           /\ order'[o].cart = order[o].cart
           /\ order'[o].state = "absent" => order[o].state = "absent"
  PROVE  CartsOrdered'
  <1>1. ASSUME NEW k \in Carts
        PROVE  cart'[k].status = "checked_out" <=> \E o \in Orders : order'[o].cart = k
    BY DEF CheckedOutOnce, CartsOrdered
  <1>2. ASSUME NEW k \in Carts, NEW o \in Orders, NEW p \in Orders,
               order'[o].cart = k /\ order'[p].cart = k
        PROVE  o = p
    BY <1>2 DEF CheckedOutOnce, CartsOrdered
  <1>3. ASSUME NEW o \in Orders, order'[o].state = "absent" PROVE order'[o].cart \notin Carts
    BY <1>3 DEF CartsOrdered
  <1> QED
    BY <1>1, <1>2, <1>3 DEF CheckedOutOnce, CartsOrdered

LEMMA CheckedOutStep ==
  TypeOK /\ CartsOrdered /\ [Next]_vars => CartsOrdered'
  <1> SUFFICES ASSUME TypeOK, CartsOrdered, [Next]_vars PROVE CartsOrdered'
    OBVIOUS
  <1> DEFINE SameCarts ==
        \A k \in Carts : cart'[k].status = "checked_out" <=> cart[k].status = "checked_out"
             SameOrders ==
        \A o \in Orders :
          /\ order'[o].cart = order[o].cart
          /\ order'[o].state = "absent" => order[o].state = "absent"
  <1>1. ASSUME NEW k \in Carts, OpenCart(k[1], k), cart' = Refreshed(k) PROVE SameCarts
    BY <1>1 DEF OpenCart, Active, Refreshed, TypeOK, CartRecords
  <1>2. ASSUME NEW ks, \A k \in Carts \intersect ks : cart[k].status = "active",
               cart' = Expired(ks)
        PROVE  SameCarts
    BY <1>2 DEF Expired, TypeOK, CartRecords
  <1>3. ASSUME NEW k \in Carts, NEW o \in Orders, Checkout(k, o) PROVE CartsOrdered'
    <2>1. \A p \in Orders : order[p].cart # k
      BY <1>3 DEF Checkout, Active, CheckedOutOnce, CartsOrdered
    <2>2. order[o].cart \notin Carts
      BY <1>3, CheckoutOrder DEF CartsOrdered
    <2>3. /\ cart'[k].status = "checked_out"
          /\ \A j \in Carts : j # k => cart'[j] = cart[j]
      BY <1>3, CheckoutCart
    <2>4. /\ order'[o].cart = k /\ order'[o].state # "absent"
          /\ \A p \in Orders : p # o => order'[p] = order[p]
      BY <1>3, CheckoutOrder
    <2>5. CheckedOutOnce'
      BY <2>1, <2>2, <2>3, <2>4 DEF CheckedOutOnce, CartsOrdered
    <2> QED
      BY <2>4, <2>5 DEF CartsOrdered
  <1> HIDE DEF SameCarts, SameOrders
  <1>4. ASSUME NEW k \in Carts,
               \/ CreateCart(k[1], k)
               \/ ExpireOnAccess(k)
               \/ \E s \in Skus, desired \in 0..MaxQty : SetQuantity(k[1], k, s, desired)
               \/ \E s \in Skus : RemoveItem(k[1], k, s)
        PROVE  SameCarts /\ SameOrders
    <2>1. SameOrders
      BY <1>4 DEF SameOrders, CreateCart, ExpireOnAccess, SetQuantity, RemoveItem
    <2>2. CASE ExpireOnAccess(k)
      BY <1>2, <2>1, <2>2 DEF ExpireOnAccess, Lapsed, Active
    <2>3. CASE ~ExpireOnAccess(k)
      BY <1>1, <1>4, <2>1, <2>3 DEF CreateCart, SetQuantity, RemoveItem
    <2> QED
      BY <2>2, <2>3
  <1>5. ASSUME NEW o \in Orders, WebhookStep(o) PROVE SameCarts /\ SameOrders
    BY <1>5, TransitionedRows, Table
    DEF SameCarts, SameOrders, WebhookStep, PaymentFails, PaymentConfirms,
        PaymentConfirmsTooLate, RefundFails, RefundConfirms
  <1>6. ASSUME NEW o \in Orders, AdminStep(o) PROVE SameCarts /\ SameOrders
    BY <1>6, TransitionedRows, FulfilledRows, Table
    DEF SameCarts, SameOrders, AdminStep, Cancel, Process, Ship, Deliver, RequestRefund
  <1>7. ASSUME NEW ks \in SUBSET Carts, NEW os \in SUBSET Orders, ExpirationPass(ks, os)
        PROVE  SameCarts /\ SameOrders
    <2>1. SameOrders
      BY <1>7, Table DEF SameOrders, ExpirationPass, TypeOK, OrderRecords
    <2> QED
      BY <1>2, <1>7, <2>1 DEF ExpirationPass, CartBatch, IsBatch, Lapsed, Active
  <1>8. ASSUME UNCHANGED <<cart, order>> PROVE SameCarts /\ SameOrders
    BY <1>8 DEF SameCarts, SameOrders
  <1>9. SameCarts /\ SameOrders => CartsOrdered'
    BY CartsKept DEF SameCarts, SameOrders
  <1> QED
    BY <1>3, <1>4, <1>5, <1>6, <1>7, <1>8, <1>9, StepCases
    DEF ToggleSku, CorrectStock, Tick, vars

\* A cart becomes at most one order, whatever keys its checkouts carry.
THEOREM OneOrderPerCart == Spec => []CheckedOutOnce
  <1>1. CartsOrdered => CheckedOutOnce
    BY DEF CartsOrdered
  <1> QED
    BY <1>1, Typing, CheckedOutInit, CheckedOutStep, PTL DEF Spec

-----------------------------------------------------------------------------
\* What a cart command does to its line, to the line's row and to the cart.
LEMMA LineEffect ==
  ASSUME TypeOK, NEW k \in Carts, NEW s \in Skus, NEW row, NEW desired,
         resv' = [resv EXCEPT ![k][s] = row],
         items' = [items EXCEPT ![k][s] = desired],
         cart' = Refreshed(k)
  PROVE  /\ resv'[k][s] = row
         /\ \A x \in Owners, y \in Skus : x # k \/ y # s => resv'[x][y] = resv[x][y]
         /\ items'[k][s] = desired
         /\ \A j \in Carts, y \in Skus : j # k \/ y # s => items'[j][y] = items[j][y]
         /\ cart'[k] = [status |-> "active", expires |-> now + CartTTL]
         /\ \A j \in Carts : j # k => cart'[j] = cart[j]
  <1>1. /\ resv'[k][s] = row
        /\ \A x \in Owners, y \in Skus : x # k \/ y # s => resv'[x][y] = resv[x][y]
    BY OwnersDisjoint DEF TypeOK
  <1>2. /\ items'[k][s] = desired
        /\ \A j \in Carts, y \in Skus : j # k \/ y # s => items'[j][y] = items[j][y]
    BY DEF TypeOK
  <1>3. /\ cart'[k] = [status |-> "active", expires |-> now + CartTTL]
        /\ \A j \in Carts : j # k => cart'[j] = cart[j]
    BY DEF Refreshed, TypeOK
  <1> QED
    BY <1>1, <1>2, <1>3

LEMMA OpenIsNotOrdered ==
  ASSUME TypeOK, CheckedOutOnce, NEW k \in Carts, OpenCart(k[1], k), NEW o \in Orders
  PROVE  order[o].cart # k
  BY DEF OpenCart, Active, CheckedOutOnce

\* The rows' invariant: RowsMatchLines reads the lines of an order's cart, so
\* an order that holds a row must have one.
RowsLedger ==
  /\ RowsMatchLines
  /\ \A o \in Orders, s \in Skus : resv[o][s].qty > 0 => order[o].cart \in Carts

LEMMA RowsInit == Init => RowsLedger
  BY OwnersDisjoint DEF Init, RowsLedger, RowsMatchLines, NoRow

LEMMA LineKeepsRows ==
  ASSUME TypeOK, CheckedOutOnce, RowsLedger, NEW k \in Carts, NEW s \in Skus,
         NEW row \in Rows, NEW desired \in 0..MaxQty, OpenCart(k[1], k),
         row.qty \in {0, desired},
         resv' = [resv EXCEPT ![k][s] = row],
         items' = [items EXCEPT ![k][s] = desired],
         cart' = Refreshed(k), order' = order
  PROVE  RowsLedger'
  <1>1. ASSUME NEW j \in Carts, NEW y \in Skus PROVE resv'[j][y].qty \in {0, items'[j][y]}
    <2>1. CASE j = k /\ y = s
      <3>1. resv'[k][s] = row /\ items'[k][s] = desired
        BY OwnersDisjoint DEF TypeOK
      <3> QED
        BY <2>1, <3>1
    <2>2. CASE j # k \/ y # s
      <3>1. resv'[j][y] = resv[j][y] /\ items'[j][y] = items[j][y]
        BY <2>2, LineEffect, OwnersDisjoint
      <3> QED
        BY <3>1 DEF RowsLedger, RowsMatchLines
    <2> QED
      BY <2>1, <2>2
  <1>2. ASSUME NEW o \in Orders, NEW y \in Skus, resv'[o][y].qty > 0
        PROVE  /\ resv'[o][y] = [qty |-> items'[order'[o].cart][y],
                                 expires |-> order'[o].deadline]
               /\ order'[o].cart \in Carts
    <2>1. resv'[o][y] = resv[o][y]
      BY LineEffect, OwnersDisjoint
    <2>2. order[o].cart \in Carts \ {k}
      BY <1>2, <2>1, OpenIsNotOrdered DEF RowsLedger
    <2>3. items'[order[o].cart][y] = items[order[o].cart][y]
      BY <2>2, LineEffect
    <2>4. resv[o][y] = [qty |-> items[order[o].cart][y], expires |-> order[o].deadline]
      BY <1>2, <2>1 DEF RowsLedger, RowsMatchLines
    <2>5. order'[o] = order[o]
      OBVIOUS
    <2> QED
      BY <2>1, <2>2, <2>3, <2>4, <2>5
  <1> QED
    BY <1>1, <1>2 DEF RowsLedger, RowsMatchLines

LEMMA CheckoutKeepsRows ==
  ASSUME TypeOK, RowsLedger, NEW k \in Carts, NEW o \in Orders, Checkout(k, o)
  PROVE  RowsLedger'
  <1>1. ~(NoRow.qty > 0) /\ NoRow.qty = 0
    BY DEF NoRow
  <1>2. items' = items
    BY DEF Checkout
  <1>3. ASSUME NEW j \in Carts, NEW s \in Skus PROVE resv'[j][s].qty \in {0, items'[j][s]}
    <2>1. resv'[k][s] = NoRow /\ \A x \in Owners \ {k, o} : resv'[x][s] = resv[x][s]
      BY CheckoutRows
    <2>2. CASE j = k
      BY <1>1, <2>1, <2>2
    <2>3. CASE j # k
      <3>1. resv'[j][s] = resv[j][s]
        BY <2>1, <2>3, OwnersDisjoint
      <3> QED
        BY <1>2, <3>1 DEF RowsLedger, RowsMatchLines
    <2> QED
      BY <2>2, <2>3
  <1>4. ASSUME NEW p \in Orders, NEW s \in Skus, resv'[p][s].qty > 0
        PROVE  /\ resv'[p][s] = [qty |-> items'[order'[p].cart][s],
                                 expires |-> order'[p].deadline]
               /\ order'[p].cart \in Carts
    <2>1. CASE p = o
      <3>1. resv[k][s].qty > 0
        BY <1>1, <1>4, <2>1, CheckoutRows
      <3>2. resv'[o][s] = [qty |-> resv[k][s].qty, expires |-> now + PaymentTTL]
        BY <3>1, CheckoutRows
      <3>3. order'[o].cart = k /\ order'[o].deadline = now + PaymentTTL
        BY CheckoutOrder
      <3>4. resv[k][s].qty = items[k][s]
        BY <3>1 DEF RowsLedger, RowsMatchLines
      <3> QED
        BY <1>2, <2>1, <3>2, <3>3, <3>4
    <2>2. CASE p # o
      <3>0. p \in Owners \ {k, o}
        BY <2>2, OwnersDisjoint
      <3>1. resv'[p][s] = resv[p][s]
        BY <3>0, CheckoutRows
      <3>2. order'[p] = order[p]
        BY <2>2, CheckoutOrder
      <3> QED
        BY <1>2, <1>4, <3>1, <3>2 DEF RowsLedger, RowsMatchLines
    <2> QED
      BY <2>1, <2>2
  <1> QED
    BY <1>3, <1>4 DEF RowsLedger, RowsMatchLines

\* The steps that only take rows away, from whichever owners.
LEMMA ReleaseKeepsRows ==
  ASSUME TypeOK, RowsLedger, NEW owners, items' = items,
         resv' = resv \/ resv' = Released(owners),
         \A o \in Orders : order'[o].cart = order[o].cart /\ order'[o].deadline = order[o].deadline
  PROVE  RowsLedger'
  <1>1. ASSUME NEW x \in Owners, NEW s \in Skus
        PROVE  resv'[x][s] = NoRow \/ resv'[x][s] = resv[x][s]
    BY ReleasedRows
  <1>2. ~(NoRow.qty > 0) /\ NoRow.qty = 0
    BY DEF NoRow
  <1>3. ASSUME NEW k \in Carts, NEW s \in Skus PROVE resv'[k][s].qty \in {0, items'[k][s]}
    BY <1>1, <1>2, OwnersDisjoint DEF RowsLedger, RowsMatchLines
  <1>4. ASSUME NEW o \in Orders, NEW s \in Skus, resv'[o][s].qty > 0
        PROVE  /\ resv'[o][s] = [qty |-> items'[order'[o].cart][s],
                                 expires |-> order'[o].deadline]
               /\ order'[o].cart \in Carts
    <2>1. resv'[o][s] = resv[o][s]
      BY <1>1, <1>2, <1>4, OwnersDisjoint
    <2> QED
      BY <1>4, <2>1 DEF RowsLedger, RowsMatchLines
  <1> QED
    BY <1>3, <1>4 DEF RowsLedger, RowsMatchLines

LEMMA RowsStep ==
  TypeOK /\ CartsOrdered /\ RowsLedger /\ [Next]_vars => RowsLedger'
  <1> SUFFICES ASSUME TypeOK, CartsOrdered, RowsLedger, [Next]_vars PROVE RowsLedger'
    OBVIOUS
  <1>0. CheckedOutOnce
    BY DEF CartsOrdered
  <1>1. ASSUME NEW k \in Carts, NEW s \in Skus, NEW desired \in 0..MaxQty,
               SetQuantity(k[1], k, s, desired)
        PROVE  RowsLedger'
    <2>1. now + CartTTL \in Nat
      BY Numbers DEF TypeOK
    <2>2. /\ ReservedRow(s, desired, now + CartTTL) \in Rows
          /\ ReservedRow(s, desired, now + CartTTL).qty \in {0, desired}
      BY <2>1, EmptyRow DEF ReservedRow, Rows, NoRow
    <2> QED
      BY <1>0, <1>1, <2>2, LineKeepsRows DEF SetQuantity
  <1>2. ASSUME NEW k \in Carts, NEW s \in Skus, RemoveItem(k[1], k, s) PROVE RowsLedger'
    <2>1. NoRow.qty \in {0, 0} /\ 0 \in 0..MaxQty
      BY Numbers DEF NoRow
    <2> QED
      BY <1>0, <1>2, <2>1, EmptyRow, LineKeepsRows DEF RemoveItem
  <1>3. ASSUME NEW k \in Carts, NEW o \in Orders, Checkout(k, o) PROVE RowsLedger'
    BY <1>3, CheckoutKeepsRows
  <1>4. ASSUME NEW o \in Orders, WebhookStep(o) PROVE RowsLedger'
    BY <1>4, TransitionedRows, ReleaseKeepsRows
    DEF WebhookStep, PaymentFails, PaymentConfirms, PaymentConfirmsTooLate, RefundFails,
        RefundConfirms
  <1>5. ASSUME NEW o \in Orders, AdminStep(o) PROVE RowsLedger'
    BY <1>5, TransitionedRows, FulfilledRows, ReleaseKeepsRows
    DEF AdminStep, Cancel, Process, Ship, Deliver, RequestRefund
  <1>6. ASSUME NEW ks \in SUBSET Carts, NEW os \in SUBSET Orders, ExpirationPass(ks, os)
        PROVE  RowsLedger'
    <2>1. \A o \in Orders : order'[o].cart = order[o].cart /\ order'[o].deadline = order[o].deadline
      BY <1>6 DEF ExpirationPass, TypeOK, OrderRecords
    <2> QED
      BY <1>6, <2>1, ReleaseKeepsRows DEF ExpirationPass
  <1>7. ASSUME NEW k \in Carts, ExpireOnAccess(k) PROVE RowsLedger'
    BY <1>7, ReleaseKeepsRows DEF ExpireOnAccess
  <1>8. ASSUME UNCHANGED <<items, resv, order>> PROVE RowsLedger'
    BY <1>8, ReleaseKeepsRows
  <1> QED
    BY <1>1, <1>2, <1>3, <1>4, <1>5, <1>6, <1>7, <1>8, StepCases
    DEF CreateCart, ToggleSku, CorrectStock, Tick, vars

\* A row is as large as its line, and an order's rows lapse at its deadline.
THEOREM RowsFollowLines == Spec => []RowsMatchLines
  <1>1. RowsLedger => RowsMatchLines
    BY DEF RowsLedger
  <1> QED
    BY <1>1, Typing, CheckedOutInit, CheckedOutStep, RowsInit, RowsStep, PTL DEF Spec

-----------------------------------------------------------------------------
\* Not inductive alone: refreshing a cart may not bring its deadline forward.
CartDeadlines ==
  /\ CartOutlivesItsRows
  /\ \A k \in Carts : cart[k].expires <= now + CartTTL

LEMMA DeadlinesInit == Init => CartDeadlines
  BY OwnersDisjoint, Numbers DEF Init, CartDeadlines, CartOutlivesItsRows, NoRow

LEMMA LineKeepsDeadlines ==
  ASSUME TypeOK, CartDeadlines, NEW k \in Carts, NEW s \in Skus, NEW row \in Rows,
         NEW desired, row.expires <= now + CartTTL,
         resv' = [resv EXCEPT ![k][s] = row],
         items' = [items EXCEPT ![k][s] = desired],
         cart' = Refreshed(k), now' = now
  PROVE  CartDeadlines'
  <1>1. /\ resv'[k][s] = row
        /\ \A j \in Carts, y \in Skus : j # k \/ y # s => resv'[j][y] = resv[j][y]
    BY OwnersDisjoint DEF TypeOK
  <1>2. /\ cart'[k].expires = now + CartTTL
        /\ \A j \in Carts : j # k => cart'[j] = cart[j]
    BY DEF Refreshed, TypeOK
  <1>3. \A j \in Carts, y \in Skus : resv[j][y].expires \in Nat /\ cart[j].expires \in Nat
    BY OwnersDisjoint DEF TypeOK, Rows, CartRecords
  <1>4. now \in Nat /\ CartTTL \in Nat
    BY Numbers DEF TypeOK
  <1>5. ASSUME NEW j \in Carts, NEW y \in Skus PROVE resv'[j][y].expires <= cart'[j].expires
    <2>1. CASE j = k /\ y = s
      BY <1>1, <1>2, <2>1
    <2>2. CASE j = k /\ y # s
      <3>1. resv[k][y].expires <= cart[k].expires /\ cart[k].expires <= now + CartTTL
        BY DEF CartDeadlines, CartOutlivesItsRows
      <3> QED
        BY <1>1, <1>2, <1>3, <1>4, <2>2, <3>1
    <2>3. CASE j # k
      BY <1>1, <1>2, <2>3 DEF CartDeadlines, CartOutlivesItsRows
    <2> QED
      BY <2>1, <2>2, <2>3
  <1>6. ASSUME NEW j \in Carts PROVE cart'[j].expires <= now' + CartTTL
    BY <1>2, <1>4 DEF CartDeadlines
  <1> QED
    BY <1>5, <1>6 DEF CartDeadlines, CartOutlivesItsRows

\* The steps that add no row to a cart and leave the carts' deadlines alone.
LEMMA OthersKeepDeadlines ==
  ASSUME TypeOK, CartDeadlines, now' \in Nat, now <= now',
         \A k \in Carts : cart'[k].expires = cart[k].expires,
         \A k \in Carts, s \in Skus : resv'[k][s] \in {resv[k][s], NoRow}
  PROVE  CartDeadlines'
  <1>1. \A k \in Carts, s \in Skus : resv[k][s].expires \in Nat /\ cart[k].expires \in Nat
    BY OwnersDisjoint DEF TypeOK, Rows, CartRecords
  <1>2. now \in Nat /\ CartTTL \in Nat /\ NoRow.expires = 0
    BY Numbers DEF TypeOK, NoRow
  <1>3. ASSUME NEW k \in Carts, NEW s \in Skus PROVE resv'[k][s].expires <= cart'[k].expires
    <2>1. resv[k][s].expires <= cart[k].expires
      BY DEF CartDeadlines, CartOutlivesItsRows
    <2>2. resv'[k][s] = resv[k][s] \/ resv'[k][s] = NoRow
      OBVIOUS
    <2> QED
      BY <1>1, <1>2, <2>1, <2>2
  <1>4. ASSUME NEW k \in Carts PROVE cart'[k].expires <= now' + CartTTL
    <2>1. cart[k].expires <= now + CartTTL /\ cart[k].expires \in Nat
      BY DEF CartDeadlines, TypeOK, CartRecords
    <2> QED
      BY <1>2, <2>1
  <1> QED
    BY <1>3, <1>4 DEF CartDeadlines, CartOutlivesItsRows

LEMMA DeadlinesStep == TypeOK /\ CartDeadlines /\ [Next]_vars => CartDeadlines'
  <1> SUFFICES ASSUME TypeOK, CartDeadlines, [Next]_vars PROVE CartDeadlines'
    OBVIOUS
  <1>0. now \in Nat /\ CartTTL \in Nat /\ now + CartTTL \in Nat /\ now <= now
    BY Numbers DEF TypeOK
  <1>1. ASSUME NEW k \in Carts, NEW s \in Skus, NEW desired \in 0..MaxQty,
               SetQuantity(k[1], k, s, desired)
        PROVE  CartDeadlines'
    <2>1. /\ ReservedRow(s, desired, now + CartTTL) \in Rows
          /\ ReservedRow(s, desired, now + CartTTL).expires <= now + CartTTL
      BY <1>0, EmptyRow DEF ReservedRow, Rows, NoRow
    <2> QED
      BY <1>1, <2>1, LineKeepsDeadlines DEF SetQuantity
  <1>2. ASSUME NEW k \in Carts, NEW s \in Skus, RemoveItem(k[1], k, s) PROVE CartDeadlines'
    <2>1. NoRow.expires <= now + CartTTL
      BY <1>0 DEF NoRow
    <2> QED
      BY <1>2, <2>1, EmptyRow, LineKeepsDeadlines DEF RemoveItem
  <1>3. ASSUME NEW k \in Carts, CreateCart(k[1], k) PROVE CartDeadlines'
    <2>1. /\ cart'[k].expires = now + CartTTL
          /\ \A j \in Carts : j # k => cart'[j] = cart[j]
      BY <1>3 DEF CreateCart, Refreshed, TypeOK
    <2>2. \A s \in Skus : resv[k][s].expires \in Nat /\ cart[k].expires \in Nat
      BY OwnersDisjoint DEF TypeOK, Rows, CartRecords
    <2>3. resv' = resv /\ now' = now
      BY <1>3 DEF CreateCart
    <2> QED
      BY <1>0, <2>1, <2>2, <2>3 DEF CartDeadlines, CartOutlivesItsRows
  <1>4. ASSUME NEW k \in Carts, NEW o \in Orders, Checkout(k, o) PROVE CartDeadlines'
    <2>1. \A j \in Carts : cart'[j].expires = cart[j].expires
      BY <1>4, CheckoutCart
    <2>2. ASSUME NEW j \in Carts, NEW s \in Skus PROVE resv'[j][s] \in {resv[j][s], NoRow}
      <3>1. j = k \/ j \in Owners \ {k, o}
        BY OwnersDisjoint
      <3> QED
        BY ZenonT(30), <1>4, <3>1, CheckoutRows
    <2>3. now' = now
      BY <1>4 DEF Checkout
    <2> QED
      BY <1>0, <2>1, <2>2, <2>3, OthersKeepDeadlines
  <1>5. ASSUME NEW owners, resv' = resv \/ resv' = Released(owners), now' = now,
               NEW ks, cart' = cart \/ cart' = Expired(ks)
        PROVE  CartDeadlines'
    <2>1. \A k \in Carts : cart'[k].expires = cart[k].expires
      BY <1>5 DEF Expired, TypeOK, CartRecords
    <2>2. \A k \in Carts, s \in Skus : resv'[k][s] \in {resv[k][s], NoRow}
      BY <1>5, ReleasedRows, OwnersDisjoint
    <2> QED
      BY <1>0, <1>5, <2>1, <2>2, OthersKeepDeadlines
  <1>6. CASE Tick
    <2>1. now' \in Nat /\ now <= now'
      BY <1>0, <1>6 DEF Tick
    <2> QED
      BY <1>6, <2>1, OthersKeepDeadlines DEF Tick
  <1>7. ASSUME NEW k \in Carts, ExpireOnAccess(k) PROVE CartDeadlines'
    BY <1>5, <1>7 DEF ExpireOnAccess
  <1>8. ASSUME NEW o \in Orders, WebhookStep(o) PROVE CartDeadlines'
    BY <1>5, <1>8
    DEF WebhookStep, PaymentFails, PaymentConfirms, PaymentConfirmsTooLate, RefundFails,
        RefundConfirms
  <1>9. ASSUME NEW o \in Orders, AdminStep(o) PROVE CartDeadlines'
    BY <1>5, <1>9 DEF AdminStep, Cancel, Process, Ship, Deliver, RequestRefund
  <1>10. ASSUME NEW ks \in SUBSET Carts, NEW os \in SUBSET Orders, ExpirationPass(ks, os)
         PROVE  CartDeadlines'
    BY <1>5, <1>10 DEF ExpirationPass
  <1>11. ASSUME UNCHANGED <<now, cart, resv>> PROVE CartDeadlines'
    BY <1>5, <1>11
  <1> QED
    BY <1>1, <1>2, <1>3, <1>4, <1>6, <1>7, <1>8, <1>9, <1>10, <1>11, StepCases
    DEF ToggleSku, CorrectStock, vars

\* A cart's rows lapse no later than the cart.
THEOREM CartsOutliveRows == Spec => []CartOutlivesItsRows
  <1>1. CartDeadlines => CartOutlivesItsRows
    BY DEF CartDeadlines
  <1> QED
    BY <1>1, Typing, DeadlinesInit, DeadlinesStep, PTL DEF Spec

-----------------------------------------------------------------------------
(***************************************************************************)
(* Stock: NoOversell, and how stock falls                                  *)
(***************************************************************************)
\* Reserved() with the reservation table r and the clock t as parameters, so
\* that its lemmas speak of the states before and after a step alike.
LiveQty(r, t, s, o) == IF r[o][s].expires > t THEN r[o][s].qty ELSE 0

Units(r, t, s, owners) == {u \in owners \X (1..MaxQty) : u[2] <= LiveQty(r, t, s, u[1])}

Count(r, t, s, owners) == Cardinality(Units(r, t, s, owners))

Tables == [Owners -> [Skus -> Rows]]

LEMMA OwnersFinite == IsFiniteSet(Owners) /\ IsFiniteSet(1..MaxQty)
  <1>1. IsFiniteSet(1..CartsPerCustomer) /\ IsFiniteSet(1..MaxQty)
    BY FS_Interval, NumbersAssumption
  <1>2. IsFiniteSet(Carts)
    BY <1>1, FS_Product, SetsAssumption DEF Carts
  <1>3. IsFiniteSet(Orders)
    BY FS_Product, SetsAssumption DEF Orders
  <1> QED
    BY <1>1, <1>2, <1>3, FS_Union DEF Owners

LEMMA LiveQtyType ==
  ASSUME NEW r \in Tables, NEW t, NEW s \in Skus, NEW o \in Owners
  PROVE  LiveQty(r, t, s, o) \in 0..MaxQty
  BY Numbers DEF LiveQty, Tables, Rows

LEMMA UnitsFinite ==
  ASSUME NEW r, NEW t, NEW s, NEW owners \in SUBSET Owners
  PROVE  IsFiniteSet(Units(r, t, s, owners)) /\ Count(r, t, s, owners) \in Nat
  <1>1. IsFiniteSet(owners)
    BY OwnersFinite, FS_Subset
  <1>2. IsFiniteSet(owners \X (1..MaxQty))
    BY <1>1, OwnersFinite, FS_Product
  <1>3. Units(r, t, s, owners) \in SUBSET (owners \X (1..MaxQty))
    BY DEF Units
  <1> QED
    BY <1>2, <1>3, FS_Subset, FS_CardinalityType DEF Count

\* One owner's units are as many as its unexpired row counts.
LEMMA OneOwner ==
  ASSUME NEW r \in Tables, NEW t, NEW s \in Skus, NEW o \in Owners
  PROVE  Count(r, t, s, {o}) = LiveQty(r, t, s, o)
  <1> DEFINE q == LiveQty(r, t, s, o)
  <1>1. q \in 0..MaxQty
    BY LiveQtyType
  <1>2. Units(r, t, s, {o}) = {o} \X (1..q)
    BY <1>1, Numbers DEF Units
  <1>3. IsFiniteSet(1..q) /\ Cardinality(1..q) = q
    BY <1>1, FS_Interval, Numbers
  <1>4. IsFiniteSet({o}) /\ Cardinality({o}) = 1
    BY FS_Singleton
  <1>5. Cardinality({o} \X (1..q)) = 1 * q
    BY ZenonT(30), <1>3, <1>4, FS_Product
  <1> QED
    BY <1>1, <1>2, <1>5, Numbers DEF Count

LEMMA CountSplit ==
  ASSUME NEW r \in Tables, NEW t, NEW s \in Skus, NEW o \in Owners,
         NEW owners \in SUBSET Owners, o \notin owners
  PROVE  Count(r, t, s, owners \union {o}) = Count(r, t, s, owners) + LiveQty(r, t, s, o)
  <1> DEFINE A == Units(r, t, s, owners)
             B == Units(r, t, s, {o})
  <1>1. Units(r, t, s, owners \union {o}) = A \union B /\ A \intersect B = {}
    BY DEF Units
  <1>2. IsFiniteSet(A) /\ IsFiniteSet(B) /\ Cardinality(A) \in Nat /\ Cardinality(B) \in Nat
    BY UnitsFinite DEF Count
  <1>3. Cardinality(A \union B) = Cardinality(A) + Cardinality(B) - Cardinality({})
    BY <1>1, <1>2, FS_Union
  <1>4. Cardinality({}) = 0
    BY FS_EmptySet
  <1>5. Cardinality(B) = LiveQty(r, t, s, o)
    BY OneOwner DEF Count
  <1>6. Count(r, t, s, owners) = Cardinality(A)
    BY DEF Count
  <1>7. Count(r, t, s, owners \union {o}) = Cardinality(A \union B)
    BY <1>1 DEF Count
  <1> HIDE DEF A, B
  <1> QED
    BY <1>2, <1>3, <1>4, <1>5, <1>6, <1>7

LEMMA CountShrinks ==
  ASSUME NEW r, NEW t, NEW q, NEW u, NEW s, NEW owners \in SUBSET Owners,
         \A o \in owners : /\ LiveQty(q, u, s, o) \in Int
                           /\ LiveQty(r, t, s, o) \in Int
                           /\ LiveQty(q, u, s, o) <= LiveQty(r, t, s, o)
  PROVE  Count(q, u, s, owners) <= Count(r, t, s, owners)
  <1>1. Units(q, u, s, owners) \in SUBSET Units(r, t, s, owners)
    BY DEF Units
  <1> QED
    BY <1>1, UnitsFinite, FS_Subset DEF Count

LEMMA LiveUnit ==
  ASSUME NEW r \in Tables, NEW t, NEW s \in Skus, NEW o \in Owners, NEW n \in 1..MaxQty
  PROVE  n <= LiveQty(r, t, s, o) <=> n <= r[o][s].qty /\ r[o][s].expires > t
  BY Numbers DEF LiveQty, Tables, Rows

LEMMA ReservedIsCount ==
  ASSUME TypeOK, NEW s \in Skus, NEW owners \in SUBSET Owners
  PROVE  Reserved(s, owners) = Count(resv, now, s, owners)
  <1>1. resv \in Tables
    BY DEF TypeOK, Tables
  <1>2. HeldUnits(s, owners) = Units(resv, now, s, owners)
    BY <1>1, LiveUnit DEF HeldUnits, Units
  <1> QED
    BY <1>2 DEF Reserved, Count

LEMMA ReservedIsCountNext ==
  ASSUME TypeOK', NEW s \in Skus, NEW owners \in SUBSET Owners
  PROVE  Reserved(s, owners)' = Count(resv', now', s, owners)
  <1>1. resv' \in Tables
    BY DEF TypeOK, Tables
  <1>2. HeldUnits(s, owners)' = Units(resv', now', s, owners)
    BY <1>1, LiveUnit DEF HeldUnits, Units
  <1> QED
    BY <1>2 DEF Reserved, Count

-----------------------------------------------------------------------------
Fits == \A s \in Skus : stock[s] # Unlimited => Count(resv, now, s, Owners) <= stock[s]

LEMMA FitsIsNoOversell ==
  /\ TypeOK => (NoOversell <=> Fits)
  /\ TypeOK' => (NoOversell' <=> Fits')
  BY ReservedIsCount, ReservedIsCountNext DEF NoOversell, Fits

LEMMA OversellInit == Init => NoOversell
  <1> SUFFICES ASSUME Init PROVE NoOversell
    OBVIOUS
  <1>1. ASSUME NEW s \in Skus PROVE Reserved(s, Owners) = 0
    <2>1. HeldUnits(s, Owners) = {}
      BY <1>1, Numbers DEF Init, HeldUnits, NoRow
    <2> QED
      BY <2>1, FS_EmptySet DEF Reserved
  <1>2. \A s \in Skus : stock[s] \in Nat
    BY Numbers DEF Init
  <1> QED
    BY <1>1, <1>2 DEF NoOversell

\* The steps after which no owner holds more, and no SKU has less.
LEMMA ShrinkKeepsFits ==
  ASSUME TypeOK, TypeOK', Fits, stock' = stock, now <= now',
         \A x \in Owners, s \in Skus : resv'[x][s] \in {resv[x][s], NoRow}
  PROVE  Fits'
  <1>1. resv \in Tables /\ resv' \in Tables /\ now \in Nat /\ now' \in Nat
    BY DEF TypeOK, Tables
  <1>2. ASSUME NEW x \in Owners, NEW s \in Skus
        PROVE  LiveQty(resv', now', s, x) <= LiveQty(resv, now, s, x)
    <2>1. resv[x][s].expires \in Nat /\ resv[x][s].qty \in Nat
      BY <1>1, Numbers DEF Tables, Rows
    <2>2. resv'[x][s] = resv[x][s] \/ (resv'[x][s].qty = 0 /\ resv'[x][s].expires = 0)
      BY DEF NoRow
    <2> QED
      BY <1>1, <2>1, <2>2 DEF LiveQty
  <1>3. ASSUME NEW s \in Skus PROVE Count(resv', now', s, Owners) <= Count(resv, now, s, Owners)
    <2>1. \A x \in Owners : LiveQty(resv, now, s, x) \in Int /\ LiveQty(resv', now', s, x) \in Int
      BY <1>1, LiveQtyType, Numbers
    <2> QED
      BY <1>2, <2>1, CountShrinks
  <1>4. ASSUME NEW s \in Skus, stock[s] # Unlimited
        PROVE  Count(resv', now', s, Owners) <= stock[s]
    <2>1. stock[s] \in Nat /\ Count(resv, now, s, Owners) <= stock[s]
      BY <1>4 DEF Fits, TypeOK
    <2>2. Count(resv, now, s, Owners) \in Nat /\ Count(resv', now', s, Owners) \in Nat
      BY UnitsFinite
    <2> QED
      BY <1>3, <2>1, <2>2
  <1> QED
    BY <1>4 DEF Fits

\* Owners whose rows of s did not change hold as much as before.
LEMMA SameRowsSameCount ==
  ASSUME NEW r, NEW q, NEW t, NEW s, NEW owners \in SUBSET Owners,
         \A x \in owners : q[x][s] = r[x][s]
  PROVE  Count(q, t, s, owners) = Count(r, t, s, owners)
  <1>1. Units(q, t, s, owners) = Units(r, t, s, owners)
    BY DEF Units, LiveQty
  <1> QED
    BY <1>1 DEF Count

LEMMA OwnersSplit ==
  ASSUME NEW r \in Tables, NEW t, NEW s \in Skus, NEW o \in Owners
  PROVE  /\ Count(r, t, s, Owners) = Count(r, t, s, Owners \ {o}) + LiveQty(r, t, s, o)
         /\ Count(r, t, s, Owners \ {o}) \in Nat /\ Count(r, t, s, Owners) \in Nat
         /\ LiveQty(r, t, s, o) \in Nat
  <1>1. (Owners \ {o}) \union {o} = Owners
    OBVIOUS
  <1>2. LiveQty(r, t, s, o) \in Nat
    BY LiveQtyType, Numbers
  <1> QED
    BY <1>1, <1>2, CountSplit, UnitsFinite

LEMMA SetQuantityFits ==
  ASSUME TypeOK, TypeOK', Fits, NEW k \in Carts, NEW s \in Skus, NEW desired \in 0..MaxQty,
         SetQuantity(k[1], k, s, desired)
  PROVE  Fits'
  <1>1. resv \in Tables /\ resv' \in Tables /\ k \in Owners
    BY OwnersDisjoint DEF TypeOK, Tables
  <1>2. stock' = stock /\ now' = now
    BY DEF SetQuantity
  <1>3. /\ resv'[k][s] = ReservedRow(s, desired, now + CartTTL)
        /\ \A x \in Owners, y \in Skus : x # k \/ y # s => resv'[x][y] = resv[x][y]
    BY <1>1 DEF SetQuantity, TypeOK
  <1>4. ASSUME NEW y \in Skus, y # s, stock[y] # Unlimited
        PROVE  Count(resv', now, y, Owners) <= stock[y]
    <2>1. Count(resv', now, y, Owners) = Count(resv, now, y, Owners)
      BY <1>3, <1>4, SameRowsSameCount
    <2> QED
      BY <1>4, <2>1 DEF Fits
  <1>5. ASSUME stock[s] # Unlimited PROVE Count(resv', now, s, Owners) <= stock[s]
    <2>1. Count(resv', now, s, Owners \ {k}) = Count(resv, now, s, Owners \ {k})
      BY <1>3, SameRowsSameCount
    <2>2. desired + Count(resv, now, s, Owners \ {k}) <= stock[s]
      BY <1>5, ReservedIsCount DEF SetQuantity, CanReserve
    <2>3. resv'[k][s].qty = desired /\ desired \in Nat
      BY <1>3, <1>5, Numbers DEF ReservedRow, NoRow
    <2>4. LiveQty(resv', now, s, k) <= desired
      BY <2>3 DEF LiveQty
    <2>5. stock[s] \in Nat
      BY <1>5 DEF TypeOK
    <2> QED
      BY <1>1, <2>1, <2>2, <2>3, <2>4, <2>5, OwnersSplit
  <1> QED
    BY <1>2, <1>4, <1>5 DEF Fits

\* Two owners apart from the rest.
LEMMA OwnersSplitTwice ==
  ASSUME NEW r \in Tables, NEW t, NEW s \in Skus, NEW k \in Owners, NEW o \in Owners, k # o
  PROVE  /\ Count(r, t, s, Owners) = Count(r, t, s, Owners \ {k, o})
                                       + LiveQty(r, t, s, o) + LiveQty(r, t, s, k)
         /\ Count(r, t, s, Owners \ {k, o}) \in Nat
         /\ LiveQty(r, t, s, o) \in Nat /\ LiveQty(r, t, s, k) \in Nat
  <1>1. (Owners \ {k, o}) \union {o} = Owners \ {k}
    OBVIOUS
  <1>2. /\ LiveQty(r, t, s, o) \in Nat /\ LiveQty(r, t, s, k) \in Nat
        /\ Count(r, t, s, Owners \ {k, o}) \in Nat
    BY LiveQtyType, UnitsFinite, Numbers
  <1>3. Count(r, t, s, Owners \ {k}) = Count(r, t, s, Owners \ {k, o}) + LiveQty(r, t, s, o)
    BY <1>1, CountSplit
  <1>4. Count(r, t, s, Owners) = Count(r, t, s, Owners \ {k}) + LiveQty(r, t, s, k)
    BY OwnersSplit
  <1> QED
    BY <1>2, <1>3, <1>4

\* transfer_to_order() moves units, it makes none: the rows are unexpired.
LEMMA CheckoutFits ==
  ASSUME TypeOK, TypeOK', Fits, NEW k \in Carts, NEW o \in Orders, Checkout(k, o)
  PROVE  Fits'
  <1>1. resv \in Tables /\ resv' \in Tables
    BY DEF TypeOK, Tables
  <1>2. stock' = stock /\ now' = now /\ now \in Nat
    BY DEF Checkout, TypeOK
  <1>3. k \in Owners /\ o \in Owners /\ k # o
    BY OwnersDisjoint
  <1>4. ASSUME NEW s \in Skus, stock[s] # Unlimited
        PROVE  Count(resv', now, s, Owners) <= stock[s]
    <2>1. \A x \in Owners \ {k, o} : resv'[x][s] = resv[x][s]
      BY CheckoutRows
    <2>2. Count(resv', now, s, Owners \ {k, o}) = Count(resv, now, s, Owners \ {k, o})
      BY <2>1, SameRowsSameCount
    <2>3. LiveQty(resv', now, s, k) = 0
      <3>1. resv'[k][s] = NoRow
        BY CheckoutRows
      <3> QED
        BY <1>2, <3>1 DEF LiveQty, NoRow
    <2>4. LiveQty(resv', now, s, o) <= LiveQty(resv, now, s, k)
      <3>1. resv[k][s].qty \in Nat
        BY <1>1, <1>3, Numbers DEF Tables, Rows
      <3>2. CASE resv[k][s].qty > 0
        <4>1. resv[k][s].expires > now
          BY <3>2 DEF Checkout, Unexpired
        <4>2. resv'[o][s] = [qty |-> resv[k][s].qty, expires |-> now + PaymentTTL]
          BY <3>2, CheckoutRows
        <4> QED
          BY <3>1, <4>1, <4>2 DEF LiveQty
      <3>3. CASE ~(resv[k][s].qty > 0)
        <4>1. resv'[o][s] = NoRow
          BY <3>3, CheckoutRows
        <4>2. LiveQty(resv', now, s, o) = 0
          BY <1>2, <4>1 DEF LiveQty, NoRow
        <4> QED
          BY <1>1, <1>3, <4>2, LiveQtyType
      <3> QED
        BY <3>2, <3>3
    <2>5. stock[s] \in Nat /\ Count(resv, now, s, Owners) <= stock[s]
      BY <1>4 DEF Fits, TypeOK
    <2>6. /\ Count(resv, now, s, Owners) = Count(resv, now, s, Owners \ {k, o})
                                       + LiveQty(resv, now, s, o) + LiveQty(resv, now, s, k)
          /\ Count(resv, now, s, Owners \ {k, o}) \in Nat
          /\ LiveQty(resv, now, s, o) \in Nat /\ LiveQty(resv, now, s, k) \in Nat
      BY <1>1, <1>3, OwnersSplitTwice
    <2>7. /\ Count(resv', now, s, Owners) = Count(resv', now, s, Owners \ {k, o})
                                       + LiveQty(resv', now, s, o) + LiveQty(resv', now, s, k)
          /\ LiveQty(resv', now, s, o) \in Nat
      BY <1>1, <1>3, OwnersSplitTwice
    <2> QED
      BY <2>2, <2>3, <2>4, <2>5, <2>6, <2>7
  <1> QED
    BY <1>2, <1>4 DEF Fits

\* Consumption gives up the units it takes from the stock: the rows it
\* consumes are unexpired, so they were all counted.
LEMMA PaymentFits ==
  ASSUME TypeOK, TypeOK', Fits, NEW o \in Orders, PaymentConfirms(o)
  PROVE  Fits'
  <1>1. resv \in Tables /\ resv' \in Tables /\ o \in Owners /\ now' = now /\ now \in Nat
    BY OwnersDisjoint DEF PaymentConfirms, TypeOK, Tables
  <1>2. ASSUME NEW s \in Skus, stock'[s] # Unlimited
        PROVE  Count(resv', now, s, Owners) <= stock'[s]
    <2>1. stock[s] # Unlimited /\ stock'[s] = stock[s] - resv[o][s].qty
      BY <1>2 DEF PaymentConfirms, Consumed
    <2>2. resv' = Released({o})
      BY DEF PaymentConfirms
    <2>3. Count(resv', now, s, Owners \ {o}) = Count(resv, now, s, Owners \ {o})
      BY <2>2, ReleasedRows, SameRowsSameCount
    <2>4. LiveQty(resv', now, s, o) = 0
      <3>1. resv'[o][s] = NoRow
        BY <1>1, <2>2, ReleasedRows
      <3> QED
        BY <1>1, <3>1 DEF LiveQty, NoRow
    <2>5. LiveQty(resv, now, s, o) = resv[o][s].qty
      <3>1. resv[o][s].qty \in Nat
        BY <1>1, Numbers DEF Tables, Rows
      <3>2. resv[o][s].qty > 0 => resv[o][s].expires > now
        BY DEF PaymentConfirms, CanConsume, Unexpired
      <3> QED
        BY <3>1, <3>2 DEF LiveQty
    <2>6. stock[s] \in Nat /\ Count(resv, now, s, Owners) <= stock[s]
      BY <2>1 DEF Fits, TypeOK
    <2> QED
      BY <1>1, <2>1, <2>3, <2>4, <2>5, <2>6, OwnersSplit
  <1> QED
    BY <1>1, <1>2 DEF Fits

LEMMA CorrectionFits ==
  ASSUME TypeOK, TypeOK', Fits, NEW s \in Skus,
         NEW quantity \in (0..MaxStock) \union {Unlimited}, CorrectStock(s, quantity)
  PROVE  Fits'
  <1>1. resv' = resv /\ now' = now /\ stock' = [stock EXCEPT ![s] = quantity]
    BY DEF CorrectStock
  <1>2. quantity # Unlimited => Count(resv, now, s, Owners) <= quantity
    <2>1. Reserved(s, Owners) = Count(resv, now, s, Owners)
      BY ReservedIsCount
    <2>2. Count(resv, now, s, Owners) \in Nat
      BY UnitsFinite
    <2> QED
      BY <2>1, <2>2, Numbers DEF CorrectStock
  <1> QED
    BY <1>1, <1>2 DEF Fits, TypeOK

LEMMA OversellStep == TypeOK /\ NoOversell /\ [Next]_vars => NoOversell'
  <1> SUFFICES ASSUME TypeOK, NoOversell, [Next]_vars PROVE NoOversell'
    OBVIOUS
  <1>0. TypeOK' /\ Fits /\ now \in Nat /\ now <= now
    BY TypeStep, FitsIsNoOversell DEF TypeOK
  <1>1. ASSUME NEW k \in Carts, NEW s \in Skus, NEW desired \in 0..MaxQty,
               SetQuantity(k[1], k, s, desired)
        PROVE  Fits'
    BY <1>0, <1>1, SetQuantityFits
  <1>2. ASSUME NEW k \in Carts, NEW s \in Skus, RemoveItem(k[1], k, s) PROVE Fits'
    <2>1. \A x \in Owners, y \in Skus : resv'[x][y] \in {resv[x][y], NoRow}
      BY <1>2, OwnersDisjoint DEF RemoveItem, TypeOK
    <2> QED
      BY <1>0, <1>2, <2>1, ShrinkKeepsFits DEF RemoveItem
  <1>3. ASSUME NEW k \in Carts, NEW o \in Orders, Checkout(k, o) PROVE Fits'
    BY <1>0, <1>3, CheckoutFits
  <1>4. ASSUME NEW owners, resv' = resv \/ resv' = Released(owners), stock' = stock, now' = now
        PROVE  Fits'
    <2>1. \A x \in Owners, y \in Skus : resv'[x][y] \in {resv[x][y], NoRow}
      BY <1>4, ReleasedRows
    <2> QED
      BY <1>0, <1>4, <2>1, ShrinkKeepsFits
  <1>5. ASSUME NEW o \in Orders, WebhookStep(o) PROVE Fits'
    <2>1. CASE PaymentConfirms(o)
      BY <1>0, <2>1, PaymentFits
    <2> QED
      BY <1>4, <1>5, <2>1
      DEF WebhookStep, PaymentFails, PaymentConfirmsTooLate, RefundFails, RefundConfirms
  <1>6. ASSUME NEW o \in Orders, AdminStep(o) PROVE Fits'
    BY <1>4, <1>6 DEF AdminStep, Cancel, Process, Ship, Deliver, RequestRefund
  <1>7. ASSUME NEW ks \in SUBSET Carts, NEW os \in SUBSET Orders, ExpirationPass(ks, os)
        PROVE  Fits'
    BY <1>4, <1>7 DEF ExpirationPass
  <1>8. ASSUME NEW k \in Carts, CreateCart(k[1], k) \/ ExpireOnAccess(k) PROVE Fits'
    BY <1>4, <1>8 DEF CreateCart, ExpireOnAccess
  <1>9. ASSUME NEW s \in Skus, NEW quantity \in (0..MaxStock) \union {Unlimited},
               CorrectStock(s, quantity)
        PROVE  Fits'
    BY <1>0, <1>9, CorrectionFits
  <1>10. ASSUME Tick PROVE Fits'
    <2>1. now <= now' /\ now' \in Nat /\ stock' = stock /\ resv' = resv
      BY <1>0, <1>10 DEF Tick
    <2>2. \A x \in Owners, y \in Skus : resv'[x][y] \in {resv[x][y], NoRow}
      BY <2>1
    <2> QED
      BY <1>0, <2>1, <2>2, ShrinkKeepsFits
  <1>11. ASSUME UNCHANGED <<now, stock, resv>> PROVE Fits'
    BY <1>4, <1>11
  <1>12. ASSUME NEW s \in Skus, ToggleSku(s) PROVE Fits'
    BY <1>11, <1>12 DEF ToggleSku
  <1>13. ASSUME UNCHANGED vars PROVE Fits'
    BY <1>11, <1>13 DEF vars
  <1>14. Fits'
    BY <1>1, <1>2, <1>3, <1>5, <1>6, <1>7, <1>8, <1>9, <1>10, <1>12, <1>13, StepCases
  <1> QED
    BY <1>0, <1>14, FitsIsNoOversell

\* The unexpired reservations of a tracked SKU never exceed its stock.
THEOREM NeverOversold == Spec => []NoOversell
  BY Typing, OversellInit, OversellStep, PTL DEF Spec

\* Stock falls by a payment only, and then by what the order held.
THEOREM StockFallsOnce == Spec => StockFallsByPaymentOnly
  <1> DEFINE A == /\ \A o \in Orders : BecomesPaid(o) =>
                       \A s \in Skus : stock[s] # Unlimited => stock'[s] + resv[o][s].qty = stock[s]
                  /\ \A s \in Skus : stock'[s] # stock[s] =>
                       corrections' # corrections \/ \E o \in Orders : BecomesPaid(o)
  <1>1. TypeOK /\ [Next]_vars => [A]_vars
    <2> SUFFICES ASSUME TypeOK, [Next]_vars PROVE A
      OBVIOUS
    <2>1. ASSUME NEW o \in Orders, PaymentConfirms(o) PROVE A
      <3>1. /\ order[o].state = "pending_payment" /\ order'[o].state = "paid"
            /\ \A p \in Orders : p # o => order'[p].state = order[p].state
        BY <2>1, TransitionedRows, Table DEF PaymentConfirms, Allowed
      <3>2. \A s \in Skus : stock[s] # Unlimited => stock'[s] + resv[o][s].qty = stock[s]
        <4>1. \A s \in Skus : stock[s] # Unlimited => stock[s] \in Nat /\ resv[o][s].qty \in Nat
          BY OwnersDisjoint, Numbers DEF TypeOK, Rows
        <4> QED
          BY <2>1, <4>1 DEF PaymentConfirms, Consumed
      <3>3. BecomesPaid(o) /\ \A p \in Orders : BecomesPaid(p) => p = o
        BY <3>1 DEF BecomesPaid
      <3> QED
        BY <3>2, <3>3
    <2>2. ASSUME NEW s \in Skus, NEW quantity \in (0..MaxStock) \union {Unlimited},
                 CorrectStock(s, quantity)
          PROVE  A
      BY <2>2 DEF CorrectStock, TypeOK, BecomesPaid
    <2>3. ASSUME stock' = stock, \A o \in Orders : ~BecomesPaid(o) PROVE A
      BY <2>3
    <2>4. ASSUME stock' = stock, order' = order PROVE A
      BY <2>3, <2>4 DEF BecomesPaid
    <2>5. ASSUME NEW k \in Carts, NEW o \in Orders, Checkout(k, o) PROVE A
      <3>1. \A p \in Orders : ~BecomesPaid(p)
        BY <2>5, CheckoutOrder DEF BecomesPaid
      <3> QED
        BY <2>3, <2>5, <3>1 DEF Checkout
    <2>6. ASSUME NEW o \in Orders, WebhookStep(o) PROVE A
      <3>1. CASE RefundConfirms(o)
        BY <2>3, <3>1, TransitionedRows, Table DEF RefundConfirms, BecomesPaid
      <3> QED
        BY <2>1, <2>4, <2>6, <3>1
        DEF WebhookStep, PaymentFails, PaymentConfirmsTooLate, RefundFails
    <2>7. ASSUME NEW o \in Orders, AdminStep(o) PROVE A
      <3>1. CASE Cancel(o)
        BY <2>3, <3>1, TransitionedRows, Table DEF Cancel, BecomesPaid
      <3>2. CASE Process(o) \/ Ship(o) \/ Deliver(o)
        BY <2>3, <3>2, FulfilledRows DEF Process, Ship, Deliver, BecomesPaid
      <3> QED
        BY <2>4, <2>7, <3>1, <3>2 DEF AdminStep, RequestRefund
    <2>8. ASSUME NEW ks \in SUBSET Carts, NEW os \in SUBSET Orders, ExpirationPass(ks, os)
          PROVE  A
      <3>1. \A p \in Orders : order'[p].state \in {order[p].state, "payment_expired"}
        BY <2>8, Table DEF ExpirationPass, TypeOK, OrderRecords
      <3> QED
        BY <2>3, <2>8, <3>1 DEF ExpirationPass, BecomesPaid
    <2> HIDE DEF A
    <2> QED
      BY <2>2, <2>4, <2>5, <2>6, <2>7, <2>8, StepCases
      DEF CreateCart, ExpireOnAccess, SetQuantity, RemoveItem, ToggleSku, Tick, vars
  <1>2. StockFallsByPaymentOnly <=> [][A]_vars
    BY DEF StockFallsByPaymentOnly
  <1> QED
    BY <1>1, <1>2, Typing, PTL DEF Spec
=============================================================================
