----------------------------- MODULE MobileShop -----------------------------
(***************************************************************************)
(* Paying for the cart on the phone: the payment screen, whose first press *)
(* fixes an idempotency key and the shipping fee it showed; the            *)
(* confirmation screen, which presents the payment sheet, follows the      *)
(* order and offers another try; the API's checkout and the order's life   *)
(* behind them.  The process may end, and the customer may come back to a  *)
(* confirmation by its link.                                               *)
(***************************************************************************)
EXTENDS MobileCart

CONSTANTS
  MaxTapsPaying,  \* bound: taps before and after a payment screen opens or the fee changes
  MaxScreens,  \* bound: payment screens the customer opens
  MaxOrders    \* bound: orders the API makes

ASSUME ShopAssumption == MaxTapsPaying \in Nat /\ MaxScreens \in Nat /\ MaxOrders \in Nat

VARIABLES
  screens,  \* screens[n]: the n-th payment screen: its reviews of a changed fee,
            \* the fee of its attempt, its request under way
  opened,   \* the payment screens opened
  current,  \* the one that is mounted, 0 for none
  ended,    \* the ones up to this number are of a process that ended
  orders,   \* the API's orders, in the order they were made
  conf      \* the confirmation screen: its order (0: not shown), the checkout
            \* it pays with, the payment's status, the order's state it shows

payVars == <<screens, opened, current, ended, orders, conf>>
shopVars == <<cartVars, payVars>>

NoFee == MaxFee + 1
Screens == 1 .. MaxScreens
Orders == 1 .. MaxOrders
States == {"pending_payment", "paid", "payment_expired", "cancelled", "refunded"}

NewScreen == [review |-> 0, attempt |-> NoFee, stage |-> "idle", answer |-> "none"]
NoOrder == [screen |-> 0, review |-> 0, fee |-> 0, state |-> "none", charged |-> FALSE]
NoConfirmation == [order |-> 0, prepared |-> "none", status |-> "idle", shown |-> "none"]

ShopInit ==
  /\ CartInit
  /\ screens = [n \in Screens |-> NewScreen]
  /\ opened = 0 /\ current = 0 /\ ended = 0
  /\ orders = [o \in Orders |-> NoOrder]
  /\ conf = NoConfirmation

Made(o) == orders[o].state # "none"

\* isVerifiedOrder(): processing, shipped and delivered are "paid" here.
Verified(state) == state = "paid"

-----------------------------------------------------------------------------
(***************************************************************************)
(* The payment screen                                                      *)
(***************************************************************************)

\* checkout.tsx: every press of Continue makes a new key for a new screen.
Continue ==
  /\ CartScreen = "lines" /\ conf.order = 0
  /\ opened < MaxScreens /\ taps <= MaxTapsPaying
  /\ opened' = opened + 1 /\ current' = opened'
  /\ UNCHANGED <<cartVars, screens, ended, orders, conf>>

Leave ==
  /\ current # 0 /\ conf.order = 0
  /\ current' = 0
  /\ UNCHANGED <<cartVars, screens, opened, ended, orders, conf>>

\* Mutant: every press is an attempt with a key of its own.
AttemptAnew(n) ==
  screens' = [screens EXCEPT ![n].attempt = cache.data.fee, ![n].stage = "sent",
                             ![n].review = IF @ < MaxFaults /\ screens[n].attempt # NoFee
                                           THEN @ + 1 ELSE @]

\* The attempt, once made, keeps its key and the fee it was made with until the
\* API says the fee changed.
Attempt(n) ==
  screens' = [screens EXCEPT ![n].attempt = IF @ = NoFee THEN cache.data.fee ELSE @,
                             ![n].stage = "sent"]

\* startPayment(), while the screen shows the summary and nothing is in flight.
Press ==
  /\ current # 0 /\ conf.order = 0 /\ CartScreen = "lines"
  /\ screens[current].stage = "idle"
  /\ Attempt(current)
  /\ UNCHANGED <<cartVars, opened, current, ended, orders, conf>>

KeyOf(n, o) == orders[o].screen = n /\ orders[o].review = screens[n].review
Replayed(n) == {o \in Orders : Made(o) /\ KeyOf(n, o)}

\* The API's checkout(): a known key answers with its order as it is now; a fee
\* other than the shop's, an empty cart and a lapsed one are refused; else the
\* cart becomes an order.
ServeCheckout(n) ==
  /\ screens[n].stage = "sent"
  /\ LET Reply(answer) ==
           screens' = [screens EXCEPT ![n].stage = "answered", ![n].answer = answer]
         Untouched == UNCHANGED <<cart, lapsed, wish, behind, orders>> IN
     \/ \E o \in Replayed(n) : Reply(orders[o].state) /\ Untouched
     \/ /\ Replayed(n) = {} /\ screens[n].attempt # fee
        /\ Reply("fee") /\ Untouched
     \/ /\ Replayed(n) = {} /\ screens[n].attempt = fee
        /\ cart = EmptyLines \/ lapsed
        /\ Reply("refused") /\ Untouched
     \/ /\ Replayed(n) = {} /\ screens[n].attempt = fee
        /\ cart # EmptyLines /\ ~lapsed
        /\ \E o \in Orders :
             /\ ~Made(o) /\ \A p \in 1 .. o - 1 : Made(p)
             /\ orders' = [orders EXCEPT ![o] =
                  [screen |-> n, review |-> screens[n].review, fee |-> fee,
                   state |-> "pending_payment", charged |-> FALSE]]
        /\ Reply("pending_payment")
        /\ Close /\ behind' = TRUE
  /\ UNCHANGED <<fee, cache, fetch, queue, adding, taps, faults, opened, current, ended, conf>>

LoseCheckout(n) ==
  /\ Fault /\ screens[n].stage \in {"sent", "answered"}
  /\ screens' = [screens EXCEPT ![n].stage = "answered", ![n].answer = "error"]
  /\ UNCHANGED <<cart, lapsed, fee, cache, fetch, queue, adding, taps, wish, behind,
                 opened, current, ended, orders, conf>>

\* The answer opens the confirmation, even when the screen was left meanwhile; a
\* changed fee forgets the attempt and loads the cart; anything else is a message.
EndCheckout(n) ==
  /\ screens[n].stage = "answered"
  /\ LET answer == screens[n].answer
         Idle == [screens[n] EXCEPT !.stage = "idle", !.answer = "none"] IN
     \/ /\ answer \in States /\ n > ended
        /\ conf.status # "submitting"
        /\ \E o \in Replayed(n) :
             conf' = [order |-> o, prepared |-> "ready", status |-> "idle", shown |-> answer]
        /\ screens' = [screens EXCEPT ![n] = Idle]
        /\ UNCHANGED <<fetch, behind>>
     \/ /\ answer = "fee" /\ n > ended
        /\ screens' = [screens EXCEPT ![n] = [NewScreen EXCEPT !.review = screens[n].review + 1,
                                                               !.stage = "refetching"]]
        /\ Refetch({}) /\ UNCHANGED conf
     \/ /\ answer \in {"refused", "error"} \/ n <= ended
        /\ screens' = [screens EXCEPT ![n] = Idle]
        /\ UNCHANGED <<conf, fetch, behind>>
  /\ UNCHANGED <<cart, lapsed, fee, cache, queue, adding, taps, faults, wish,
                 opened, current, ended, orders>>

\* The load after a changed fee has ended: the total can be reviewed.
Review(n) ==
  /\ screens[n].stage = "refetching" /\ fetch.stage = "idle"
  /\ screens' = [screens EXCEPT ![n].stage = "idle"]
  /\ UNCHANGED <<cartVars, opened, current, ended, orders, conf>>

-----------------------------------------------------------------------------
(***************************************************************************)
(* The confirmation screen                                                 *)
(***************************************************************************)

\* usePayment(): what the order's known state makes of the client's status.
Status ==
  CASE Verified(conf.shown) -> "verified"
    [] conf.shown = "payment_expired" -> "expired"
    [] conf.shown = "cancelled" -> "failed"
    [] OTHER -> conf.status

\* Mutant: a sheet that was submitted counts as a payment.
ConfirmationBySheet ==
  IF conf.order = 0 THEN "none"
  ELSE IF conf.shown = "none" THEN "loading"
  ELSE IF Status \in {"declined", "unknown", "failed", "expired"} THEN "not_completed"
  ELSE IF Verified(conf.shown) \/ Status = "processing" THEN "received"
  ELSE IF conf.shown = "pending_payment" THEN "waiting" ELSE "not_completed"

\* ConfirmationContent: what the screen shows.
Confirmation ==
  IF conf.order = 0 THEN "none"
  ELSE IF conf.shown = "none" THEN "loading"
  ELSE IF Status \in {"declined", "unknown", "failed", "expired"} THEN "not_completed"
  ELSE IF conf.shown = "pending_payment" THEN "waiting"
  ELSE IF Verified(conf.shown) THEN "received" ELSE "not_completed"

RetryOffered == conf.prepared = "ready" /\ Status \in {"declined", "unknown", "failed"}

\* The link of a confirmation: with its key the checkout is prepared again,
\* without it the order is only followed.
OpenLink(o) ==
  /\ Made(o) /\ conf.order = 0
  /\ \E prepared \in {"none", "loading"} :
       conf' = [NoConfirmation EXCEPT !.order = o, !.prepared = prepared]
  /\ UNCHANGED <<cartVars, screens, opened, current, ended, orders>>

\* The state of the order is stored; a verified payment loads the cart again.
Show(state) ==
  IF Verified(state) /\ ~Verified(conf.shown)
  THEN Refetch({}) ELSE UNCHANGED <<fetch, behind>>

\* usePreparedCheckout(): the order is read and its checkout repeated.
Prepare ==
  /\ conf.prepared = "loading"
  /\ \/ /\ conf' = [conf EXCEPT !.prepared = "ready", !.shown = orders[conf.order].state]
        /\ Show(orders[conf.order].state) /\ UNCHANGED faults
     \/ Fault /\ conf' = [conf EXCEPT !.prepared = "failed"] /\ UNCHANGED <<fetch, behind>>
  /\ UNCHANGED <<cart, lapsed, fee, cache, queue, adding, taps, wish,
                 screens, opened, current, ended, orders>>

\* useOrder(): the first load, and the poll while the order waits for payment.
Poll ==
  /\ conf.order # 0 /\ conf.shown \in {"none", "pending_payment"}
  /\ conf.shown # orders[conf.order].state
  /\ conf' = [conf EXCEPT !.shown = orders[conf.order].state]
  /\ Show(orders[conf.order].state)
  /\ UNCHANGED <<cart, lapsed, fee, cache, queue, adding, taps, faults, wish,
                 screens, opened, current, ended, orders>>

\* The sheet is presented by itself when the checkout is there and nothing was
\* tried, or by the retry button.
PresentSheet ==
  /\ conf.prepared = "ready" /\ conf.status # "submitting"
  /\ Status = "idle" \/ RetryOffered
  /\ conf' = [conf EXCEPT !.status = "submitting"]
  /\ UNCHANGED <<cartVars, screens, opened, current, ended, orders>>

\* confirm(): the provider takes the payment or not, and the phone learns so or
\* not.  A payment that was taken is not taken again.
EndSheet ==
  /\ conf.status = "submitting"
  /\ \E outcome \in {"processing", "declined", "unknown"}, charged \in BOOLEAN :
       /\ outcome = "processing" => charged
       /\ outcome = "declined" => (charged <=> orders[conf.order].charged)
       /\ orders[conf.order].charged => charged
       /\ conf' = [conf EXCEPT !.status = outcome]
       /\ orders' = [orders EXCEPT ![conf.order].charged = charged]
  /\ UNCHANGED <<cartVars, screens, opened, current, ended>>

\* Back, to the payment screen or where the link was opened from; after a
\* verified payment also home, which dismisses the payment screen.
LeaveConfirmation ==
  /\ conf.order # 0 /\ conf.status # "submitting"
  /\ conf' = NoConfirmation
  /\ current' \in {current} \union (IF Confirmation = "received" THEN {0} ELSE {})
  /\ UNCHANGED <<cartVars, screens, opened, ended, orders>>

\* The process ends and is started again: what it held is gone.  A request on
\* its way may still be served.
Kill ==
  /\ Fault
  /\ cache' = [data |-> NoCart, load |-> "pending"]
  /\ fetch' = Quiet /\ adding' = Quiet /\ queue' = [s \in Skus |-> NoEntry]
  /\ wish' = [s \in Skus |-> None] /\ behind' = FALSE
  /\ current' = 0 /\ ended' = opened /\ conf' = NoConfirmation
  /\ UNCHANGED <<cart, lapsed, fee, taps, screens, opened, orders>>

-----------------------------------------------------------------------------
(***************************************************************************)
(* The order's life behind the phone                                       *)
(***************************************************************************)

OrderBecomes(o, state) ==
  /\ orders' = [orders EXCEPT ![o].state = state]
  /\ UNCHANGED <<cartVars, screens, opened, current, ended, conf>>

\* The provider's event of a payment taken.
Settle(o) == orders[o].state = "pending_payment" /\ orders[o].charged /\ OrderBecomes(o, "paid")
ExpireOrder(o) == orders[o].state = "pending_payment" /\ OrderBecomes(o, "payment_expired")
\* The admin's cancellation leaves the payment with the provider as it is.
CancelOrder(o) == orders[o].state = "pending_payment" /\ OrderBecomes(o, "cancelled")
Refund(o) == orders[o].state = "paid" /\ OrderBecomes(o, "refunded")

PayStep ==
  \/ Continue \/ Leave \/ Press
  \/ \E n \in Screens : ServeCheckout(n) \/ LoseCheckout(n) \/ EndCheckout(n) \/ Review(n)
  \/ Prepare \/ Poll \/ PresentSheet \/ EndSheet \/ LeaveConfirmation \/ Kill
  \/ \E o \in Orders : OpenLink(o) \/ Settle(o) \/ ExpireOrder(o) \/ CancelOrder(o) \/ Refund(o)

InBound ==
  /\ opened > 0 => taps' <= MaxTapsPaying
  /\ fee' # fee => taps <= MaxTapsPaying

\* The cart screen and the product pages lie under the payment screens.
Next ==
  \/ current = 0 /\ conf.order = 0 /\ TapStep /\ InBound /\ UNCHANGED payVars
  \/ CartStep /\ InBound /\ UNCHANGED payVars
  \/ PayStep
Spec == ShopInit /\ [][Next]_shopVars

-----------------------------------------------------------------------------
TypeOK ==
  /\ CartTypeOK
  /\ screens \in [Screens -> [review: Nat, attempt: 0 .. NoFee,
                             stage: {"idle", "sent", "answered", "refetching"},
                             answer: States \union {"none", "fee", "refused", "error"}]]
  /\ {opened, current, ended} \subseteq 0 .. MaxScreens /\ current <= opened /\ ended <= opened
  /\ orders \in [Orders -> [screen: 0 .. MaxScreens, review: Nat, fee: 0 .. MaxFee,
                            state: States \union {"none"}, charged: BOOLEAN]]
  /\ conf \in [order: 0 .. MaxOrders, prepared: {"none", "loading", "ready", "failed"},
               status: {"idle", "submitting", "processing", "declined", "unknown"},
               shown: States \union {"none"}]

\* However often Pay is pressed on a payment screen, through lost answers, a
\* changed fee and the way back from the confirmation, it makes one order, and a
\* press after the order was made leads to it (checkout.tsx makes the key,
\* startPayment keeps the attempt, checkout replays a known key).
PressesAreOneOrder ==
  \A n \in Screens : LET made == {o \in Orders : Made(o) /\ orders[o].screen = n} IN
    /\ Cardinality(made) <= 1
    /\ screens[n].answer \in {"fee", "refused"} => made = {}

\* The phone thanks for an order only when the API has it as paid, or as refunded
\* since: not for a sheet that was submitted, nor for what the screen showed of
\* another order (plan.md: never mark success until the order endpoint reflects
\* verified payment).
ThanksMeansPaid == Confirmation = "received" => orders[conf.order].state \in {"paid", "refunded"}

\* From the button to the thanks there is one order, and it is paid.
OnePaidOrder == PressesAreOneOrder /\ ThanksMeansPaid
=============================================================================
