----------------------------- MODULE MobileCart -----------------------------
(***************************************************************************)
(* The cart of one customer as the phone shows it, and the API's cart      *)
(* behind it.  The phone keeps the last answer in a query cache, shows a   *)
(* change before the API has answered, sends one change of a SKU at a time *)
(* and remembers only the last of those asked for meanwhile.  An answer    *)
(* carries the whole cart; answers to different requests may arrive in any *)
(* order.                                                                  *)
(***************************************************************************)
EXTENDS Naturals, FiniteSets

CONSTANTS
  Skus,      \* the SKUs of the shop
  MaxQty,    \* bound: quantity of a line
  MaxFee,    \* bound: times the shop's shipping fee is changed
  MaxTaps,   \* bound: changes the customer asks for
  MaxFaults  \* bound: lost requests and answers, ends of the process

ASSUME CartAssumption ==
  /\ Skus # {} /\ IsFiniteSet(Skus) /\ MaxQty \in Nat \ {0} /\ MaxFee \in Nat
  /\ MaxTaps \in Nat /\ MaxFaults \in Nat

VARIABLES
  cart,     \* the API's open cart: the quantity of each SKU
  lapsed,   \* its hold has run out; the next access to it closes it
  fee,      \* the shop's shipping fee, as the number of its changes
  cache,    \* the cached cart: an answer, NoCart, and how the last load ended
  fetch,    \* the GET of the cart under way
  queue,    \* queue[s]: the change of SKU s under way and the one that waits
  adding,   \* the product page's POST under way
  taps, faults,  \* counted for their bounds
  wish,     \* history: wish[s] is the quantity last asked for in the cart,
            \* None when the API refused it or something else changed it
  behind    \* history: the cart was changed by a step whose answer the cache will
            \* not get, or gets out of order, and was not loaded since

cartVars == <<cart, lapsed, fee, cache, fetch, queue, adding, taps, faults, wish, behind>>

None == MaxQty + 1
Quantities == 0 .. MaxQty
Lines == [Skus -> Quantities]
EmptyLines == [s \in Skus |-> 0]

\* What the phone can hold of an answer: a cart, a refusal, or nothing.
NoCart == [lines |-> EmptyLines, fee |-> 0, kind |-> "none"]
Refused(kind) == [NoCart EXCEPT !.kind = kind]
View(lines) == [lines |-> lines, fee |-> fee, kind |-> "cart"]

Quiet == [stage |-> "idle", answer |-> NoCart, sku |-> CHOOSE s \in Skus : TRUE]
NoEntry == [stage |-> "idle", answer |-> NoCart, asked |-> None, latest |-> None,
            confirmed |-> NoCart]

CartInit ==
  /\ cart = EmptyLines /\ lapsed = FALSE /\ fee = 0
  /\ cache = [data |-> NoCart, load |-> "pending"]
  /\ fetch = Quiet /\ adding = Quiet /\ queue = [s \in Skus |-> NoEntry]
  /\ taps = 0 /\ faults = 0
  /\ wish = [s \in Skus |-> None] /\ behind = FALSE

Fault == faults < MaxFaults /\ faults' = faults + 1
Tap == taps < MaxTaps /\ taps' = taps + 1

Busy(s) == queue[s].stage # "idle"
UnderWay ==
  {<<"change", s>> : s \in {t \in Skus : queue[t].stage \in {"sent", "answered"}}}
    \union (IF fetch.stage # "idle" THEN {<<"fetch", 0>>} ELSE {})
    \union (IF adding.stage # "idle" THEN {<<"add", 0>>} ELSE {})

\* Another request joins those under way: the order of the answers is open.
Joining == behind' = (behind \/ UnderWay # {})

-----------------------------------------------------------------------------
(***************************************************************************)
(* The API's cart                                                          *)
(***************************************************************************)

\* _active_cart(): a cart whose hold ran out is closed by the access that
\* finds it so; the next access opens an empty one.
Close == cart' = EmptyLines /\ lapsed' = FALSE /\ wish' = [s \in Skus |-> None]

\* The hold runs out: nothing was changed for the cart's lifetime.
Lapse ==
  /\ cart # EmptyLines /\ ~lapsed
  /\ lapsed' = TRUE
  /\ UNCHANGED <<cart, fee, cache, fetch, queue, adding, taps, faults, wish, behind>>

ChangeFee ==
  /\ fee < MaxFee /\ fee' = fee + 1
  /\ UNCHANGED <<cart, lapsed, cache, fetch, queue, adding, taps, faults, wish, behind>>

\* The worker closes it first.
Sweep ==
  /\ lapsed /\ Close /\ behind' = TRUE
  /\ UNCHANGED <<fee, cache, fetch, queue, adding, taps, faults>>

\* What a request to set a line to quantity q can end as: a lapsed cart refuses
\* all, and the stock or the SKU's state anything but a removal.
Outcomes(q) == IF lapsed THEN {"expired"} ELSE IF q = 0 THEN {"cart"} ELSE {"cart", "refused"}

SetLine(s, q, outcome) ==
  CASE outcome = "expired" -> Close
    [] outcome = "refused" -> UNCHANGED <<cart, lapsed, wish>>
    [] outcome = "cart" -> cart' = [cart EXCEPT ![s] = q] /\ UNCHANGED <<lapsed, wish>>

AnswerTo(s, q, outcome) ==
  IF outcome = "cart" THEN View([cart EXCEPT ![s] = q]) ELSE Refused(outcome)

-----------------------------------------------------------------------------
(***************************************************************************)
(* Loading the cart                                                        *)
(***************************************************************************)

\* useCart()'s query: at the first mount, on demand, at the end of the hold;
\* one under way is dropped for the new one.  The requests in over have ended.
Refetch(over) ==
  /\ fetch' = [Quiet EXCEPT !.stage = "sent"]
  /\ behind' = (UnderWay \ ({<<"fetch", 0>>} \union over) # {})

\* CartContent: what the cart screen shows.
CartScreen ==
  IF cache.load # "ok" THEN cache.load
  ELSE IF cache.data.lines = EmptyLines THEN "empty" ELSE "lines"

Load ==
  /\ CartScreen # "lines" \/ lapsed
  /\ fetch.stage = "idle"
  /\ Refetch({})
  /\ UNCHANGED <<cart, lapsed, fee, cache, queue, adding, taps, faults, wish>>

ServeFetch ==
  /\ fetch.stage = "sent"
  /\ IF lapsed
     THEN Close /\ fetch' = [Quiet EXCEPT !.stage = "answered", !.answer = Refused("expired")]
     ELSE fetch' = [Quiet EXCEPT !.stage = "answered", !.answer = View(cart)] /\ UNCHANGED <<cart, lapsed, wish>>
  /\ UNCHANGED <<fee, cache, queue, adding, taps, faults, behind>>

LoseFetch ==
  /\ Fault /\ fetch.stage \in {"sent", "answered"} /\ fetch.answer.kind # "error"
  /\ fetch' = [Quiet EXCEPT !.stage = "answered", !.answer = Refused("error")]
  /\ UNCHANGED <<cart, lapsed, fee, cache, queue, adding, taps, wish, behind>>

\* A failed load keeps the data it had and shows the failure.
Loaded(answer) ==
  IF answer.kind = "cart" THEN [data |-> answer, load |-> "ok"]
  ELSE [cache EXCEPT !.load = answer.kind]

-----------------------------------------------------------------------------
(***************************************************************************)
(* Changing a line                                                         *)
(***************************************************************************)

\* optimisticCart(): a line that is not shown is not added.
Optimistic(data, s, q) ==
  IF data.kind = "cart" /\ data.lines[s] > 0 THEN [data EXCEPT !.lines[s] = q] ELSE data

\* setQueryData(): nothing is stored where there is nothing.
Stored(data) == IF data.kind = "cart" THEN [data |-> data, load |-> "ok"] ELSE cache

\* enqueue(): the stepper (one up or down, from 1 to MaxQty) or the remove
\* button of a line; a line with a change under way takes another only from a
\* tap that came before its buttons were disabled.
Change(s, q) ==
  /\ Tap /\ CartScreen = "lines" /\ cache.data.lines[s] > 0
  /\ q = 0 \/ (q \in 1 .. MaxQty /\ (q = cache.data.lines[s] + 1 \/ q + 1 = cache.data.lines[s]))
  /\ cache' = Stored(Optimistic(cache.data, s, q))
  /\ wish' = [wish EXCEPT ![s] = q]
  /\ IF Busy(s)
     THEN queue' = [queue EXCEPT ![s].latest = q] /\ UNCHANGED behind
     ELSE /\ queue' = [queue EXCEPT ![s] = [NoEntry EXCEPT !.stage = "sent", !.asked = q,
                                                           !.confirmed = cache.data]]
          /\ Joining
  /\ UNCHANGED <<cart, lapsed, fee, fetch, adding, faults>>

\* setItem() and removeItem(): removing a line that is gone is no error.
ServeChange(s) ==
  /\ queue[s].stage = "sent"
  /\ \E outcome \in Outcomes(queue[s].asked) :
       /\ SetLine(s, queue[s].asked, outcome)
       /\ queue' = [queue EXCEPT ![s].stage = "answered",
                                ![s].answer = AnswerTo(s, queue[s].asked, outcome)]
  /\ UNCHANGED <<fee, cache, fetch, adding, taps, faults, behind>>

\* The request fails on its way, or its answer does.
LoseChange(s) ==
  /\ Fault /\ queue[s].stage \in {"sent", "answered"} /\ queue[s].answer.kind # "error"
  /\ queue' = [queue EXCEPT ![s].stage = "answered", ![s].answer = Refused("error")]
  /\ UNCHANGED <<cart, lapsed, fee, cache, fetch, adding, taps, wish, behind>>

\* Mutant: what was asked for meanwhile is shown and not sent.
AcceptedUnsent(s) ==
  LET entry == queue[s] IN
  /\ queue' = [queue EXCEPT ![s] = NoEntry]
  /\ cache' = Stored(IF entry.latest = None THEN entry.answer
                     ELSE Optimistic(entry.answer, s, entry.latest))

\* The answer is stored, and what was asked for meanwhile is sent next.
Accepted(s) ==
  LET entry == queue[s] IN
  IF entry.latest = None
  THEN queue' = [queue EXCEPT ![s] = NoEntry] /\ cache' = Stored(entry.answer)
  ELSE /\ queue' = [queue EXCEPT ![s] = [NoEntry EXCEPT !.stage = "sent", !.asked = entry.latest,
                                                        !.confirmed = entry.answer]]
       /\ cache' = Stored(Optimistic(entry.answer, s, entry.latest))

AcceptChange(s) ==
  /\ queue[s].stage = "answered" /\ queue[s].answer.kind = "cart"
  /\ Accepted(s)
  /\ UNCHANGED <<cart, lapsed, fee, fetch, adding, taps, faults, wish, behind>>

\* Mutant: the line is put back and nothing is asked.
RolledBackOnly(s) ==
  /\ cache' = Stored(queue[s].confirmed)
  /\ UNCHANGED <<fetch, behind>>
  /\ queue' = [queue EXCEPT ![s] = NoEntry]

\* The cart is put back as it was before the change and loaded again; the line
\* stays busy until the load ends.
RolledBack(s) ==
  /\ cache' = Stored(queue[s].confirmed)
  /\ Refetch({<<"change", s>>})
  /\ queue' = [queue EXCEPT ![s] = [NoEntry EXCEPT !.stage = "reloading"]]

FailChange(s) ==
  /\ queue[s].stage = "answered" /\ queue[s].answer.kind # "cart"
  /\ RolledBack(s)
  /\ wish' = [wish EXCEPT ![s] = None]
  /\ UNCHANGED <<cart, lapsed, fee, adding, taps, faults>>

\* A load ends: its answer replaces what is shown, changes under way too.
EndFetch ==
  /\ fetch.stage = "answered"
  /\ cache' = Loaded(fetch.answer)
  /\ fetch' = Quiet
  /\ queue' = [s \in Skus |-> IF queue[s].stage = "reloading" THEN NoEntry ELSE queue[s]]
  /\ wish' = [s \in Skus |-> IF queue[s].stage = "reloading" THEN None ELSE wish[s]]
  /\ UNCHANGED <<cart, lapsed, fee, adding, taps, faults, behind>>

-----------------------------------------------------------------------------
(***************************************************************************)
(* Adding from the product page                                            *)
(***************************************************************************)

Add(s) ==
  /\ Tap /\ adding.stage = "idle"
  /\ adding' = [Quiet EXCEPT !.stage = "sent", !.sku = s]
  /\ Joining
  /\ UNCHANGED <<cart, lapsed, fee, cache, fetch, queue, faults, wish>>

ServeAdd ==
  LET s == adding.sku
      q == cart[s] + 1 IN
  /\ adding.stage = "sent" /\ (cart[s] < MaxQty \/ lapsed)
  /\ \E outcome \in Outcomes(q) :
       /\ adding' = [adding EXCEPT !.stage = "answered", !.answer = AnswerTo(s, q, outcome)]
       /\ CASE outcome = "expired" -> Close
            [] outcome = "refused" -> UNCHANGED <<cart, lapsed, wish>>
            [] outcome = "cart" -> /\ cart' = [cart EXCEPT ![s] = q] /\ UNCHANGED lapsed
                                   /\ wish' = [wish EXCEPT ![s] = None]
  /\ UNCHANGED <<fee, cache, fetch, queue, taps, faults, behind>>

LoseAdd ==
  /\ Fault /\ adding.stage \in {"sent", "answered"}
  /\ adding' = [adding EXCEPT !.stage = "answered", !.answer = Refused("error")]
  /\ UNCHANGED <<cart, lapsed, fee, cache, fetch, queue, taps, wish, behind>>

\* A refusal is shown on the product page and leaves the cart's cache alone.
EndAdd ==
  /\ adding.stage = "answered"
  /\ adding' = Quiet
  /\ cache' = Stored(adding.answer)
  /\ behind' = (behind \/ adding.answer.kind \in {"expired", "error"})
  /\ UNCHANGED <<cart, lapsed, fee, fetch, queue, taps, faults, wish>>

\* What the customer does on the cart screen and on a product page.
TapStep == \E s \in Skus : Add(s) \/ \E q \in Quantities : Change(s, q)

CartStep ==
  \/ Lapse \/ Sweep \/ ChangeFee \/ Load \/ ServeFetch \/ LoseFetch \/ EndFetch
  \/ ServeAdd \/ LoseAdd \/ EndAdd
  \/ \E s \in Skus : ServeChange(s) \/ LoseChange(s) \/ AcceptChange(s) \/ FailChange(s)

-----------------------------------------------------------------------------
Answers == [lines: Lines, fee: 0 .. MaxFee,
            kind: {"none", "cart", "refused", "expired", "error"}]

CartTypeOK ==
  /\ cart \in Lines /\ lapsed \in BOOLEAN /\ fee \in 0 .. MaxFee
  /\ cache \in [data: Answers, load: {"pending", "ok", "error", "expired"}]
  /\ {fetch, adding} \subseteq [stage: {"idle", "sent", "answered"}, answer: Answers, sku: Skus]
  /\ queue \in [Skus -> [stage: {"idle", "sent", "answered", "reloading"}, answer: Answers,
                         asked: 0 .. None, latest: 0 .. None, confirmed: Answers]]
  /\ taps \in 0 .. MaxTaps /\ faults \in 0 .. MaxFaults
  /\ wish \in [Skus -> 0 .. None] /\ behind \in BOOLEAN

\* Once nothing is under way and nothing changed the cart behind the phone's
\* back, the cart on the phone is the API's: a refused or lost change leaves no
\* trace of what was shown before its answer (spec.md: any rejection of the
\* server reconciles the displayed cart).
CacheSettles ==
  UnderWay = {} /\ cache.load = "ok" /\ ~behind /\ ~lapsed => cache.data.lines = cart

\* The last quantity the customer asked for a line is the one the API has once
\* nothing of that line is under way, unless the API refused it or the answer
\* was lost (mutations.ts: one request per SKU, the last change wins).
LastTapWins ==
  \A s \in Skus : wish[s] # None /\ ~Busy(s) => cart[s] = wish[s]
=============================================================================
