------------------------- MODULE BackendRacesProofs -------------------------
(***************************************************************************)
(* Two places where the backend's transactions race for rows: the shop's   *)
(* requests for one SKU (StockRaces) and the workers for the outbox        *)
(* (Outbox).  What the row locks and the claims give them, for any         *)
(* customers, events, workers, batches and crashes.                        *)
(***************************************************************************)
EXTENDS StockRaces, Outbox, FiniteSetTheorems, TLAPS

-----------------------------------------------------------------------------
(***************************************************************************)
(* One SKU under concurrent requests                                       *)
(***************************************************************************)

LEMMA TypeInit == StockInit => StockTypeOK
  BY RacesAssumption DEF StockInit, StockTypeOK, NoRow, Idle

LEMMA TypeStep == StockTypeOK /\ [StockNext]_stockVars => StockTypeOK'
  <1> SUFFICES ASSUME StockTypeOK, [StockNext]_stockVars PROVE StockTypeOK'
    OBVIOUS
  <1>1. ASSUME NEW c \in Customers, NEW quantity \in 0..MaxQty, BeginMutation(c, quantity)
        PROVE  StockTypeOK'
    <2>1. [does |-> "mutation", quantity |-> quantity,
           seen |-> IF line[c] > 0 THEN stock ELSE Fresh,
           expires |-> IF quantity > 0 THEN now + CartTTL ELSE cart[c].expires]
          \in [does : {"nothing", "mutation", "checkout"}, seen : Nat \union {Fresh},
               quantity : 0..MaxQty, expires : Nat]
      BY RacesAssumption DEF StockTypeOK
    <2> QED
      BY <1>1, <2>1 DEF BeginMutation, StockTypeOK
  <1>2. ASSUME NEW c \in Customers, CommitMutation(c) PROVE StockTypeOK'
    <2>1. request[c].quantity \in 0..MaxQty /\ request[c].expires \in Nat /\ Idle.seen = Fresh
      BY DEF StockTypeOK, Idle
    <2>2. now \in Nat /\ now + CartTTL \in Nat /\ 0 \in 0..MaxQty
      BY RacesAssumption DEF StockTypeOK
    <2>3. row' \in [Customers ->
             [owner : {"none", "cart", "order"}, qty : 0..MaxQty, expires : Nat]]
      BY <1>2, <2>1, <2>2 DEF CommitMutation, StockTypeOK, NoRow
    <2>4. cart' \in [Customers ->
             [status : {"unused", "active", "expired", "checked_out"}, expires : Nat]]
      BY <1>2, <2>1, <2>2 DEF CommitMutation, StockTypeOK
    <2>5. request' \in [Customers ->
             [does : {"nothing", "mutation", "checkout"}, seen : Nat \union {Fresh},
              quantity : 0..MaxQty, expires : Nat]]
      BY <1>2, <2>2 DEF CommitMutation, StockTypeOK, Idle
    <2> QED
      BY <1>2, <2>1, <2>3, <2>4, <2>5 DEF CommitMutation, StockTypeOK
  <1>3. ASSUME NEW c \in Customers, BeginCheckout(c) PROVE StockTypeOK'
    <2>1. now + PaymentTTL \in Nat /\ 0 \in 0..MaxQty
      BY RacesAssumption DEF StockTypeOK
    <2> QED
      BY <1>3, <2>1 DEF BeginCheckout, StockTypeOK
  <1>4. ASSUME NEW c \in Customers, CommitCheckout(c) PROVE StockTypeOK'
    <2>1. row[c].qty \in 0..MaxQty /\ request[c].expires \in Nat /\ 0 \in 0..MaxQty
      BY RacesAssumption DEF StockTypeOK
    <2> QED
      BY SMTT(30), <1>4, <2>1 DEF CommitCheckout, StockTypeOK, Idle
  <1>5. ASSUME NEW c \in Customers, Rollback(c) PROVE StockTypeOK'
    BY <1>5, RacesAssumption DEF Rollback, StockTypeOK, Idle
  <1>6. ASSUME NEW c \in Customers, BeginConfirmation(c) \/ RollbackConfirmation(c)
        PROVE  StockTypeOK'
    BY <1>6 DEF BeginConfirmation, RollbackConfirmation, StockTypeOK
  <1>7. ASSUME NEW c \in Customers, CommitConfirmation(c) PROVE StockTypeOK'
    BY <1>7, RacesAssumption DEF CommitConfirmation, StockTypeOK, NoRow
  <1>8. ASSUME NEW c \in Customers, ExpireCart(c) PROVE StockTypeOK'
    BY <1>8, RacesAssumption DEF ExpireCart, StockTypeOK, NoRow
  <1>9. ASSUME NEW c \in Customers, NEW state \in {"payment_expired", "cancelled"},
               CloseOrder(c, state)
        PROVE  StockTypeOK'
    BY <1>9, RacesAssumption DEF CloseOrder, StockTypeOK, NoRow
  <1>10. ASSUME NEW quantity \in 0..MaxStock, CorrectStock(quantity) PROVE StockTypeOK'
    BY <1>10, RacesAssumption DEF CorrectStock, StockTypeOK
  <1>11. CASE Tick
    BY <1>11 DEF Tick, StockTypeOK
  <1>12. CASE UNCHANGED stockVars
    BY <1>12 DEF stockVars, StockTypeOK
  <1> QED
    BY <1>1, <1>2, <1>3, <1>4, <1>5, <1>6, <1>7, <1>8, <1>9, <1>10, <1>11, <1>12 DEF StockNext

\* Every variable keeps the shape of its column; stock_quantity is never
\* negative, although the confirmation compares with the stock only at its end.
THEOREM StockTyping == StockSpec => []StockTypeOK
  BY TypeInit, TypeStep, PTL DEF StockSpec

(***************************************************************************)
(* One customer's cart, line, reservation and order hang together between  *)
(* transactions.  LockedReadsHold needs it: a transaction that begins must *)
(* already find what it will rely on.                                      *)
(***************************************************************************)
Coherent(c) ==
  /\ row[c].owner = "cart" => row[c].qty = line[c] /\ cart[c].status = "active"
  /\ row[c].owner = "order" => row[c].qty = line[c] /\ order[c] = "pending_payment"
  /\ row[c].owner = "none" => row[c].qty = 0
  /\ row[c].owner # "none" => row[c].qty > 0
  /\ cart[c].status = "active" /\ line[c] > 0 => row[c].owner = "cart"
  /\ cart[c].status # "checked_out" => order[c] = "absent"
  /\ order[c] = "pending_payment" => row[c].owner = "order"
  /\ cart[c].status = "unused" => line[c] = 0

Protected(c) ==
  /\ request[c].does = "mutation" => cart[c].status \in {"unused", "active"}
  /\ request[c].does = "checkout" =>
       cart[c].status = "active" /\ row[c].owner = "cart" /\ row[c].qty = line[c]
  /\ webhook[c] =>
       order[c] = "pending_payment" /\ row[c].owner = "order" /\ row[c].qty = line[c]

RaceInv == \A c \in Customers : Coherent(c) /\ Protected(c)

LEMMA RaceInit == StockInit => RaceInv
  BY DEF StockInit, RaceInv, Coherent, Protected, NoRow, Idle

LEMMA RaceStep == StockTypeOK /\ RaceInv /\ [StockNext]_stockVars => RaceInv'
  <1> SUFFICES ASSUME StockTypeOK, RaceInv, [StockNext]_stockVars PROVE RaceInv'
    OBVIOUS
  <1> USE DEF StockTypeOK, RaceInv, Coherent, Protected
  <1>1. ASSUME NEW c \in Customers, NEW quantity \in 0..MaxQty, BeginMutation(c, quantity)
        PROVE  RaceInv'
    BY <1>1 DEF BeginMutation, Idle
  <1>2. ASSUME NEW c \in Customers, CommitMutation(c) PROVE RaceInv'
    BY <1>2, RacesAssumption DEF CommitMutation, NoRow, Idle
  <1>3. ASSUME NEW c \in Customers, BeginCheckout(c) PROVE RaceInv'
    BY <1>3 DEF BeginCheckout, Idle
  <1>4. ASSUME NEW c \in Customers, CommitCheckout(c) PROVE RaceInv'
    BY <1>4 DEF CommitCheckout, Idle
  <1>5. ASSUME NEW c \in Customers, Rollback(c) PROVE RaceInv'
    BY <1>5 DEF Rollback, Idle
  <1>6. ASSUME NEW c \in Customers, BeginConfirmation(c) \/ RollbackConfirmation(c)
        PROVE  RaceInv'
    <2>1. UNCHANGED <<cart, line, row, order, request>>
      BY <1>6 DEF BeginConfirmation, RollbackConfirmation
    <2>2. ASSUME NEW d \in Customers, webhook'[d] PROVE webhook[d] \/ order[d] = "pending_payment"
      BY <1>6, <2>2 DEF BeginConfirmation, RollbackConfirmation
    <2> QED
      BY <2>1, <2>2
  <1>7. ASSUME NEW c \in Customers, CommitConfirmation(c) PROVE RaceInv'
    BY <1>7 DEF CommitConfirmation, NoRow
  <1>8. ASSUME NEW c \in Customers, ExpireCart(c) PROVE RaceInv'
    BY <1>8 DEF ExpireCart, NoRow, Idle
  <1>9. ASSUME NEW c \in Customers, NEW state \in {"payment_expired", "cancelled"},
               CloseOrder(c, state)
        PROVE  RaceInv'
    BY <1>9 DEF CloseOrder, NoRow
  <1>10. ASSUME NEW quantity \in 0..MaxStock, CorrectStock(quantity) PROVE RaceInv'
    BY <1>10 DEF CorrectStock
  <1>11. ASSUME Tick \/ UNCHANGED stockVars PROVE RaceInv'
    BY <1>11 DEF Tick, stockVars
  <1> QED
    BY SMTT(30), <1>1, <1>2, <1>3, <1>4, <1>5, <1>6, <1>7, <1>8, <1>9, <1>10, <1>11 DEF StockNext

LEMMA RaceSafety == StockSpec => []RaceInv
  BY StockTyping, RaceInit, RaceStep, PTL DEF StockSpec

\* What an open transaction read under its row locks is still so when it writes.
THEOREM LocksProtect == StockSpec => []LockedReadsHold
  <1>1. RaceInv => LockedReadsHold
    BY DEF RaceInv, Protected, LockedReadsHold
  <1> QED
    BY <1>1, RaceSafety, PTL

\* Stock is held only for an active cart or an order awaiting payment.
THEOREM HoldersAreOpen == StockSpec => []OnlyOpenOwnersHold
  <1>1. StockTypeOK /\ RaceInv => OnlyOpenOwnersHold
    BY DEF StockTypeOK, RaceInv, Coherent, OnlyOpenOwnersHold
  <1> QED
    BY <1>1, StockTyping, RaceSafety, PTL

-----------------------------------------------------------------------------
LEMMA SoldFinite == IsFiniteSet(SoldUnits) /\ Cardinality(SoldUnits) \in Nat
  <1>1. IsFiniteSet(1..MaxQty)
    BY RacesAssumption, FS_Interval
  <1>2. IsFiniteSet(Customers \X (1..MaxQty))
    BY <1>1, RacesAssumption, FS_Product
  <1>3. SoldUnits \in SUBSET (Customers \X (1..MaxQty))
    BY DEF SoldUnits
  <1> QED
    BY <1>2, <1>3, FS_Subset, FS_CardinalityType

\* The units of one customer.
LEMMA UnitsOfOne ==
  ASSUME NEW c, NEW q \in Nat
  PROVE  IsFiniteSet({c} \X (1..q)) /\ Cardinality({c} \X (1..q)) = q
  <1> DEFINE S == {c}
             T == 1..q
  <1>1. IsFiniteSet(T) /\ Cardinality(T) = q
    BY FS_Interval
  <1>2. IsFiniteSet(S) /\ Cardinality(S) = 1
    BY FS_Singleton
  <1> HIDE DEF S, T
  <1>3. IsFiniteSet(S \X T) /\ Cardinality(S \X T) = 1 * q
    BY <1>1, <1>2, FS_Product
  <1> QED
    BY <1>3 DEF S, T

\* A payment adds the order's units to those sold.
LEMMA PaymentSells ==
  ASSUME StockTypeOK, RaceInv, NEW c \in Customers, CommitConfirmation(c)
  PROVE  Cardinality(SoldUnits') = Cardinality(SoldUnits) + row[c].qty
  <1> DEFINE q == row[c].qty
             A == SoldUnits
             B == {c} \X (1..q)
  <1>1. q \in 0..MaxQty /\ q = line[c] /\ order[c] = "pending_payment"
    BY DEF StockTypeOK, RaceInv, Protected, CommitConfirmation
  <1>2. line' = line /\ order' = [order EXCEPT ![c] = "paid"]
    BY DEF CommitConfirmation
  <1>3. \A d \in Customers : line[d] \in 0..MaxQty
                            /\ order'[d] = IF d = c THEN "paid" ELSE order[d]
    BY <1>2 DEF StockTypeOK
  <1>4. SoldUnits' = A \union B
    BY <1>1, <1>2, <1>3, RacesAssumption DEF SoldUnits
  <1>5. A \intersect B = {}
    BY <1>1 DEF SoldUnits
  <1>6. IsFiniteSet(B) /\ Cardinality(B) = q
    <2>1. q \in Nat
      BY <1>1, RacesAssumption
    <2> HIDE DEF q
    <2> QED
      BY <2>1, UnitsOfOne, Zenon
  <1>7. IsFiniteSet(A) /\ Cardinality(A) \in Nat
    BY SoldFinite
  <1>8. Cardinality({}) = 0
    BY FS_EmptySet
  <1>9. Cardinality(A \union B) = Cardinality(A) + Cardinality(B) - Cardinality({})
    BY <1>5, <1>6, <1>7, FS_Union
  <1> HIDE DEF A, B
  <1> QED
    BY <1>1, <1>4, <1>6, <1>7, <1>8, <1>9, RacesAssumption DEF A

LEMMA ConservedInit == StockInit => StockConserved
  <1> SUFFICES ASSUME StockInit PROVE StockConserved
    OBVIOUS
  <1>1. SoldUnits = {}
    BY DEF StockInit, SoldUnits
  <1> QED
    BY <1>1, FS_EmptySet, RacesAssumption DEF StockInit, StockConserved

LEMMA ConservedStep ==
  StockTypeOK /\ RaceInv /\ StockConserved /\ [StockNext]_stockVars => StockConserved'
  <1> SUFFICES ASSUME StockTypeOK, RaceInv, StockConserved, [StockNext]_stockVars
               PROVE  StockConserved'
    OBVIOUS
  <1>1. Cardinality(SoldUnits) \in Nat /\ stock \in Nat /\ supply \in Int
    BY SoldFinite DEF StockTypeOK
  <1>2. ASSUME stock' = stock, supply' = supply, SoldUnits' = SoldUnits PROVE StockConserved'
    BY <1>2 DEF StockConserved
  <1>3. ASSUME stock' = stock, supply' = supply, line' = line, order' = order
        PROVE  StockConserved'
    BY <1>2, <1>3 DEF SoldUnits
  <1>4. ASSUME NEW c \in Customers, CommitMutation(c) PROVE StockConserved'
    <2>1. order[c] # "paid" /\ order' = order
      BY <1>4 DEF CommitMutation, RaceInv, Coherent, Protected
    <2>2. \A d \in Customers : d # c => line'[d] = line[d]
      BY <1>4 DEF CommitMutation, StockTypeOK
    <2>3. SoldUnits' = SoldUnits
      BY <2>1, <2>2 DEF SoldUnits
    <2> QED
      BY <1>2, <1>4, <2>3 DEF CommitMutation
  <1>5. ASSUME NEW c \in Customers, CommitCheckout(c) PROVE StockConserved'
    <2>1. /\ order[c] # "paid" /\ order'[c] # "paid" /\ line' = line
          /\ \A d \in Customers : d # c => order'[d] = order[d]
      BY <1>5 DEF CommitCheckout, RaceInv, Coherent, Protected, StockTypeOK
    <2>2. SoldUnits' = SoldUnits
      BY <2>1 DEF SoldUnits
    <2> QED
      BY <1>2, <1>5, <2>2 DEF CommitCheckout
  <1>6. ASSUME NEW c \in Customers, NEW state \in {"payment_expired", "cancelled"},
               CloseOrder(c, state)
        PROVE  StockConserved'
    <2>1. /\ order[c] # "paid" /\ order'[c] # "paid" /\ line' = line
          /\ \A d \in Customers : d # c => order'[d] = order[d]
      BY <1>6 DEF CloseOrder, StockTypeOK
    <2>2. SoldUnits' = SoldUnits
      BY <2>1 DEF SoldUnits
    <2> QED
      BY <1>2, <1>6, <2>2 DEF CloseOrder
  <1>7. ASSUME NEW c \in Customers, CommitConfirmation(c) PROVE StockConserved'
    <2>1. Cardinality(SoldUnits') = Cardinality(SoldUnits) + row[c].qty
      BY <1>7, PaymentSells
    <2>2. stock' = stock - row[c].qty /\ supply' = supply /\ row[c].qty \in Int
      BY <1>7, RacesAssumption DEF CommitConfirmation, StockTypeOK
    <2> QED
      BY <1>1, <2>1, <2>2 DEF StockConserved
  <1>8. ASSUME NEW quantity \in 0..MaxStock, CorrectStock(quantity) PROVE StockConserved'
    <2>1. SoldUnits' = SoldUnits
      BY <1>8 DEF CorrectStock, SoldUnits
    <2>2. stock' = quantity /\ supply' = supply + quantity - stock /\ quantity \in Int
      BY <1>8, RacesAssumption DEF CorrectStock
    <2> QED
      BY <1>1, <2>1, <2>2 DEF StockConserved
  <1>9. ASSUME NEW c \in Customers,
               \/ \E quantity \in 0..MaxQty : BeginMutation(c, quantity)
               \/ BeginCheckout(c)
               \/ Rollback(c)
               \/ BeginConfirmation(c)
               \/ RollbackConfirmation(c)
               \/ ExpireCart(c)
        PROVE  StockConserved'
    BY <1>3, <1>9 DEF BeginMutation, BeginCheckout, Rollback, BeginConfirmation,
                      RollbackConfirmation, ExpireCart
  <1>10. ASSUME Tick \/ UNCHANGED stockVars PROVE StockConserved'
    BY <1>3, <1>10 DEF Tick, stockVars
  <1> QED
    BY <1>4, <1>5, <1>6, <1>7, <1>8, <1>9, <1>10 DEF StockNext

\* Every unit delivered is in stock or in exactly one paid order.
THEOREM NothingLost == StockSpec => []StockConserved
  BY StockTyping, RaceSafety, ConservedInit, ConservedStep, PTL DEF StockSpec

-----------------------------------------------------------------------------
(***************************************************************************)
(* The workers and the outbox: the loop implements the outbox's promise    *)
(***************************************************************************)

LEMMA ClaimedRow ==
  ASSUME NEW r \in Rows, NEW n \in Nat
  PROVE  [r EXCEPT !.claim = "held", !.attempts = n] \in Rows
BY DEF Rows

(***************************************************************************)
(* Every row of the outbox and every worker keeps its shape.               *)
(***************************************************************************)
THEOREM Typing == Spec => []TypeOK
<1> USE DEF TypeOK, Rows
<1>1. Init => TypeOK
  BY DEF Init, NoEvent
<1>2. TypeOK /\ [Next]_vars => TypeOK'
  <2> SUFFICES ASSUME TypeOK, [Next]_vars
               PROVE  TypeOK'
    OBVIOUS
  <2>1. CASE UNCHANGED vars
    BY <2>1 DEF vars
  <2>2. ASSUME NEW e \in Events, Emit(e)
        PROVE  TypeOK'
    <3>1. PICK due \in BOOLEAN :
            event' = [event EXCEPT ![e] = [@ EXCEPT !.state = "open", !.due = due]]
      BY <2>2 DEF Emit
    <3>2. [event[e] EXCEPT !.state = "open", !.due = due] \in Rows
      OBVIOUS
    <3>3. event' \in [Events -> Rows]
      BY <3>1, <3>2
    <3> QED
      BY <2>2, <3>3 DEF Emit
  <2>3. ASSUME NEW e \in Events, LeaseLapses(e)
        PROVE  TypeOK'
    BY <2>3 DEF LeaseLapses
  <2>4. ASSUME NEW e \in Events, RetryFallsDue(e)
        PROVE  TypeOK'
    BY <2>4 DEF RetryFallsDue, Open
  <2>5. ASSUME NEW w \in Workers, Claim(w)
        PROVE  TypeOK'
    <3>1. PICK batch \in SUBSET {e \in Events : Claimable(e)} :
            /\ todo' = [todo EXCEPT ![w] = batch]
            /\ event' = [e \in Events |->
                 IF e \in batch
                 THEN [event[e] EXCEPT !.claim = "held", !.attempts = @ + 1]
                 ELSE event[e]]
      BY <2>5 DEF Claim
    <3>2. event' \in [Events -> Rows]
      <4>1. ASSUME NEW e \in Events
            PROVE  [event[e] EXCEPT !.claim = "held", !.attempts = @ + 1] \in Rows
        <5>1. event[e] \in Rows /\ event[e].attempts + 1 \in Nat
          OBVIOUS
        <5> QED
          BY <5>1, ClaimedRow
      <4> QED
        BY <3>1, <4>1
    <3>3. todo' \in [Workers -> SUBSET Events]
      BY <3>1
    <3> QED
      BY <2>5, <3>2, <3>3 DEF Claim
  <2>6. ASSUME NEW w \in Workers, Crash(w)
        PROVE  TypeOK'
    BY <2>6 DEF Crash
  <2>7. ASSUME NEW w \in Workers, NEW e \in Events, Process(w, e)
        PROVE  TypeOK'
    BY ZenonT(30), <2>7, OutboxAssumption DEF Process, Handled
  <2>8. ASSUME NEW w \in Workers, NEW e \in Events, Skip(w, e)
        PROVE  TypeOK'
    BY <2>8 DEF Skip, Handled
  <2>9. ASSUME NEW w \in Workers, NEW e \in Events, Fail(w, e)
        PROVE  TypeOK'
    <3>1. /\ [event[e] EXCEPT !.claim = "free", !.state = "dead"] \in Rows
          /\ [event[e] EXCEPT !.claim = "free", !.due = FALSE] \in Rows
      OBVIOUS
    <3>2. event' \in [Events -> Rows]
      BY <2>9, <3>1 DEF Fail
    <3> QED
      BY <2>9, <3>2 DEF Fail, Handled
  <2> QED
    BY <2>1, <2>2, <2>3, <2>4, <2>5, <2>6, <2>7, <2>8, <2>9 DEF Next, Handle
<1> QED
  BY <1>1, <1>2, PTL DEF Spec

(***************************************************************************)
(* Safety of the promise: every step of the loop, of a crash or of the     *)
(* passing of time is a step of OutboxPromise or changes nothing it shows. *)
(***************************************************************************)
THEOREM SafePromise == Spec => KeepsSafePromise
<1> DEFINE fateOf == [e \in Events |-> event[e].state]
<1>1. Init => Promise!Init
  BY DEF Init, NoEvent, Promise!Init
<1>2. TypeOK /\ [Next]_vars => [Promise!Next]_(Promise!vars)
  <2> SUFFICES ASSUME TypeOK, [Next]_vars
               PROVE  Promise!Next \/ UNCHANGED Promise!vars
    OBVIOUS
  <2> USE DEF TypeOK, Rows
  <2>0. ASSUME fateOf' = fateOf, told' = told
        PROVE  UNCHANGED Promise!vars
    BY <2>0 DEF Promise!vars
  <2>1. CASE UNCHANGED vars
    BY <2>1, <2>0 DEF vars
  <2>2. ASSUME NEW e \in Events, Emit(e)
        PROVE  Promise!Next
    <3>1. PICK due \in BOOLEAN :
            event' = [event EXCEPT ![e] = [@ EXCEPT !.state = "open", !.due = due]]
      BY <2>2 DEF Emit
    <3>2. fateOf' = [fateOf EXCEPT ![e] = "open"]
      BY <3>1
    <3>3. Promise!Emit(e)
      BY <2>2, <3>2 DEF Emit, Promise!Emit
    <3> QED
      BY <3>3 DEF Promise!Next
  <2>3. ASSUME NEW e \in Events, LeaseLapses(e)
        PROVE  UNCHANGED Promise!vars
    BY <2>3, <2>0 DEF LeaseLapses
  <2>4. ASSUME NEW e \in Events, RetryFallsDue(e)
        PROVE  UNCHANGED Promise!vars
    BY <2>4, <2>0 DEF RetryFallsDue
  <2>5. ASSUME NEW w \in Workers, Claim(w)
        PROVE  UNCHANGED Promise!vars
    BY ZenonT(30), <2>5, <2>0 DEF Claim
  <2>6. ASSUME NEW w \in Workers, Crash(w)
        PROVE  UNCHANGED Promise!vars
    BY <2>6, <2>0 DEF Crash
  <2>7. ASSUME NEW w \in Workers, NEW e \in Events, Process(w, e)
        PROVE  Promise!Next
    <3>1. Promise!Notify(e)
      BY <2>7 DEF Process, Claimed, Open, Promise!Notify, Promise!NoticesOf
    <3> QED
      BY <3>1 DEF Promise!Next, Promise!Settle
  <2>8. ASSUME NEW w \in Workers, NEW e \in Events, Skip(w, e)
        PROVE  UNCHANGED Promise!vars
    BY <2>8, <2>0 DEF Skip
  <2>9. ASSUME NEW w \in Workers, NEW e \in Events, Fail(w, e)
        PROVE  Promise!Next \/ UNCHANGED Promise!vars
    <3>1. CASE GivesUp(e)
      <4>1. Promise!Drop(e)
        BY <2>9, <3>1 DEF Fail, Claimed, Open, Promise!Drop
      <4> QED
        BY <4>1 DEF Promise!Next, Promise!Settle
    <3>2. CASE ~GivesUp(e)
      BY <2>9, <3>2, <2>0 DEF Fail, Claimed, Open
    <3> QED
      BY <3>1, <3>2
  <2> QED
    BY <2>1, <2>2, <2>3, <2>4, <2>5, <2>6, <2>7, <2>8, <2>9 DEF Next, Handle
<1> QED
  BY <1>1, <1>2, Typing, PTL DEF Spec, KeepsSafePromise, Promise!SafeSpec

(***************************************************************************)
(* Why attempts are bounded.  An open event that nobody has claimed failed *)
(* fewer than MaxAttempts times.  From there every claim adds a worker that*)
(* means to handle it, and a worker leaves without settling or releasing   *)
(* the event only by crashing.                                             *)
(***************************************************************************)
Holders(e) == {w \in Workers : e \in todo[w]}

AttemptsExplained(e) ==
  /\ event[e].state = "absent" => event[e].attempts = 0 /\ event[e].claim = "free"
  /\ Open(e) /\ event[e].claim = "free" => event[e].attempts < MaxAttempts
  /\ Open(e) /\ event[e].claim # "free" =>
       event[e].attempts < MaxAttempts + Cardinality(Holders(e)) + crashes

Ledger == AttemptsBounded /\ \A e \in Events : AttemptsExplained(e)

LEMMA HoldersCount ==
  ASSUME NEW e \in Events
  PROVE  /\ IsFiniteSet(Holders(e))
         /\ Cardinality(Holders(e)) \in Nat
         /\ Cardinality(Workers) \in Nat
         /\ Cardinality(Holders(e)) <= Cardinality(Workers)
<1>1. IsFiniteSet(Workers) /\ Holders(e) \subseteq Workers
  BY OutboxAssumption DEF Holders
<1> QED
  BY <1>1, FS_Subset, FS_CardinalityType

(* A worker that takes up or lays down events changes the count of each by   *)
(* at most one.                                                              *)
LEMMA OneHolderMore ==
  ASSUME TypeOK, NEW e \in Events, NEW w \in Workers, e \notin todo[w], e \in todo'[w],
         \A v \in Workers \ {w} : todo'[v] = todo[v]
  PROVE  Cardinality(Holders(e)') = Cardinality(Holders(e)) + 1
<1>1. Holders(e)' = Holders(e) \union {w} /\ w \notin Holders(e)
  BY DEF Holders
<1> QED
  BY <1>1, HoldersCount, FS_AddElement

LEMMA OneHolderLess ==
  ASSUME TypeOK, NEW e \in Events, NEW w \in Workers, e \in todo[w], e \notin todo'[w],
         \A v \in Workers \ {w} : todo'[v] = todo[v]
  PROVE  Cardinality(Holders(e)') = Cardinality(Holders(e)) - 1
<1>1. Holders(e)' = Holders(e) \ {w} /\ w \in Holders(e)
  BY DEF Holders
<1> QED
  BY <1>1, HoldersCount, FS_RemoveElement

LEMMA SameHolders ==
  ASSUME NEW e \in Events, \A v \in Workers : e \in todo'[v] <=> e \in todo[v]
  PROVE  Cardinality(Holders(e)') = Cardinality(Holders(e))
<1>1. Holders(e)' = Holders(e)
  BY DEF Holders
<1> QED
  BY <1>1

(***************************************************************************)
(* However workers crash or overlap, an event is claimed fewer than        *)
(* MaxAttempts + |Workers| + crashes times.                                *)
(***************************************************************************)
THEOREM AttemptsAreBounded == Spec => []AttemptsBounded
<1>1. Init => Ledger
  <2> SUFFICES ASSUME Init PROVE Ledger
    OBVIOUS
  <2>1. Cardinality(Workers) \in Nat
    BY OutboxAssumption, FS_CardinalityType
  <2> QED
    BY <2>1, OutboxAssumption DEF Init, NoEvent, Ledger, AttemptsBounded, AttemptsExplained, Open
<1>2. TypeOK /\ TypeOK' /\ Ledger /\ [Next]_vars => Ledger'
  <2> SUFFICES ASSUME TypeOK, TypeOK', Ledger, [Next]_vars
               PROVE  Ledger'
    OBVIOUS
  <2> SUFFICES ASSUME NEW e \in Events
               PROVE  /\ (event[e].attempts < MaxAttempts + Cardinality(Workers) + crashes)'
                      /\ AttemptsExplained(e)'
    BY DEF Ledger, AttemptsBounded
  <2> DEFINE held == Cardinality(Holders(e))
  <2>0. /\ event[e].attempts \in Nat /\ event'[e].attempts \in Nat
        /\ crashes \in Nat /\ crashes' \in Nat
        /\ MaxAttempts \in Nat \ {0}
        /\ Cardinality(Workers) \in Nat /\ held \in Nat /\ held <= Cardinality(Workers)
        /\ event[e].attempts < MaxAttempts + Cardinality(Workers) + crashes
        /\ AttemptsExplained(e)
    BY HoldersCount, OutboxAssumption DEF TypeOK, Rows, Ledger, AttemptsBounded
  <2>1. ASSUME event'[e] = event[e], crashes' = crashes,
               \A v \in Workers : e \in todo'[v] <=> e \in todo[v]
        PROVE  /\ (event[e].attempts < MaxAttempts + Cardinality(Workers) + crashes)'
               /\ AttemptsExplained(e)'
    BY <2>0, <2>1, SameHolders DEF AttemptsExplained, Open
  <2>2. CASE UNCHANGED vars
    BY <2>2, <2>1 DEF vars
  <2>3. ASSUME NEW f \in Events, Emit(f)
        PROVE  /\ (event[e].attempts < MaxAttempts + Cardinality(Workers) + crashes)'
               /\ AttemptsExplained(e)'
    <3>1. CASE f = e
      <4>1. /\ event'[e].state = "open" /\ event'[e].claim = "free"
            /\ event'[e].attempts = 0 /\ crashes' = crashes
        BY <2>0, <2>3, <3>1 DEF Emit, TypeOK, Rows, AttemptsExplained
      <4> QED
        BY <2>0, <4>1 DEF AttemptsExplained, Open
    <3>2. CASE f # e
      BY <2>1, <2>3, <3>2 DEF Emit, TypeOK, Rows
    <3> QED
      BY <3>1, <3>2
  <2>4. ASSUME NEW f \in Events, LeaseLapses(f)
        PROVE  /\ (event[e].attempts < MaxAttempts + Cardinality(Workers) + crashes)'
               /\ AttemptsExplained(e)'
    <3>1. CASE f = e
      <4>1. /\ event[e].claim = "held" /\ event'[e].claim = "stale"
            /\ event'[e].state = event[e].state
            /\ event'[e].attempts = event[e].attempts
            /\ crashes' = crashes /\ todo' = todo
        BY <2>4, <3>1 DEF LeaseLapses, TypeOK, Rows
      <4> QED
        BY <2>0, <4>1, SameHolders DEF AttemptsExplained, Open
    <3>2. CASE f # e
      BY <2>1, <2>4, <3>2 DEF LeaseLapses, TypeOK, Rows
    <3> QED
      BY <3>1, <3>2
  <2>5. ASSUME NEW f \in Events, RetryFallsDue(f)
        PROVE  /\ (event[e].attempts < MaxAttempts + Cardinality(Workers) + crashes)'
               /\ AttemptsExplained(e)'
    <3>1. /\ event'[e].state = event[e].state /\ event'[e].claim = event[e].claim
          /\ event'[e].attempts = event[e].attempts
          /\ crashes' = crashes /\ todo' = todo
      BY <2>5 DEF RetryFallsDue, TypeOK, Rows
    <3> QED
      BY <2>0, <3>1, SameHolders DEF AttemptsExplained, Open
  <2>6. ASSUME NEW w \in Workers, Claim(w)
        PROVE  /\ (event[e].attempts < MaxAttempts + Cardinality(Workers) + crashes)'
               /\ AttemptsExplained(e)'
    <3>1. PICK batch \in SUBSET {f \in Events : Claimable(f)} :
            /\ todo' = [todo EXCEPT ![w] = batch]
            /\ event' = [f \in Events |->
                 IF f \in batch
                 THEN [event[f] EXCEPT !.claim = "held", !.attempts = @ + 1]
                 ELSE event[f]]
      BY <2>6 DEF Claim
    <3>2. todo[w] = {} /\ crashes' = crashes
      BY <2>6 DEF Claim
    <3>3. CASE e \in batch
      <4>1. Open(e) /\ event[e].claim # "held"
        BY <3>1, <3>3 DEF Claimable
      <4>2. /\ event'[e].claim = "held" /\ event'[e].state = "open"
            /\ event'[e].attempts = event[e].attempts + 1
        BY <3>1, <3>3, <4>1 DEF TypeOK, Rows, Open
      <4>3. Cardinality(Holders(e)') = held + 1
        <5>1. e \notin todo[w] /\ e \in todo'[w] /\ \A v \in Workers \ {w} : todo'[v] = todo[v]
          BY <3>1, <3>2, <3>3 DEF TypeOK, Rows
        <5> QED
          BY <5>1, OneHolderMore
      <4>4. held + 1 <= Cardinality(Workers)
        <5>1. IsFiniteSet(Workers) /\ Holders(e)' \subseteq Workers
          BY OutboxAssumption DEF Holders
        <5> QED
          BY <4>3, <5>1, FS_Subset
      <4>5. event[e].attempts + 1 < MaxAttempts + (held + 1) + crashes
        BY <2>0, <4>1 DEF AttemptsExplained
      <4> HIDE DEF held
      <4> QED
        BY <2>0, <3>2, <4>2, <4>3, <4>4, <4>5 DEF AttemptsExplained, Open
    <3>4. CASE e \notin batch
      BY <2>1, <3>1, <3>2, <3>4 DEF TypeOK, Rows
    <3> QED
      BY <3>3, <3>4
  <2>7. ASSUME NEW w \in Workers, Crash(w)
        PROVE  /\ (event[e].attempts < MaxAttempts + Cardinality(Workers) + crashes)'
               /\ AttemptsExplained(e)'
    <3>1. event' = event /\ crashes' = crashes + 1 /\ todo' = [todo EXCEPT ![w] = {}]
      BY <2>7 DEF Crash
    <3>2. Cardinality(Holders(e)') \in {held, held - 1}
      <4>1. e \notin todo'[w] /\ \A v \in Workers \ {w} : todo'[v] = todo[v]
        BY <3>1 DEF TypeOK, Rows
      <4>2. CASE e \in todo[w]
        BY <4>1, <4>2, OneHolderLess
      <4>3. CASE e \notin todo[w]
        BY <4>1, <4>3, SameHolders
      <4> QED
        BY <4>2, <4>3
    <3>3. /\ event[e].attempts < MaxAttempts + Cardinality(Workers) + crashes'
          /\ event[e].attempts < MaxAttempts + held + crashes =>
               event[e].attempts < MaxAttempts + Cardinality(Holders(e)') + crashes'
      BY <2>0, <3>1, <3>2
    <3> QED
      BY <2>0, <3>1, <3>3 DEF AttemptsExplained, Open
  <2>8. ASSUME NEW w \in Workers, NEW f \in Events, Handle(w, f)
        PROVE  /\ (event[e].attempts < MaxAttempts + Cardinality(Workers) + crashes)'
               /\ AttemptsExplained(e)'
    <3>1. crashes' = crashes /\ todo' = [todo EXCEPT ![w] = @ \ {f}]
      BY <2>8 DEF Handle, Process, Skip, Fail, Handled
    <3>2. CASE f # e
      <4>1. event'[e] = event[e]
        BY <2>8, <3>2 DEF Handle, Process, Skip, Fail, TypeOK, Rows
      <4>2. \A v \in Workers : e \in todo'[v] <=> e \in todo[v]
        BY <3>1, <3>2 DEF TypeOK, Rows
      <4> QED
        BY <2>1, <3>1, <4>1, <4>2
    <3>3. CASE f = e
      <4>0. ASSUME Fail(w, e)
            PROVE  \/ GivesUp(e) /\ event'[e] = [event[e] EXCEPT !.claim = "free", !.state = "dead"]
                   \/ ~GivesUp(e) /\ Open(e)
                        /\ event'[e] = [event[e] EXCEPT !.claim = "free", !.due = FALSE]
        BY <4>0 DEF Fail, Claimed, TypeOK
      <4>1. event'[e].attempts = event[e].attempts
        <5>1. CASE Process(w, e) \/ Skip(w, e)
          BY <5>1 DEF Process, Skip, TypeOK, Rows
        <5>2. CASE Fail(w, e)
          BY <4>0, <5>2 DEF TypeOK, Rows
        <5> QED
          BY <2>8, <3>3, <5>1, <5>2 DEF Handle
      <4>2. \/ event'[e].state \in {"processed", "dead"}
            \/ /\ event'[e].state = "open" /\ event'[e].claim = "free"
               /\ event[e].attempts < MaxAttempts
            \/ event'[e] = event[e] /\ ~Claimed(e)
        <5>1. CASE Process(w, e)
          BY <5>1 DEF Process, TypeOK, Rows
        <5>2. CASE Skip(w, e)
          BY <5>2 DEF Skip
        <5>3. CASE Fail(w, e)
          <6>1. CASE /\ GivesUp(e)
                     /\ event'[e] = [event[e] EXCEPT !.claim = "free", !.state = "dead"]
            BY <6>1 DEF TypeOK, Rows
          <6>2. CASE /\ ~GivesUp(e) /\ Open(e)
                     /\ event'[e] = [event[e] EXCEPT !.claim = "free", !.due = FALSE]
            <7>1. event'[e].state = "open" /\ event'[e].claim = "free"
              BY <6>2 DEF Open, TypeOK, Rows
            <7>2. event[e].attempts < MaxAttempts
              BY <2>0, <6>2 DEF GivesUp
            <7> QED
              BY <7>1, <7>2
          <6> QED
            BY <4>0, <5>3, <6>1, <6>2
        <5> QED
          BY <2>8, <3>3, <5>1, <5>2, <5>3 DEF Handle
      <4>3. CASE event'[e].state \in {"processed", "dead"}
        BY <2>0, <3>1, <4>1, <4>3 DEF AttemptsExplained, Open
      <4>4. CASE /\ event'[e].state = "open" /\ event'[e].claim = "free"
                 /\ event[e].attempts < MaxAttempts
        BY <2>0, <3>1, <4>1, <4>4 DEF AttemptsExplained, Open
      <4>5. CASE event'[e] = event[e] /\ ~Claimed(e)
        <5>1. ~Open(e)' \/ event'[e].claim = "free"
          BY <4>5 DEF Claimed, Open
        <5> QED
          BY <2>0, <3>1, <4>5, <5>1 DEF AttemptsExplained, Open
      <4> QED
        BY <4>2, <4>3, <4>4, <4>5
    <3> QED
      BY <3>2, <3>3
  <2> QED
    BY <2>2, <2>3, <2>4, <2>5, <2>6, <2>7, <2>8 DEF Next
<1>3. Ledger => AttemptsBounded
  BY DEF Ledger
<1> QED
  BY <1>1, <1>2, <1>3, Typing, PTL DEF Spec
=============================================================================
