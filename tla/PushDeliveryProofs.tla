------------------------- MODULE PushDeliveryProofs -------------------------
(* What delivery rows say, for any notifications, devices, workers, crashes  *)
(* and sessions.                                                             *)
EXTENDS PushDelivery, FiniteSetTheorems, TLAPS

(***************************************************************************)
(* What the pass does to a row.                                            *)
(***************************************************************************)
LEMMA RowsOfThePass ==
  ASSUME NEW r \in Rows, NEW n \in Nat
  PROVE  /\ [r EXCEPT !.claim = "held", !.attempts = n] \in Rows
         /\ [r EXCEPT !.claim = "free", !.state = "sent"] \in Rows
         /\ [r EXCEPT !.claim = "stale"] \in Rows
         /\ [r EXCEPT !.due = TRUE] \in Rows
         /\ GivenUp(r) \in Rows
         /\ PutOff(r) \in Rows
         /\ Requeued(r) \in Rows
BY DEF Rows, GivenUp, PutOff, Requeued

(***************************************************************************)
(* Every row, device and worker keeps its shape.                           *)
(***************************************************************************)
THEOREM Typing == Spec => []TypeOK
<1>1. Init => TypeOK
  BY DEF Init, NoPush, TypeOK, Rows
<1>2. TypeOK /\ [Next]_vars => TypeOK'
  <2> SUFFICES ASSUME TypeOK, [Next]_vars
               PROVE  TypeOK'
    OBVIOUS
  <2> USE DEF TypeOK
  <2>1. CASE UNCHANGED vars
    BY <2>1 DEF vars, worker, bounds
  <2>2. ASSUME NEW n \in Notices, CreateNotification(n)
        PROVE  TypeOK'
    <3>1. [state |-> "pending", due |-> TRUE, claim |-> "free", attempts |-> 0] \in Rows
      BY DEF Rows
    <3> QED
      BY <2>2, <3>1 DEF CreateNotification, worker, bounds
  <2>3. ASSUME NEW u \in Users, NEW d \in Devices, RegisterDevice(u, d)
        PROVE  TypeOK'
    BY <2>3 DEF RegisterDevice, worker
  <2>4. ASSUME NEW u \in Users, NEW d \in Devices, DeactivateDevice(u, d)
        PROVE  TypeOK'
    <3>1. /\ device[d].user \in Users \union {Nothing}
          /\ device' = [device EXCEPT ![d].active = FALSE]
      BY <2>4 DEF DeactivateDevice
    <3>2. [device[d] EXCEPT !.active = FALSE]
            \in [user : Users \union {Nothing}, active : BOOLEAN]
      OBVIOUS
    <3>3. device' \in [Devices -> [user : Users \union {Nothing}, active : BOOLEAN]]
      BY <3>1, <3>2
    <3> QED
      BY <2>4, <3>3 DEF DeactivateDevice, worker
  <2>5. ASSUME NEW w \in Workers, ClaimBatch(w)
        PROVE  TypeOK'
    <3>1. PICK batch \in SUBSET {p \in Deliveries : Claimable(p)} :
            /\ todo' = [todo EXCEPT ![w] = batch]
            /\ push' = [p \in Deliveries |->
                 IF p \in batch
                 THEN [push[p] EXCEPT !.claim = "held", !.attempts = @ + 1]
                 ELSE push[p]]
      BY <2>5 DEF ClaimBatch
    <3>2. push' \in [Deliveries -> Rows]
      <4>1. ASSUME NEW p \in Deliveries
            PROVE  [push[p] EXCEPT !.claim = "held", !.attempts = @ + 1] \in Rows
        <5>1. push[p] \in Rows /\ push[p].attempts + 1 \in Nat
          BY DEF Rows
        <5> QED
          BY <5>1, RowsOfThePass
      <4> QED
        BY <3>1, <4>1
    <3> QED
      BY <2>5, <3>1, <3>2 DEF ClaimBatch, bounds
  <2>6. ASSUME NEW w \in Workers, NEW p \in Deliveries, Prepare(w, p)
        PROVE  TypeOK'
    BY <2>6 DEF Prepare, bounds
  <2>7. ASSUME NEW w \in Workers, NEW p \in Deliveries, Refuse(w, p)
        PROVE  TypeOK'
    <3>1. push' \in [Deliveries -> Rows]
      BY <2>7, RowsOfThePass DEF Refuse
    <3> QED
      BY <2>7, <3>1 DEF Refuse, bounds
  <2>8. ASSUME NEW w \in Workers, Send(w)
        PROVE  TypeOK'
    BY <2>8 DEF Send, bounds
  <2>9. ASSUME NEW w \in Workers, MarkSent(w)
        PROVE  TypeOK'
    <3>1. push' \in [Deliveries -> Rows]
      BY <2>9, RowsOfThePass DEF MarkSent, Answered
    <3> QED
      BY <2>9, <3>1 DEF MarkSent, Finished, bounds
  <2>10. ASSUME NEW w \in Workers, MarkInvalidToken(w)
         PROVE  TypeOK'
    <3>1. push' \in [Deliveries -> Rows]
      BY <2>10, RowsOfThePass DEF MarkInvalidToken, Answered
    <3> QED
      BY ZenonT(30), <2>10, <3>1 DEF MarkInvalidToken, Finished, bounds
  <2>11. ASSUME NEW w \in Workers, MarkRetryableFailure(w)
         PROVE  TypeOK'
    <3>1. sending[w] \in Deliveries
      BY <2>11 DEF MarkRetryableFailure, Answered
    <3>2. push' \in [Deliveries -> Rows]
      BY <2>11, <3>1, RowsOfThePass DEF MarkRetryableFailure
    <3> QED
      BY <2>11, <3>2 DEF MarkRetryableFailure, Finished, bounds
  <2>12. ASSUME NEW w \in Workers, Crash(w)
         PROVE  TypeOK'
    BY <2>12 DEF Crash
  <2>13. ASSUME NEW p \in Deliveries, RetryDelivery(p)
         PROVE  TypeOK'
    <3>1. push' \in [Deliveries -> Rows]
      BY <2>13, RowsOfThePass DEF RetryDelivery
    <3> QED
      BY <2>13, <3>1 DEF RetryDelivery, worker
  <2>14. ASSUME NEW p \in Deliveries, LeaseLapses(p) \/ RetryFallsDue(p)
         PROVE  TypeOK'
    <3>1. \/ push' = [push EXCEPT ![p] = [@ EXCEPT !.claim = "stale"]]
          \/ push' = [push EXCEPT ![p] = [@ EXCEPT !.due = TRUE]]
      BY <2>14 DEF LeaseLapses, RetryFallsDue
    <3>2. /\ [push[p] EXCEPT !.claim = "stale"] \in Rows
          /\ [push[p] EXCEPT !.due = TRUE] \in Rows
      BY RowsOfThePass
    <3>3. push' \in [Deliveries -> Rows]
      BY <3>1, <3>2
    <3> QED
      BY <2>14, <3>3 DEF LeaseLapses, RetryFallsDue, worker, bounds
  <2> QED
    BY <2>1, <2>2, <2>3, <2>4, <2>5, <2>6, <2>7, <2>8, <2>9, <2>10, <2>11, <2>12,
       <2>13, <2>14 DEF Next, Handle
<1> QED
  BY <1>1, <1>2, PTL DEF Spec

(***************************************************************************)
(* The strengthening both invariants need: a worker that heard "sent" is   *)
(* about to record a delivery the provider accepted.                       *)
(***************************************************************************)
AnswersAreTrue ==
  \A w \in Workers : answer[w] = "sent" => sending[w] \in accepted

Report == SentWasAccepted /\ DeadLettersRetryable /\ AnswersAreTrue

LEMMA ReportIsInvariant == Spec => []Report
<1>1. Init => Report
  BY DEF Init, NoPush, Report, SentWasAccepted, DeadLettersRetryable, Settled, AnswersAreTrue
<1>2. TypeOK /\ Report /\ [Next]_vars => Report'
  <2> SUFFICES ASSUME TypeOK, Report, [Next]_vars
               PROVE  Report'
    OBVIOUS
  <2> USE DEF Report, SentWasAccepted, DeadLettersRetryable, Settled, AnswersAreTrue,
              TypeOK, Rows
  <2>1. CASE UNCHANGED vars
    BY <2>1 DEF vars, worker, bounds
  <2>2. ASSUME NEW n \in Notices, CreateNotification(n)
        PROVE  Report'
    BY <2>2 DEF CreateNotification, worker
  <2>3. ASSUME NEW u \in Users, NEW d \in Devices,
               RegisterDevice(u, d) \/ DeactivateDevice(u, d)
        PROVE  Report'
    BY <2>3 DEF RegisterDevice, DeactivateDevice, worker
  <2>4. ASSUME NEW w \in Workers, ClaimBatch(w)
        PROVE  Report'
    <3>1. PICK batch \in SUBSET {p \in Deliveries : Claimable(p)} :
            push' = [p \in Deliveries |->
                 IF p \in batch
                 THEN [push[p] EXCEPT !.claim = "held", !.attempts = @ + 1]
                 ELSE push[p]]
      BY <2>4 DEF ClaimBatch
    <3>2. ASSUME NEW p \in Deliveries
          PROVE  /\ push'[p].state = push[p].state
                 /\ Settled(p) => push'[p] = push[p]
      BY ZenonT(30), <3>1 DEF Claimable, Waiting
    <3> QED
      BY <2>4, <3>2 DEF ClaimBatch
  <2>5. ASSUME NEW w \in Workers, NEW p \in Deliveries, Prepare(w, p)
        PROVE  Report'
    <3>1. /\ \A q \in Deliveries : push'[q] = push[q]
          /\ answer' = answer /\ accepted' = accepted
      BY <2>5 DEF Prepare, bounds
    <3>2. ASSUME NEW v \in Workers, answer[v] = "sent"
          PROVE  sending'[v] \in accepted
      <4>1. sending[v] \in accepted /\ sending[v] \in Deliveries
        BY <3>2
      <4>2. v # w
        BY <2>5, <4>1, DeliveryAssumption DEF Prepare
      <4> QED
        BY <2>5, <3>2, <4>1, <4>2 DEF Prepare
    <3> QED
      BY <3>1, <3>2
  <2>6. ASSUME NEW w \in Workers, NEW p \in Deliveries, Refuse(w, p)
        PROVE  Report'
    BY <2>6 DEF Refuse, GivenUp
  <2>7. ASSUME NEW w \in Workers, Send(w)
        PROVE  Report'
    BY <2>7 DEF Send
  <2>8. ASSUME NEW w \in Workers, MarkSent(w)
        PROVE  Report'
    BY <2>8 DEF MarkSent, Answered, Finished
  <2>9. ASSUME NEW w \in Workers, MarkInvalidToken(w)
        PROVE  Report'
    BY <2>9 DEF MarkInvalidToken, GivenUp, Answered, Finished
  <2>10. ASSUME NEW w \in Workers, MarkRetryableFailure(w)
         PROVE  Report'
    <3>1. ASSUME NEW p \in Deliveries, p # sending[w]
          PROVE  push'[p] = push[p]
      BY <2>10, <3>1 DEF MarkRetryableFailure
    <3>2. push'[sending[w]] \in {GivenUp(push[sending[w]]), PutOff(push[sending[w]])}
      BY <2>10 DEF MarkRetryableFailure, Answered
    <3>3. /\ push'[sending[w]].state # "sent"
          /\ push'[sending[w]].claim = "free"
      BY <2>10, <3>2 DEF GivenUp, PutOff, MarkRetryableFailure, Answered
    <3> QED
      BY <2>10, <3>1, <3>3 DEF MarkRetryableFailure, Finished
  <2>11. ASSUME NEW w \in Workers, Crash(w)
         PROVE  Report'
    BY <2>11 DEF Crash
  <2>12. ASSUME NEW p \in Deliveries, RetryDelivery(p)
         PROVE  Report'
    BY <2>12 DEF RetryDelivery, Requeued, worker
  <2>13. ASSUME NEW p \in Deliveries, LeaseLapses(p) \/ RetryFallsDue(p)
         PROVE  Report'
    <3>1. ASSUME NEW q \in Deliveries
          PROVE  /\ push'[q].state = push[q].state
                 /\ Settled(q) => push'[q].claim = push[q].claim
      BY <2>13, <3>1 DEF LeaseLapses, RetryFallsDue
    <3> QED
      BY <2>13, <3>1 DEF LeaseLapses, RetryFallsDue, worker
  <2> QED
    BY <2>1, <2>2, <2>3, <2>4, <2>5, <2>6, <2>7, <2>8, <2>9, <2>10, <2>11, <2>12,
       <2>13 DEF Next, Handle
<1> QED
  BY <1>1, <1>2, Typing, PTL DEF Spec

(***************************************************************************)
(* No delivery is reported as sent that the provider did not accept.       *)
(***************************************************************************)
THEOREM NoFalseSuccess == Spec => []SentWasAccepted
<1>1. Report => SentWasAccepted
  BY DEF Report
<1> QED
  BY <1>1, ReportIsInvariant, PTL

(***************************************************************************)
(* No dead letter is left with a claim.                                    *)
(***************************************************************************)
THEOREM NoStuckDeadLetter == Spec => []DeadLettersRetryable
<1>1. Report => DeadLettersRetryable
  BY DEF Report
<1> QED
  BY <1>1, ReportIsInvariant, PTL

(***************************************************************************)
(* What is recorded of a delivery holds, for any notices, devices, workers *)
(* and crashes.                                                            *)
(***************************************************************************)
THEOREM RecordsAreTold == Spec => []DeliveriesAreTold
<1>1. SentWasAccepted /\ DeadLettersRetryable => DeliveriesAreTold
  BY DEF DeliveriesAreTold
<1> QED
  BY <1>1, NoFalseSuccess, NoStuckDeadLetter, PTL

(***************************************************************************)
(* Why attempts are bounded.  A waiting delivery at or above MaxAttempts   *)
(* was not put off there, so that each claim beyond the last but one stands*)
(* for a worker that still has it, or for one that crashed with it.        *)
(***************************************************************************)
Holders(p) == {w \in Workers : p \in todo[w] \/ sending[w] = p}

AttemptsExplained(p) ==
  Waiting(p) /\ push[p].attempts >= MaxAttempts =>
    push[p].attempts + 1 <= MaxAttempts + crashes + Cardinality(Holders(p))

Claims == AttemptsBounded /\ \A p \in Deliveries : AttemptsExplained(p)

LEMMA HoldersCount ==
  ASSUME NEW p \in Deliveries
  PROVE  /\ IsFiniteSet(Holders(p))
         /\ Cardinality(Holders(p)) \in Nat
         /\ Cardinality(Workers) \in Nat
<1>1. IsFiniteSet(Workers) /\ Holders(p) \subseteq Workers
  BY DeliveryAssumption DEF Holders
<1> QED
  BY <1>1, FS_Subset, FS_CardinalityType

(* A worker takes a delivery up.                                             *)
LEMMA OneHolderMore ==
  ASSUME NEW p \in Deliveries, NEW w \in Workers,
         Holders(p)' = Holders(p) \union {w}, w \notin Holders(p)
  PROVE  /\ Cardinality(Holders(p)') = Cardinality(Holders(p)) + 1
         /\ Cardinality(Holders(p)) + 1 <= Cardinality(Workers)
<1>1. Cardinality(Holders(p)') = Cardinality(Holders(p)) + 1
  BY HoldersCount, FS_AddElement
<1>2. IsFiniteSet(Workers) /\ Holders(p)' \subseteq Workers
  BY DeliveryAssumption DEF Holders
<1> QED
  BY <1>1, <1>2, FS_Subset

(* A worker lets go of a delivery, if it has it.                             *)
LEMMA OneHolderLess ==
  ASSUME NEW p \in Deliveries, NEW w \in Workers, Holders(p)' = Holders(p) \ {w}
  PROVE  Cardinality(Holders(p)') >= Cardinality(Holders(p)) - 1
<1>1. CASE w \in Holders(p)
  <2>1. Cardinality(Holders(p)') = Cardinality(Holders(p)) - 1
    BY <1>1, HoldersCount, FS_RemoveElement
  <2> QED
    BY <2>1, HoldersCount
<1>2. CASE w \notin Holders(p)
  <2>1. Holders(p)' = Holders(p)
    BY <1>2
  <2> QED
    BY <2>1, HoldersCount
<1> QED
  BY <1>1, <1>2

(***************************************************************************)
(* However workers crash or overlap, a delivery is claimed at most         *)
(* MaxAttempts + crashes + |Workers| - 1 times.                            *)
(***************************************************************************)
THEOREM AttemptsAreBounded == Spec => []AttemptsBounded
<1>1. Init => Claims
  <2>1. Cardinality(Workers) \in Nat
    BY DeliveryAssumption, FS_CardinalityType
  <2> QED
    BY <2>1, DeliveryAssumption DEF Init, NoPush, Claims, AttemptsBounded, AttemptsExplained, Waiting
<1>2. TypeOK /\ TypeOK' /\ Claims /\ [Next]_vars => Claims'
  <2> SUFFICES ASSUME TypeOK, TypeOK', Claims, [Next]_vars, NEW p \in Deliveries
               PROVE  /\ (push[p].attempts <= MaxAttempts + crashes + (Cardinality(Workers) - 1))'
                      /\ AttemptsExplained(p)'
    BY DEF Claims, AttemptsBounded
  <2> DEFINE held == Cardinality(Holders(p))
             Kept == /\ push'[p].attempts
                          <= MaxAttempts + crashes' + (Cardinality(Workers) - 1)
                     /\ AttemptsExplained(p)'
  <2>0. /\ push[p].attempts \in Nat /\ push'[p].attempts \in Nat
        /\ crashes \in Nat /\ crashes' \in Nat /\ MaxAttempts \in Nat \ {0}
        /\ Cardinality(Workers) \in Nat /\ held \in Nat /\ Cardinality(Holders(p)') \in Nat
        /\ push[p].attempts <= MaxAttempts + crashes + (Cardinality(Workers) - 1)
        /\ AttemptsExplained(p)
    <3>1. Cardinality(Holders(p)') \in Nat
      <4>1. IsFiniteSet(Workers) /\ Holders(p)' \subseteq Workers
        BY DeliveryAssumption DEF Holders
      <4> QED
        BY <4>1, FS_Subset, FS_CardinalityType
    <3> QED
      BY <3>1, HoldersCount, DeliveryAssumption DEF TypeOK, Rows, Claims, AttemptsBounded
  \* Nobody claims it, and whoever had it still has it.
  <2>1. ASSUME push'[p].attempts = push[p].attempts, Waiting(p)' => Waiting(p),
               crashes' = crashes, Holders(p)' = Holders(p)
        PROVE  Kept
    BY <2>0, <2>1 DEF AttemptsExplained
  \* Its row is written with few attempts, or settled.
  <2>2. ASSUME push'[p].attempts < MaxAttempts \/ ~Waiting(p)',
               push'[p].attempts \in {0, push[p].attempts}, crashes' = crashes
        PROVE  Kept
    BY <2>0, <2>2 DEF AttemptsExplained
  <2>3. CASE UNCHANGED vars
    BY <2>1, <2>3 DEF vars, worker, bounds, Holders, Waiting
  <2>4. ASSUME NEW n \in Notices, CreateNotification(n)
        PROVE  Kept
    <3>1. crashes' = crashes /\ Holders(p)' = Holders(p)
      BY <2>4 DEF CreateNotification, worker, bounds, Holders
    <3>2. push'[p] = push[p] \/ push'[p].attempts = 0
      BY <2>4 DEF CreateNotification
    <3> QED
      BY <2>0, <2>1, <2>2, <3>1, <3>2 DEF Waiting
  <2>5. ASSUME NEW u \in Users, NEW d \in Devices,
               RegisterDevice(u, d) \/ DeactivateDevice(u, d)
        PROVE  Kept
    BY <2>1, <2>5 DEF RegisterDevice, DeactivateDevice, worker, Holders, Waiting
  <2>6. ASSUME NEW w \in Workers, ClaimBatch(w)
        PROVE  Kept
    <3>1. PICK batch \in SUBSET {q \in Deliveries : Claimable(q)} :
            /\ todo' = [todo EXCEPT ![w] = batch]
            /\ push' = [q \in Deliveries |->
                 IF q \in batch
                 THEN [push[q] EXCEPT !.claim = "held", !.attempts = @ + 1]
                 ELSE push[q]]
      BY <2>6 DEF ClaimBatch
    <3>2. /\ todo[w] = {} /\ sending[w] = Nothing
          /\ sending' = sending /\ crashes' = crashes
      BY <2>6 DEF ClaimBatch, bounds
    <3>3. CASE p \in batch
      <4>1. Waiting(p)
        BY <3>1, <3>3 DEF Claimable
      <4>2. push'[p].attempts = push[p].attempts + 1
        <5>1. push'[p] = [push[p] EXCEPT !.claim = "held", !.attempts = push[p].attempts + 1]
          BY <3>1, <3>3
        <5>2. push[p] \in Rows
          BY DEF TypeOK
        <5> QED
          BY <5>1, <5>2 DEF Rows
      <4>3. Holders(p)' = Holders(p) \union {w} /\ w \notin Holders(p)
        <5>1. p \notin todo[w] /\ sending[w] # p
          BY <3>2, DeliveryAssumption
        <5>2. ASSUME NEW v \in Workers
              PROVE  todo'[v] = IF v = w THEN batch ELSE todo[v]
          BY <3>1 DEF TypeOK
        <5> QED
          BY <3>2, <3>3, <5>1, <5>2 DEF Holders
      <4>4. Cardinality(Holders(p)') = held + 1 /\ held + 1 <= Cardinality(Workers)
        BY <4>3, OneHolderMore
      <4>5. push[p].attempts < MaxAttempts \/ push[p].attempts + 1 <= MaxAttempts + crashes + held
        BY <2>0, <4>1 DEF AttemptsExplained
      <4> HIDE DEF held
      <4> QED
        BY <2>0, <3>2, <4>2, <4>4, <4>5 DEF AttemptsExplained
    <3>4. CASE p \notin batch
      <4>1. push'[p] = push[p]
        BY <3>1, <3>4
      <4>2. Holders(p)' = Holders(p)
        BY <3>1, <3>2, <3>4 DEF TypeOK, Holders
      <4> QED
        BY <2>1, <3>2, <4>1, <4>2 DEF Waiting
    <3> QED
      BY <3>3, <3>4
  <2>7. ASSUME NEW w \in Workers, NEW q \in Deliveries, Prepare(w, q)
        PROVE  Kept
    <3>1. Holders(p)' = Holders(p)
      BY <2>7, DeliveryAssumption DEF Prepare, TypeOK, Holders
    <3> QED
      BY <2>1, <2>7, <3>1 DEF Prepare, bounds, Waiting
  <2>8. ASSUME NEW w \in Workers, NEW q \in Deliveries, Refuse(w, q)
        PROVE  Kept
    <3>1. crashes' = crashes /\ sending' = sending
      BY <2>8 DEF Refuse, bounds
    <3>2. CASE q = p
      BY <2>2, <2>8, <3>1, <3>2 DEF Refuse, GivenUp, Waiting, TypeOK, Rows
    <3>3. CASE q # p
      <4>1. push'[p] = push[p] /\ Holders(p)' = Holders(p)
        BY <2>8, <3>1, <3>3 DEF Refuse, TypeOK, Holders
      <4> QED
        BY <2>1, <3>1, <4>1 DEF Waiting
    <3> QED
      BY <3>2, <3>3
  <2>9. ASSUME NEW w \in Workers, Send(w)
        PROVE  Kept
    BY <2>1, <2>9 DEF Send, bounds, Holders, Waiting
  <2>10. ASSUME NEW w \in Workers,
                MarkSent(w) \/ MarkInvalidToken(w) \/ MarkRetryableFailure(w)
         PROVE  Kept
    <3>1. /\ crashes' = crashes /\ todo' = todo
          /\ sending' = [sending EXCEPT ![w] = Nothing]
      BY <2>10 DEF MarkSent, MarkInvalidToken, MarkRetryableFailure, Finished, bounds
    <3>2. CASE sending[w] = p
      <4>1. \/ push'[p] = [push[p] EXCEPT !.claim = "free", !.state = "sent"]
            \/ push'[p] = GivenUp(push[p])
            \/ push'[p] = PutOff(push[p]) /\ push[p].attempts < MaxAttempts
        BY <2>0, <2>10, <3>2 DEF MarkSent, MarkInvalidToken, MarkRetryableFailure, TypeOK
      <4>2. /\ push'[p].attempts = push[p].attempts
            /\ ~Waiting(p)' \/ push'[p].attempts < MaxAttempts
        <5>1. push[p] \in Rows
          BY DEF TypeOK
        <5>2. CASE push'[p] = [push[p] EXCEPT !.claim = "free", !.state = "sent"]
          BY <5>1, <5>2 DEF Waiting, Rows
        <5>3. CASE push'[p] = GivenUp(push[p])
          BY <5>1, <5>3 DEF GivenUp, Waiting, Rows
        <5>4. CASE push'[p] = PutOff(push[p]) /\ push[p].attempts < MaxAttempts
          BY <5>1, <5>4 DEF PutOff, Rows
        <5> QED
          BY <4>1, <5>2, <5>3, <5>4
      <4> QED
        BY <2>2, <3>1, <4>2
    <3>3. CASE sending[w] # p
      <4>1. push'[p] = push[p]
        BY <2>10, <3>3 DEF MarkSent, MarkInvalidToken, MarkRetryableFailure, TypeOK
      <4>2. Holders(p)' = Holders(p)
        BY <3>1, <3>3, DeliveryAssumption DEF TypeOK, Holders
      <4> QED
        BY <2>1, <3>1, <4>1, <4>2 DEF Waiting
    <3> QED
      BY <3>2, <3>3
  <2>11. ASSUME NEW w \in Workers, Crash(w)
         PROVE  Kept
    <3>1. push' = push /\ crashes' = crashes + 1
      BY <2>11 DEF Crash
    <3>2. Holders(p)' = Holders(p) \ {w}
      BY <2>11, DeliveryAssumption DEF Crash, TypeOK, Holders
    <3>3. Cardinality(Holders(p)') >= held - 1
      BY <3>2, OneHolderLess
    <3> HIDE DEF held
    <3> QED
      BY <2>0, <3>1, <3>3 DEF AttemptsExplained, Waiting, held
  <2>12. ASSUME NEW q \in Deliveries, RetryDelivery(q)
         PROVE  Kept
    <3>1. /\ crashes' = crashes /\ Holders(p)' = Holders(p)
          /\ push'[p] = push[p] \/ push'[p].attempts = 0
      BY <2>12 DEF RetryDelivery, Requeued, worker, Holders, TypeOK, Rows
    <3> QED
      BY <2>0, <2>1, <2>2, <3>1 DEF Waiting
  <2>13. ASSUME NEW q \in Deliveries, LeaseLapses(q) \/ RetryFallsDue(q)
         PROVE  Kept
    <3>1. /\ crashes' = crashes /\ Holders(p)' = Holders(p)
          /\ push'[p].attempts = push[p].attempts /\ push'[p].state = push[p].state
      BY <2>13 DEF LeaseLapses, RetryFallsDue, worker, bounds, Holders, TypeOK, Rows
    <3> QED
      BY <2>1, <3>1 DEF Waiting
  <2> QED
    BY <2>3, <2>4, <2>5, <2>6, <2>7, <2>8, <2>9, <2>10, <2>11, <2>12, <2>13
       DEF Next, Handle
<1>3. Claims => AttemptsBounded
  BY DEF Claims
<1> QED
  BY <1>1, <1>2, <1>3, Typing, PTL DEF Spec
=============================================================================
