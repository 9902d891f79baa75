------------------------ MODULE PhoneScreensProofs ------------------------
(***************************************************************************)
(* Proofs about the screens of the phone.  A behaviour of PhoneScreens is  *)
(* about one of them, so that each property has an invariant of the part   *)
(* it is about: a step is one of that part, or leaves the part's variables *)
(* alone.                                                                  *)
(*                                                                         *)
(* The number of SKUs, of products of a line, of payment screens, orders,  *)
(* messages, moves, searches, products of a page and lost requests is any; *)
(* a second has any number of clock ticks.                                 *)
(***************************************************************************)
EXTENDS PhoneScreens, FiniteSetTheorems, TLAPS

-----------------------------------------------------------------------------
(***************************************************************************)
(* Machines and the home screen                                            *)
(***************************************************************************)

PageRequests == [stage: {"idle", "sent", "served"}, number: Numbers \union {0}, work: Nat]

MachineTypeOK ==
  /\ work \in Nat /\ news \in Nat
  /\ cached \in [Pages -> [known: BOOLEAN, failed: BOOLEAN, number: Numbers \union {0}, work: Nat]]
  /\ pending \in [Pages -> PageRequests]
  /\ shared \in [Pages -> BOOLEAN]
  /\ serial \in [stage: {"idle", "sent", "done", "refused"}, number: Numbers \union {0}, work: Nat]
  /\ number \in Numbers \union {0}
  /\ kept \subseteq Pages /\ {told, passed} \subseteq BOOLEAN

\* Once the customer was told, the number stays; what the page has of it, or
\* waits for, is not from before.
NumberIsShown ==
  /\ told \/ serial.stage = "done" => number # 0
  /\ serial.stage = "done" => serial.number = number
  /\ serial.stage # "idle" => serial.number # 0
  /\ told /\ ~passed =>
       /\ cached["machine"].known => cached["machine"].number # 0
       /\ pending["machine"].stage = "served" => pending["machine"].number # 0

\* What a mounted screen has, or waits for, is as new as what it was asked anew for.
ListHasNumber ==
  "machines" \in kept /\ told /\ ~shared["machines"] =>
    /\ pending["machines"].stage = "served" => pending["machines"].number = number
    /\ Settled("machines") => cached["machines"].number = number

PagesFollowNews ==
  /\ news <= work
  /\ \A q \in kept : ~shared[q] =>
       /\ pending[q].stage = "served" => pending[q].work >= news
       /\ Settled(q) /\ ~passed => cached[q].work >= news

MachineInvariant == MachineTypeOK /\ NumberIsShown /\ ListHasNumber /\ PagesFollowNews

\* Who is asked anew has a request on its way from now on, or shares the first.
LEMMA AskedAnew ==
  ASSUME MachineTypeOK, NEW S \in SUBSET Pages, ReadAnew(S)
  PROVE  /\ pending' \in [Pages -> PageRequests]
         /\ shared' \in [Pages -> BOOLEAN]
         /\ \A q \in S : ~shared'[q] => pending'[q].stage = "sent"
         /\ \A q \in Pages \ S : shared'[q] = shared[q]
         /\ \A q \in Pages : pending'[q] = pending[q] \/ pending'[q].stage = "sent"
         /\ \A q \in Pages \ S : pending'[q] = pending[q]
<1>1. pending' \in [Pages -> PageRequests]
  BY DEF MachineTypeOK, PageRequests, ReadAnew, NotPending
<1>2. shared' \in [Pages -> BOOLEAN] BY DEF MachineTypeOK, PageRequests, ReadAnew
<1>3. ASSUME NEW q \in Pages
      PROVE  /\ q \in S /\ ~shared'[q] => pending'[q].stage = "sent"
             /\ q \notin S => shared'[q] = shared[q] /\ pending'[q] = pending[q]
             /\ pending'[q] = pending[q] \/ pending'[q].stage = "sent"
  BY <1>3 DEF MachineTypeOK, PageRequests, ReadAnew, NotPending
<1>4. \A q \in S : q \in Pages OBVIOUS
<1>5. \A q \in S : ~shared'[q] => pending'[q].stage = "sent" BY <1>3, <1>4
<1>6. \A q \in Pages \ S : shared'[q] = shared[q] /\ pending'[q] = pending[q] BY <1>3
<1>7. \A q \in Pages : pending'[q] = pending[q] \/ pending'[q].stage = "sent" BY <1>3
<1> QED BY <1>1, <1>2, <1>5, <1>6, <1>7

LEMMA MachineStep ==
  ASSUME MachineInvariant, MachineNext
  PROVE  MachineInvariant'
<1> USE MachineAssumption DEF MachineInvariant
<1>1. ASSUME NEW n \in Numbers, OthersRegister(n) PROVE MachineInvariant'
  <2>1. MachineTypeOK' BY <1>1 DEF OthersRegister, MachineTypeOK, PageRequests, Pages
  <2>2. NumberIsShown'
    BY <1>1 DEF OthersRegister, MachineTypeOK, PageRequests, NumberIsShown, ListHasNumber,
       PagesFollowNews, Settled, Pages
  <2>3. ListHasNumber'
    BY <1>1 DEF OthersRegister, MachineTypeOK, PageRequests, NumberIsShown, ListHasNumber,
       PagesFollowNews, Settled, Pages
  <2>4. PagesFollowNews'
    BY <1>1 DEF OthersRegister, MachineTypeOK, PageRequests, NumberIsShown, ListHasNumber,
       PagesFollowNews, Settled, Pages
  <2> QED BY <2>1, <2>2, <2>3, <2>4
<1>2. ASSUME NEW n \in Numbers, SubmitSerial(n) PROVE MachineInvariant'
  <2>1. MachineTypeOK' BY <1>2 DEF SubmitSerial, NoSerial, MachineTypeOK, PageRequests, Pages
  <2>2. NumberIsShown'
    BY <1>2 DEF SubmitSerial, NoSerial, MachineTypeOK, PageRequests, NumberIsShown,
       ListHasNumber, PagesFollowNews, Settled, Pages
  <2>3. ListHasNumber'
    BY <1>2 DEF SubmitSerial, NoSerial, MachineTypeOK, PageRequests, NumberIsShown,
       ListHasNumber, PagesFollowNews, Settled, Pages
  <2>4. PagesFollowNews'
    BY <1>2 DEF SubmitSerial, NoSerial, MachineTypeOK, PageRequests, NumberIsShown,
       ListHasNumber, PagesFollowNews, Settled, Pages
  <2> QED BY <2>1, <2>2, <2>3, <2>4
<1>3. ASSUME NEW q \in Pages, ServeMachine(q) PROVE MachineInvariant'
  <2>1. MachineTypeOK' BY <1>3 DEF ServeMachine, MachineTypeOK, PageRequests, Pages
  <2>2. NumberIsShown'
    BY <1>3 DEF ServeMachine, MachineTypeOK, PageRequests, NumberIsShown, ListHasNumber,
       PagesFollowNews, Settled, Pages
  <2>3. ListHasNumber'
    BY <1>3 DEF ServeMachine, MachineTypeOK, PageRequests, NumberIsShown, ListHasNumber,
       PagesFollowNews, Settled, Pages
  <2>4. PagesFollowNews'
    BY <1>3 DEF ServeMachine, MachineTypeOK, PageRequests, NumberIsShown, ListHasNumber,
       PagesFollowNews, Settled, Pages
  <2> QED BY <2>1, <2>2, <2>3, <2>4
<1>4. ASSUME NEW q \in Pages, PageShown(q) PROVE MachineInvariant'
  <2>1. MachineTypeOK' BY <1>4 DEF PageShown, NotPending, PageRequests, MachineTypeOK, Pages
  <2>2. NumberIsShown'
    BY <1>4 DEF PageShown, NotPending, PageRequests, MachineTypeOK, NumberIsShown,
       ListHasNumber, PagesFollowNews, Settled, Pages
  <2>3. ListHasNumber'
    BY <1>4 DEF PageShown, NotPending, PageRequests, MachineTypeOK, NumberIsShown,
       ListHasNumber, PagesFollowNews, Settled, Pages
  <2>4. PagesFollowNews'
    BY <1>4 DEF PageShown, NotPending, PageRequests, MachineTypeOK, NumberIsShown,
       ListHasNumber, PagesFollowNews, Settled, Pages
  <2> QED BY <2>1, <2>2, <2>3, <2>4
<1>5. ASSUME NEW q \in Pages, PageFails(q) PROVE MachineInvariant'
  <2>1. MachineTypeOK'
    <3>1. /\ cached' = [cached EXCEPT ![q].failed = TRUE]
          /\ pending' = [pending EXCEPT ![q] = NotPending]
          /\ UNCHANGED <<number, work, kept, shared, serial, told, news, passed>>
      BY <1>5 DEF PageFails
    <3>2. cached' \in [Pages -> [known: BOOLEAN, failed: BOOLEAN, number: Numbers \union {0}, work: Nat]]
      BY <3>1, <1>5 DEF MachineTypeOK
    <3> QED BY <3>1, <3>2, <1>5 DEF NotPending, PageRequests, MachineTypeOK
  <2>2. NumberIsShown'
    BY <1>5 DEF PageFails, NotPending, PageRequests, MachineTypeOK, NumberIsShown,
       ListHasNumber, PagesFollowNews, Settled, Pages
  <2>3. ListHasNumber'
    BY <1>5 DEF PageFails, NotPending, PageRequests, MachineTypeOK, NumberIsShown,
       ListHasNumber, PagesFollowNews, Settled, Pages
  <2>4. PagesFollowNews'
    BY <1>5 DEF PageFails, NotPending, PageRequests, MachineTypeOK, NumberIsShown,
       ListHasNumber, PagesFollowNews, Settled, Pages
  <2> QED BY <2>1, <2>2, <2>3, <2>4
<1>6. CASE WorkMoves
  <2>1. MachineTypeOK' BY <1>6 DEF WorkMoves, MachineTypeOK, PageRequests, Pages
  <2>2. NumberIsShown'
    BY <1>6 DEF WorkMoves, MachineTypeOK, PageRequests, NumberIsShown, ListHasNumber,
       PagesFollowNews, Settled, Pages
  <2>3. ListHasNumber'
    BY <1>6 DEF WorkMoves, MachineTypeOK, PageRequests, NumberIsShown, ListHasNumber,
       PagesFollowNews, Settled, Pages
  <2>4. PagesFollowNews'
    BY <1>6 DEF WorkMoves, MachineTypeOK, PageRequests, NumberIsShown, ListHasNumber,
       PagesFollowNews, Settled, Pages
  <2> QED BY <2>1, <2>2, <2>3, <2>4
<1>7. CASE VisitMachines
  <2>1. MachineTypeOK'
    BY <1>7 DEF VisitMachines, ReadAnew, MachineTypeOK, PageRequests, NotPending, Pages
  <2>2. ReadAnew({IF at = "home" /\ "machine" \in kept THEN "machine" ELSE "machines"})
    BY <1>7 DEF VisitMachines
  <2>3. {IF at = "home" /\ "machine" \in kept THEN "machine" ELSE "machines"} \in SUBSET Pages
    BY DEF MachineTypeOK, PageRequests, Pages
  <2> QED
    BY <1>7, <2>1, <2>2, <2>3, AskedAnew DEF VisitMachines, MachineTypeOK, PageRequests,
       NumberIsShown, ListHasNumber, PagesFollowNews, Settled, Pages
<1>8. CASE OpenMachine
  <2>1. MachineTypeOK'
    BY <1>8 DEF OpenMachine, ReadAnew, MachineTypeOK, PageRequests, NotPending, Pages
  <2>2. ReadAnew({"machine"}) BY <1>8 DEF OpenMachine
  <2>3. {"machine"} \in SUBSET Pages BY DEF MachineTypeOK, PageRequests, Pages
  <2> QED
    BY <1>8, <2>1, <2>2, <2>3, AskedAnew DEF OpenMachine, MachineTypeOK, PageRequests,
       NumberIsShown, ListHasNumber, PagesFollowNews, Settled, Pages
<1>9. CASE PullMachine
  <2>1. MachineTypeOK'
    BY <1>9 DEF PullMachine, ReadAnew, MachineTypeOK, PageRequests, NotPending, Pages
  <2>2. ReadAnew({"machine"}) BY <1>9 DEF PullMachine
  <2>3. {"machine"} \in SUBSET Pages BY DEF MachineTypeOK, PageRequests, Pages
  <2> QED
    BY <1>9, <2>1, <2>2, <2>3, AskedAnew DEF PullMachine, MachineTypeOK, PageRequests,
       NumberIsShown, ListHasNumber, PagesFollowNews, Settled, Pages
<1>10. CASE CloseMachine
  <2>1. MachineTypeOK'
    BY <1>10 DEF CloseMachine, ReadAnew, MachineTypeOK, PageRequests, NotPending, Pages
  <2>2. ReadAnew({"machines"}) BY <1>10 DEF CloseMachine
  <2>3. {"machines"} \in SUBSET Pages BY DEF MachineTypeOK, PageRequests, Pages
  <2> QED
    BY <1>10, <2>1, <2>2, <2>3, AskedAnew DEF CloseMachine, MachineTypeOK, PageRequests,
       NumberIsShown, ListHasNumber, PagesFollowNews, Settled, Pages
<1>11. CASE VisitHome
  <2>1. MachineTypeOK'
    <3>1. CASE at = "home"
      <4>1. ReadAnew({"home"}) /\ UNCHANGED <<number, work, kept, cached, serial, told, news, passed>>
        BY <1>11, <3>1 DEF VisitHome
      <4>2. {"home"} \in SUBSET Pages BY DEF Pages
      <4> QED BY <4>1, <4>2, AskedAnew DEF MachineTypeOK
    <3>2. CASE at # "home" BY <1>11, <3>2 DEF VisitHome, MachineTypeOK
    <3> QED BY <3>1, <3>2
  <2>2. CASE at = "home"
    <3>1. ReadAnew({"home"}) /\ UNCHANGED <<number, work, kept, cached, serial, told, news, passed>>
      BY <1>11, <2>2 DEF VisitHome
    <3>2. {"home"} \in SUBSET Pages BY DEF Pages
    <3> HIDE DEF ReadAnew
    <3> QED
      BY <2>1, <3>1, <3>2, AskedAnew DEF MachineTypeOK, PageRequests, NumberIsShown,
         ListHasNumber, PagesFollowNews, Settled, Pages
  <2>3. CASE at # "home"
    BY <1>11, <2>1, <2>3 DEF VisitHome, MachineTypeOK, PageRequests, NumberIsShown,
       ListHasNumber, PagesFollowNews, Settled, Pages
  <2> QED BY <2>2, <2>3
<1>12. CASE MachineToBack
  <2>1. MachineTypeOK' BY <1>12 DEF MachineToBack, MachineTypeOK, PageRequests, Pages
  <2>2. NumberIsShown'
    BY <1>12 DEF MachineToBack, MachineTypeOK, PageRequests, NumberIsShown, ListHasNumber,
       PagesFollowNews, Settled, Pages
  <2>3. ListHasNumber'
    BY <1>12 DEF MachineToBack, MachineTypeOK, PageRequests, NumberIsShown, ListHasNumber,
       PagesFollowNews, Settled, Pages
  <2>4. PagesFollowNews'
    BY <1>12 DEF MachineToBack, MachineTypeOK, PageRequests, NumberIsShown, ListHasNumber,
       PagesFollowNews, Settled, Pages
  <2> QED BY <2>1, <2>2, <2>3, <2>4
<1>13. CASE MachineToFront
  <2>1. MachineTypeOK'
    BY <1>13 DEF MachineToFront, ReadAnew, MachineTypeOK, PageRequests, NotPending, Pages
  <2>2. ReadAnew(kept) BY <1>13 DEF MachineToFront
  <2>3. kept \in SUBSET Pages BY DEF MachineTypeOK, PageRequests, Pages
  <2> QED
    BY <1>13, <2>1, <2>2, <2>3, AskedAnew DEF MachineToFront, MachineTypeOK, PageRequests,
       NumberIsShown, ListHasNumber, PagesFollowNews, Settled, Pages
<1>14. CASE MachineMessage
  <2>2. ReadAnew(kept) BY <1>14 DEF MachineMessage
  <2>3. kept \in SUBSET Pages BY DEF MachineTypeOK, PageRequests, Pages
  <2>4. news' \in Nat /\ news' <= work /\ UNCHANGED <<number, work, kept, cached, serial, told, passed>>
    BY <1>14 DEF MachineMessage, MachineTypeOK
  <2>1. MachineTypeOK' BY <2>2, <2>3, <2>4, AskedAnew DEF MachineTypeOK
  <2> QED
    BY <2>4, <2>1, <2>2, <2>3, AskedAnew DEF MachineTypeOK, PageRequests, NumberIsShown,
       ListHasNumber, PagesFollowNews, Settled, Pages
<1>15. CASE CompleteSerial
  <2>1. MachineTypeOK'
    BY <1>15 DEF CompleteSerial, NumberIsShown, MachineTypeOK, PageRequests, Pages
  <2>2. NumberIsShown'
    BY <1>15 DEF CompleteSerial, NumberIsShown, MachineTypeOK, PageRequests, NumberIsShown,
       ListHasNumber, PagesFollowNews, Settled, Pages
  <2>3. ListHasNumber'
    BY <1>15 DEF CompleteSerial, NumberIsShown, MachineTypeOK, PageRequests, NumberIsShown,
       ListHasNumber, PagesFollowNews, Settled, Pages
  <2>4. PagesFollowNews'
    BY <1>15 DEF CompleteSerial, NumberIsShown, MachineTypeOK, PageRequests, NumberIsShown,
       ListHasNumber, PagesFollowNews, Settled, Pages
  <2> QED BY <2>1, <2>2, <2>3, <2>4
<1>16. CASE SerialSaved
  <2>1. MachineTypeOK'
    BY <1>16 DEF SerialSaved, Completed, NoSerial, ReadAnew, MachineTypeOK, PageRequests,
       NotPending, Pages
  <2>2. ReadAnew(kept \intersect {"machines"}) BY <1>16 DEF SerialSaved, Completed, NoSerial
  <2>3. kept \intersect {"machines"} \in SUBSET Pages BY DEF MachineTypeOK, PageRequests, Pages
  <2>4. NumberIsShown'
    BY <1>16, <2>1, <2>2, <2>3, AskedAnew DEF SerialSaved, Completed, NoSerial, MachineTypeOK,
       PageRequests, NumberIsShown, Pages
  <2>5. ListHasNumber'
    BY <1>16, <2>1, <2>2, <2>3, AskedAnew DEF SerialSaved, Completed, NoSerial, MachineTypeOK,
       PageRequests, NumberIsShown, ListHasNumber, Settled, Pages
  <2>6. PagesFollowNews'
    <3>1. \A q \in kept' : ~shared'[q] => (pending'[q].stage = "served" => pending'[q].work >= news')
      BY <1>16, <2>2, <2>3, AskedAnew DEF SerialSaved, MachineTypeOK, PageRequests,
         PagesFollowNews, Pages
    <3>2. ASSUME NEW q \in kept', ~shared'[q], Settled(q)', ~passed' PROVE cached'[q].work >= news'
      <4>1. CASE q = "machine"
        <5>3. ~(serial.work < news) /\ news' = news BY <1>16, <3>2 DEF SerialSaved
        <5>4. serial.work \in Nat /\ news \in Nat BY DEF MachineTypeOK
        <5>1. serial.work >= news /\ news' = news BY <5>3, <5>4
        <5>2. cached'["machine"].work = serial.work
          BY <1>16 DEF SerialSaved, Completed, MachineTypeOK, PageRequests, Pages
        <5> QED BY <4>1, <5>1, <5>2
      <4>2. CASE q # "machine" /\ pending[q] = pending'[q] /\ shared[q] = shared'[q]
        BY <1>16, <4>2, <3>2 DEF SerialSaved, Completed, MachineTypeOK, PageRequests,
           PagesFollowNews, Settled, Pages
      <4>3. CASE q = "machines"
        BY <1>16, <4>3, <3>2, <2>2, <2>3, AskedAnew DEF SerialSaved, Settled
      <4> QED
        BY <4>1, <4>2, <4>3, <1>16, <3>2, <2>2, <2>3, AskedAnew DEF SerialSaved,
           MachineTypeOK, PageRequests, Pages
    <3> QED BY <1>16, <3>1, <3>2 DEF SerialSaved, PagesFollowNews
  <2> QED BY <2>1, <2>4, <2>5, <2>6
<1>17. CASE SerialRefused
  <2>1. MachineTypeOK' BY <1>17 DEF SerialRefused, NoSerial, MachineTypeOK, PageRequests, Pages
  <2>2. NumberIsShown'
    BY <1>17 DEF SerialRefused, NoSerial, MachineTypeOK, PageRequests, NumberIsShown,
       ListHasNumber, PagesFollowNews, Settled, Pages
  <2>3. ListHasNumber'
    BY <1>17 DEF SerialRefused, NoSerial, MachineTypeOK, PageRequests, NumberIsShown,
       ListHasNumber, PagesFollowNews, Settled, Pages
  <2>4. PagesFollowNews'
    BY <1>17 DEF SerialRefused, NoSerial, MachineTypeOK, PageRequests, NumberIsShown,
       ListHasNumber, PagesFollowNews, Settled, Pages
  <2> QED BY <2>1, <2>2, <2>3, <2>4
<1>18. CASE SerialLost
  <2>1. MachineTypeOK' BY <1>18 DEF SerialLost, NoSerial, MachineTypeOK, PageRequests, Pages
  <2>2. NumberIsShown'
    BY <1>18 DEF SerialLost, NoSerial, MachineTypeOK, PageRequests, NumberIsShown,
       ListHasNumber, PagesFollowNews, Settled, Pages
  <2>3. ListHasNumber'
    BY <1>18 DEF SerialLost, NoSerial, MachineTypeOK, PageRequests, NumberIsShown,
       ListHasNumber, PagesFollowNews, Settled, Pages
  <2>4. PagesFollowNews'
    BY <1>18 DEF SerialLost, NoSerial, MachineTypeOK, PageRequests, NumberIsShown,
       ListHasNumber, PagesFollowNews, Settled, Pages
  <2> QED BY <2>1, <2>2, <2>3, <2>4
<1> QED
  BY <1>1, <1>2, <1>3, <1>4, <1>5, <1>6, <1>7, <1>8, <1>9, <1>10, <1>11, <1>12, <1>13, <1>14,
     <1>15, <1>16, <1>17, <1>18 DEF MachineNext

-----------------------------------------------------------------------------
(***************************************************************************)
(* Following an order                                                      *)
(***************************************************************************)

OrderRequests == [stage: {"idle", "sent", "served"}, seen: Nat]

TrackTypeOK ==
  /\ moves \in Nat /\ heard \in Nat /\ received \subseteq Nat /\ mounted \subseteq Queries
  /\ answer \in [Queries -> [known: BOOLEAN, failed: BOOLEAN, seen: Nat]]
  /\ asking \in [Queries -> OrderRequests]
  /\ joined \in [Queries -> BOOLEAN]
  /\ look \in [stage: {"idle", "reading", "loading"}, n: Nat, live: BOOLEAN]

\* What a mounted screen has, or waits for, is as new as what it was asked anew for.
OrdersFollowMessages ==
  /\ heard <= moves
  /\ \A n \in received : n <= heard
  /\ \A q \in mounted : ~joined[q] =>
       /\ asking[q].stage = "served" => asking[q].seen >= heard
       /\ asking[q].stage = "idle" /\ ~answer[q].failed => answer[q].seen >= heard

\* A closed application has no screens and no lookup.
ClosedIsEmpty == mode = "closed" => mounted = {} /\ look = NoLook

OnlyLookIsOwed ==
  \A n \in owed : look.stage = "loading" /\ n = look.n

TrackInvariant == TrackTypeOK /\ OrdersFollowMessages /\ ClosedIsEmpty /\ OnlyLookIsOwed

LEMMA OrdersAskedAnew ==
  ASSUME TrackTypeOK, NEW S \in SUBSET Queries, AskAnew(S)
  PROVE  /\ asking' \in [Queries -> OrderRequests]
         /\ joined' \in [Queries -> BOOLEAN]
         /\ \A q \in S : ~joined'[q] => asking'[q].stage = "sent"
         /\ \A q \in Queries \ S : joined'[q] = joined[q] /\ asking'[q] = asking[q]
<1>1. asking' \in [Queries -> OrderRequests]
  BY DEF TrackTypeOK, AskAnew, OrderRequests
<1>2. joined' \in [Queries -> BOOLEAN] BY DEF TrackTypeOK, AskAnew, Joins
<1>3. ASSUME NEW q \in Queries
      PROVE  /\ q \in S /\ ~joined'[q] => asking'[q].stage = "sent"
             /\ q \notin S => joined'[q] = joined[q] /\ asking'[q] = asking[q]
  BY <1>3 DEF TrackTypeOK, AskAnew
<1>4. \A q \in S : q \in Queries OBVIOUS
<1>5. \A q \in S : ~joined'[q] => asking'[q].stage = "sent" BY <1>3, <1>4
<1>6. \A q \in Queries \ S : joined'[q] = joined[q] /\ asking'[q] = asking[q] BY <1>3
<1> QED BY <1>1, <1>2, <1>5, <1>6

LEMMA TrackStep ==
  ASSUME TrackInvariant, TrackingNext
  PROVE  TrackInvariant'
<1> USE DEF TrackInvariant
<1>0. \A n \in Notices : n \in Nat BY TrackingAssumption DEF Notices
<1>1. CASE OrderMoves
  <2>1. TrackTypeOK' BY <1>1 DEF OrderMoves, TrackTypeOK, Queries, OrderRequests
  <2>2. OrdersFollowMessages'
    BY <1>1, <2>1 DEF OrderMoves, TrackTypeOK, OrderRequests, OrdersFollowMessages, Queries
  <2>3. ClosedIsEmpty'
    BY <1>1, <2>1 DEF OrderMoves, TrackTypeOK, OrderRequests, ClosedIsEmpty, Queries, NoLook
  <2>4. OnlyLookIsOwed'
    BY <1>1, <2>1 DEF OrderMoves, TrackTypeOK, OrderRequests, OnlyLookIsOwed, Queries, NoLook
  <2> QED BY <2>1, <2>2, <2>3, <2>4
<1>2. ASSUME NEW q \in Queries, ServeOrders(q) PROVE TrackInvariant'
  <2>1. TrackTypeOK' BY <1>2 DEF ServeOrders, TrackTypeOK, Queries, OrderRequests
  <2>2. OrdersFollowMessages'
    BY <1>2, <2>1 DEF ServeOrders, TrackTypeOK, OrderRequests, OrdersFollowMessages, Queries
  <2>3. ClosedIsEmpty'
    BY <1>2, <2>1 DEF ServeOrders, TrackTypeOK, OrderRequests, ClosedIsEmpty, Queries, NoLook
  <2>4. OnlyLookIsOwed'
    BY <1>2, <2>1 DEF ServeOrders, TrackTypeOK, OrderRequests, OnlyLookIsOwed, Queries, NoLook
  <2> QED BY <2>1, <2>2, <2>3, <2>4
<1>3. ASSUME NEW q \in Queries, OrdersShown(q) PROVE TrackInvariant'
  <2>1. TrackTypeOK' BY <1>3 DEF OrdersShown, NotAsking, TrackTypeOK, Queries, OrderRequests
  <2>2. OrdersFollowMessages'
    BY <1>3, <2>1 DEF OrdersShown, NotAsking, TrackTypeOK, OrderRequests,
       OrdersFollowMessages, Queries
  <2>3. ClosedIsEmpty'
    BY <1>3, <2>1 DEF OrdersShown, NotAsking, TrackTypeOK, OrderRequests, ClosedIsEmpty,
       Queries, NoLook
  <2>4. OnlyLookIsOwed'
    BY <1>3, <2>1 DEF OrdersShown, NotAsking, TrackTypeOK, OrderRequests, OnlyLookIsOwed,
       Queries, NoLook
  <2> QED BY <2>1, <2>2, <2>3, <2>4
<1>4. ASSUME NEW q \in Queries, OrdersFail(q) PROVE TrackInvariant'
  <2>1. TrackTypeOK'
    BY ZenonT(40), <1>4 DEF OrdersFail, NotAsking, TrackTypeOK, Queries, OrderRequests
  <2>2. OrdersFollowMessages'
    BY <1>4, <2>1 DEF OrdersFail, NotAsking, TrackTypeOK, OrderRequests, OrdersFollowMessages,
       Queries
  <2>3. ClosedIsEmpty'
    BY <1>4, <2>1 DEF OrdersFail, NotAsking, TrackTypeOK, OrderRequests, ClosedIsEmpty,
       Queries, NoLook
  <2>4. OnlyLookIsOwed'
    BY <1>4, <2>1 DEF OrdersFail, NotAsking, TrackTypeOK, OrderRequests, OnlyLookIsOwed,
       Queries, NoLook
  <2> QED BY <2>1, <2>2, <2>3, <2>4
<1>5. CASE VisitOrders
  <2>1. AskAnew({IF focus # "detail" /\ "detail" \in mounted THEN "detail" ELSE "list"})
    BY <1>5 DEF VisitOrders, Focus, Running
  <2>2. {IF focus # "detail" /\ "detail" \in mounted THEN "detail" ELSE "list"} \in SUBSET Queries
    BY DEF TrackTypeOK, Queries
  <2>3. TrackTypeOK'
    BY <1>5, <2>1, <2>2, OrdersAskedAnew DEF VisitOrders, Focus, Running, TrackTypeOK, Queries
  <2>4. OrdersFollowMessages'
    BY <1>5, <2>1, <2>2, OrdersAskedAnew DEF VisitOrders, Focus, Running, TrackTypeOK,
       OrdersFollowMessages, Queries
  <2>5. ClosedIsEmpty'
    BY <1>5, <2>1, <2>2, OrdersAskedAnew DEF VisitOrders, Focus, Running, TrackTypeOK,
       ClosedIsEmpty, Queries, NoLook
  <2>6. OnlyLookIsOwed'
    BY <1>5, <2>1, <2>2, OrdersAskedAnew DEF VisitOrders, Focus, Running, TrackTypeOK,
       OnlyLookIsOwed, Queries, NoLook
  <2> QED BY <2>3, <2>4, <2>5, <2>6
<1>6. CASE OpenOrder
  <2>1. AskAnew({"detail"}) BY <1>6 DEF OpenOrder, Focus, Running
  <2>2. {"detail"} \in SUBSET Queries BY DEF TrackTypeOK, Queries
  <2>3. TrackTypeOK'
    BY <1>6, <2>1, <2>2, OrdersAskedAnew DEF OpenOrder, Focus, Running, TrackTypeOK, Queries
  <2>4. OrdersFollowMessages'
    BY <1>6, <2>1, <2>2, OrdersAskedAnew DEF OpenOrder, Focus, Running, TrackTypeOK,
       OrdersFollowMessages, Queries
  <2>5. ClosedIsEmpty'
    BY <1>6, <2>1, <2>2, OrdersAskedAnew DEF OpenOrder, Focus, Running, TrackTypeOK,
       ClosedIsEmpty, Queries, NoLook
  <2>6. OnlyLookIsOwed'
    BY <1>6, <2>1, <2>2, OrdersAskedAnew DEF OpenOrder, Focus, Running, TrackTypeOK,
       OnlyLookIsOwed, Queries, NoLook
  <2> QED BY <2>3, <2>4, <2>5, <2>6
<1>7. CASE CloseOrder
  <2>1. AskAnew({"list"}) BY <1>7 DEF CloseOrder, Running
  <2>2. {"list"} \in SUBSET Queries BY DEF TrackTypeOK, Queries
  <2>3. TrackTypeOK'
    BY <1>7, <2>1, <2>2, OrdersAskedAnew DEF CloseOrder, Running, TrackTypeOK, Queries
  <2>4. OrdersFollowMessages'
    BY <1>7, <2>1, <2>2, OrdersAskedAnew DEF CloseOrder, Running, TrackTypeOK,
       OrdersFollowMessages, Queries
  <2>5. ClosedIsEmpty'
    BY <1>7, <2>1, <2>2, OrdersAskedAnew DEF CloseOrder, Running, TrackTypeOK, ClosedIsEmpty,
       Queries, NoLook
  <2>6. OnlyLookIsOwed'
    BY <1>7, <2>1, <2>2, OrdersAskedAnew DEF CloseOrder, Running, TrackTypeOK, OnlyLookIsOwed,
       Queries, NoLook
  <2> QED BY <2>3, <2>4, <2>5, <2>6
<1>8. CASE LeaveOrders
  <2>1. TrackTypeOK' BY <1>8 DEF LeaveOrders, Running, TrackTypeOK, Queries, OrderRequests
  <2>2. OrdersFollowMessages'
    BY <1>8, <2>1 DEF LeaveOrders, Running, TrackTypeOK, OrderRequests, OrdersFollowMessages,
       Queries
  <2>3. ClosedIsEmpty'
    BY <1>8, <2>1 DEF LeaveOrders, Running, TrackTypeOK, OrderRequests, ClosedIsEmpty,
       Queries, NoLook
  <2>4. OnlyLookIsOwed'
    BY <1>8, <2>1 DEF LeaveOrders, Running, TrackTypeOK, OrderRequests, OnlyLookIsOwed,
       Queries, NoLook
  <2> QED BY <2>1, <2>2, <2>3, <2>4
<1>9. ASSUME NEW n \in Notices, Message(n) PROVE TrackInvariant'
  <2>1. CASE n \notin received
    <3>1. AskAnew(mounted) BY <1>9, <2>1 DEF Message, Hint, Running
    <3>2. mounted \in SUBSET Queries BY DEF TrackTypeOK, Queries
    <3>3. TrackTypeOK'
      BY <1>9, <2>1, <3>1, <3>2, OrdersAskedAnew, <1>0 DEF Message, Hint, Running,
         TrackTypeOK, Queries
    <3>4. OrdersFollowMessages'
      <4>1. heard' <= moves' /\ \A m \in received' : m <= heard'
        BY <1>9, <2>1, <1>0 DEF Message, Hint, OrdersFollowMessages, TrackTypeOK
      <4>2. \A q \in mounted' : ~joined'[q] => asking'[q].stage = "sent"
        BY <1>9, <3>1, <3>2, OrdersAskedAnew DEF Message
      <4> QED BY <4>1, <4>2 DEF OrdersFollowMessages
    <3>5. ClosedIsEmpty'
      BY <1>9, <2>1, <3>1, <3>2, OrdersAskedAnew, <1>0 DEF Message, Hint, Running,
         TrackTypeOK, ClosedIsEmpty, Queries, NoLook
    <3>6. OnlyLookIsOwed'
      BY <1>9, <2>1, <3>1, <3>2, OrdersAskedAnew, <1>0 DEF Message, Hint, Running,
         TrackTypeOK, OnlyLookIsOwed, Queries, NoLook
    <3> QED BY <3>3, <3>4, <3>5, <3>6
  <2>2. CASE ~(n \notin received)
    <3>1. TrackTypeOK' BY <1>9, <2>2, <1>0 DEF Message, Hint, Running, TrackTypeOK, Queries
    <3>2. OrdersFollowMessages'
      BY <1>9, <2>2, <1>0 DEF Message, Hint, Running, TrackTypeOK, OrdersFollowMessages,
         Queries
    <3>3. ClosedIsEmpty'
      BY <1>9, <2>2, <1>0 DEF Message, Hint, Running, TrackTypeOK, ClosedIsEmpty, Queries,
         NoLook
    <3>4. OnlyLookIsOwed'
      BY <1>9, <2>2, <1>0 DEF Message, Hint, Running, TrackTypeOK, OnlyLookIsOwed, Queries,
         NoLook
    <3> QED BY <3>1, <3>2, <3>3, <3>4
  <2> QED BY <2>1, <2>2
<1>10. ASSUME NEW n \in Notices, TapBehind(n) PROVE TrackInvariant'
  <2>1. CASE n \notin received
    <3>1. AskAnew(mounted) BY <1>10, <2>1 DEF TapBehind, Hint, NoLook
    <3>2. mounted \in SUBSET Queries BY DEF TrackTypeOK, Queries
    <3>3. TrackTypeOK'
      BY ZenonT(40), <1>10, <2>1, <3>1, <3>2, OrdersAskedAnew, <1>0 DEF TapBehind, Hint,
         NoLook, TrackTypeOK, Queries
    <3>4. OrdersFollowMessages'
      <4>1. heard' <= moves' /\ \A m \in received' : m <= heard'
        BY <1>10, <2>1, <1>0 DEF TapBehind, Hint, OrdersFollowMessages, TrackTypeOK
      <4>2. \A q \in mounted' : ~joined'[q] => asking'[q].stage = "sent"
        BY <1>10, <3>1, <3>2, OrdersAskedAnew DEF TapBehind
      <4> QED BY <4>1, <4>2 DEF OrdersFollowMessages
    <3>5. ClosedIsEmpty'
      BY <1>10, <2>1, <3>1, <3>2, OrdersAskedAnew, <1>0 DEF TapBehind, Hint, NoLook,
         TrackTypeOK, ClosedIsEmpty, Queries
    <3>6. OnlyLookIsOwed'
      BY <1>10, <2>1, <3>1, <3>2, OrdersAskedAnew, <1>0 DEF TapBehind, Hint, NoLook,
         TrackTypeOK, OnlyLookIsOwed, Queries
    <3> QED BY <3>3, <3>4, <3>5, <3>6
  <2>2. CASE ~(n \notin received)
    <3>1. TrackTypeOK' BY <1>10, <2>2, <1>0 DEF TapBehind, Hint, NoLook, TrackTypeOK, Queries
    <3>2. OrdersFollowMessages'
      BY <1>10, <2>2, <1>0 DEF TapBehind, Hint, NoLook, TrackTypeOK, OrdersFollowMessages,
         Queries
    <3>3. ClosedIsEmpty'
      BY <1>10, <2>2, <1>0 DEF TapBehind, Hint, NoLook, TrackTypeOK, ClosedIsEmpty, Queries
    <3>4. OnlyLookIsOwed'
      BY <1>10, <2>2, <1>0 DEF TapBehind, Hint, NoLook, TrackTypeOK, OnlyLookIsOwed, Queries
    <3> QED BY <3>1, <3>2, <3>3, <3>4
  <2> QED BY <2>1, <2>2
<1>11. CASE ToBack
  <2>1. TrackTypeOK' BY <1>11 DEF ToBack, Running, TrackTypeOK, Queries, OrderRequests
  <2>2. OrdersFollowMessages'
    BY <1>11, <2>1 DEF ToBack, Running, TrackTypeOK, OrderRequests, OrdersFollowMessages,
       Queries
  <2>3. ClosedIsEmpty'
    BY <1>11, <2>1 DEF ToBack, Running, TrackTypeOK, OrderRequests, ClosedIsEmpty, Queries,
       NoLook
  <2>4. OnlyLookIsOwed'
    BY <1>11, <2>1 DEF ToBack, Running, TrackTypeOK, OrderRequests, OnlyLookIsOwed, Queries,
       NoLook
  <2> QED BY <2>1, <2>2, <2>3, <2>4
<1>12. CASE Resume
  <2>1. AskAnew(mounted) BY <1>12 DEF Resume
  <2>2. mounted \in SUBSET Queries BY DEF TrackTypeOK, Queries
  <2>3. TrackTypeOK' BY <1>12, <2>1, <2>2, OrdersAskedAnew DEF Resume, TrackTypeOK, Queries
  <2>4. OrdersFollowMessages'
    BY <1>12, <2>1, <2>2, OrdersAskedAnew DEF Resume, TrackTypeOK, OrdersFollowMessages,
       Queries
  <2>5. ClosedIsEmpty'
    BY <1>12, <2>1, <2>2, OrdersAskedAnew DEF Resume, TrackTypeOK, ClosedIsEmpty, Queries,
       NoLook
  <2>6. OnlyLookIsOwed'
    BY <1>12, <2>1, <2>2, OrdersAskedAnew DEF Resume, TrackTypeOK, OnlyLookIsOwed, Queries,
       NoLook
  <2> QED BY <2>3, <2>4, <2>5, <2>6
<1>13. CASE CloseApp
  <2>1. TrackTypeOK'
    BY <1>13 DEF CloseApp, NoAnswer, NotAsking, NoLook, TrackTypeOK, Queries, OrderRequests
  <2>2. OrdersFollowMessages'
    BY <1>13, <2>1 DEF CloseApp, NoAnswer, NotAsking, NoLook, TrackTypeOK, OrderRequests,
       OrdersFollowMessages, Queries
  <2>3. ClosedIsEmpty'
    BY <1>13, <2>1 DEF CloseApp, NoAnswer, NotAsking, NoLook, TrackTypeOK, OrderRequests,
       ClosedIsEmpty, Queries
  <2>4. OnlyLookIsOwed'
    BY <1>13, <2>1 DEF CloseApp, NoAnswer, NotAsking, NoLook, TrackTypeOK, OrderRequests,
       OnlyLookIsOwed, Queries
  <2> QED BY <2>1, <2>2, <2>3, <2>4
<1>14. CASE StartApp
  <2>1. CASE UNCHANGED <<received, heard, look>>
    <3>1. TrackTypeOK' BY <1>14, <2>1 DEF StartApp, TrackTypeOK
    <3>2. OrdersFollowMessages' BY <1>14, <2>1 DEF StartApp, OrdersFollowMessages
    <3>3. ClosedIsEmpty' /\ OnlyLookIsOwed'
      BY <1>14, <2>1 DEF StartApp, ClosedIsEmpty, OnlyLookIsOwed
    <3> QED BY <3>1, <3>2, <3>3
  <2>2. ASSUME NEW n \in 1 .. moves, received' = {n}, heard' = IF n > heard THEN n ELSE heard,
               look' = [stage |-> "reading", n |-> n, live |-> TRUE]
        PROVE  TrackInvariant'
    <3>1. n \in Nat /\ n <= moves BY <2>2 DEF TrackTypeOK
    <3>2. mounted = {} /\ owed = {}
      BY <1>14 DEF StartApp, ClosedIsEmpty, OnlyLookIsOwed, NoLook
    <3>3. TrackTypeOK' BY <1>14, <2>2, <3>1 DEF StartApp, TrackTypeOK
    <3>4. OrdersFollowMessages'
      BY <1>14, <2>2, <3>1, <3>2 DEF StartApp, OrdersFollowMessages, TrackTypeOK
    <3>5. ClosedIsEmpty' BY <1>14 DEF StartApp, ClosedIsEmpty
    <3>6. OnlyLookIsOwed' BY <1>14, <3>2 DEF StartApp, OnlyLookIsOwed
    <3> QED BY <3>3, <3>4, <3>5, <3>6
  <2> QED BY <1>14, <2>1, <2>2 DEF StartApp
<1>15. CASE LookRead
  <2>1. TrackTypeOK' BY <1>15 DEF LookRead, NoLook, TrackTypeOK, Queries, OrderRequests
  <2>2. OrdersFollowMessages'
    BY <1>15, <2>1 DEF LookRead, NoLook, TrackTypeOK, OrderRequests, OrdersFollowMessages,
       Queries
  <2>3. ClosedIsEmpty'
    BY <1>15, <2>1 DEF LookRead, NoLook, TrackTypeOK, OrderRequests, ClosedIsEmpty, Queries
  <2>4. OnlyLookIsOwed'
    BY <1>15, <2>1 DEF LookRead, NoLook, TrackTypeOK, OrderRequests, OnlyLookIsOwed, Queries
  <2> QED BY <2>1, <2>2, <2>3, <2>4
<1>16. CASE LookLeads
  <2>1. CASE look.live
    <3>1. AskAnew({"detail"}) BY <1>16, <2>1 DEF LookLeads, Focus, NoLook
    <3>2. {"detail"} \in SUBSET Queries BY DEF TrackTypeOK, Queries
    <3>3. TrackTypeOK'
      BY <1>16, <2>1, <3>1, <3>2, OrdersAskedAnew DEF LookLeads, Focus, NoLook, TrackTypeOK,
         Queries
    <3>4. OrdersFollowMessages'
      <4>1. heard' <= moves' /\ \A m \in received' : m <= heard'
        BY <1>16 DEF LookLeads, OrdersFollowMessages
      <4>2. ASSUME NEW q \in mounted', ~joined'[q]
            PROVE  /\ asking'[q].stage = "served" => asking'[q].seen >= heard'
                   /\ asking'[q].stage = "idle" /\ ~answer'[q].failed => answer'[q].seen >= heard'
        <5>1. CASE q = "detail"
          BY <4>2, <5>1, <3>1, <3>2, OrdersAskedAnew
        <5>2. CASE q # "detail"
          <6>1. q \in mounted /\ q \in Queries \ {"detail"} /\ UNCHANGED <<answer, heard>>
            BY <1>16, <2>1, <4>2, <5>2 DEF LookLeads, Focus, TrackTypeOK
          <6>2. joined'[q] = joined[q] /\ asking'[q] = asking[q]
            BY <6>1, <3>1, <3>2, OrdersAskedAnew
          <6> QED BY <4>2, <6>1, <6>2 DEF OrdersFollowMessages
        <5> QED BY <5>1, <5>2
      <4> QED BY <4>1, <4>2 DEF OrdersFollowMessages
    <3>5. ClosedIsEmpty'
      BY <1>16, <2>1, <3>1, <3>2, OrdersAskedAnew DEF LookLeads, Focus, NoLook, TrackTypeOK,
         ClosedIsEmpty, Queries
    <3>6. OnlyLookIsOwed'
      BY <1>16, <2>1, <3>1, <3>2, OrdersAskedAnew DEF LookLeads, Focus, NoLook, TrackTypeOK,
         OnlyLookIsOwed, Queries
    <3> QED BY <3>3, <3>4, <3>5, <3>6
  <2>2. CASE ~(look.live)
    <3>1. TrackTypeOK' BY <1>16, <2>2 DEF LookLeads, Focus, NoLook, TrackTypeOK, Queries
    <3>2. OrdersFollowMessages'
      BY <1>16, <2>2 DEF LookLeads, Focus, NoLook, TrackTypeOK, OrdersFollowMessages, Queries
    <3>3. ClosedIsEmpty'
      BY <1>16, <2>2 DEF LookLeads, Focus, NoLook, TrackTypeOK, ClosedIsEmpty, Queries
    <3>4. OnlyLookIsOwed'
      BY <1>16, <2>2 DEF LookLeads, Focus, NoLook, TrackTypeOK, OnlyLookIsOwed, Queries
    <3> QED BY <3>1, <3>2, <3>3, <3>4
  <2> QED BY <2>1, <2>2
<1>17. CASE LookFails
  <2>1. TrackTypeOK'
    BY <1>17 DEF LookFails, LookLost, NoLook, TrackTypeOK, Queries, OrderRequests
  <2>2. OrdersFollowMessages'
    BY <1>17, <2>1 DEF LookFails, LookLost, NoLook, TrackTypeOK, OrderRequests,
       OrdersFollowMessages, Queries
  <2>3. ClosedIsEmpty'
    BY <1>17, <2>1 DEF LookFails, LookLost, NoLook, TrackTypeOK, OrderRequests, ClosedIsEmpty,
       Queries
  <2>4. OnlyLookIsOwed'
    BY <1>17, <2>1 DEF LookFails, LookLost, NoLook, TrackTypeOK, OrderRequests,
       OnlyLookIsOwed, Queries
  <2> QED BY <2>1, <2>2, <2>3, <2>4
<1> QED
  BY <1>1, <1>2, <1>3, <1>4, <1>5, <1>6, <1>7, <1>8, <1>9, <1>10, <1>11, <1>12, <1>13, <1>14,
     <1>15, <1>16, <1>17 DEF TrackingNext

-----------------------------------------------------------------------------
(***************************************************************************)
(* An order's timeline                                                     *)
(***************************************************************************)

OnTheWay == {"pending_payment", "paid", "processing", "shipped", "delivered"}
HistoryEntries == [state: OnTheWay \union Explained, stamp: Nat]

\* What is written is later than all before it, and further on the way, unless
\* it ends it.
HistoryMoves ==
  \A i, j \in DOMAIN history : i < j =>
    /\ history[i].stamp < history[j].stamp
    /\ history[j].state \in OnTheWay =>
         history[i].state \in OnTheWay /\ Steps[history[i].state] < Steps[history[j].state]

HistoryInvariant ==
  /\ history \in Seq(HistoryEntries) /\ history # <<>>
  /\ HistoryMoves

LEMMA StepsOnTheWay == DOMAIN Steps = OnTheWay /\ \A state \in OnTheWay : Steps[state] \in Nat
BY DEF Steps, OnTheWay

LEMMA FollowingStep ==
  ASSUME NEW state \in OnTheWay \union Explained, NEW next \in Following(state)
  PROVE  /\ state \in OnTheWay /\ next \in OnTheWay \union Explained
         /\ next \in OnTheWay => Steps[state] < Steps[next]
BY DEF OnTheWay, Explained, Following, Steps

LEMMA HistoryStep ==
  ASSUME HistoryInvariant, TimelineNext
  PROVE  HistoryInvariant'
<1>1. PICK now \in 0 .. MaxStamp : Move(now) BY DEF TimelineNext
<1>2. PICK state \in Following(State) :
        history' = Append(history, [state |-> state, stamp |-> Stamp(now)])
  BY <1>1 DEF Move
<1> DEFINE last == Len(history)
<1>3. /\ last \in Nat \ {0} /\ DOMAIN history = 1 .. last /\ last \in DOMAIN history
      /\ \A i \in DOMAIN history : history[i] \in HistoryEntries
  BY DEF HistoryInvariant
<1>4. State \in OnTheWay \union Explained BY <1>3 DEF State, HistoryEntries
<1>5. /\ State \in OnTheWay /\ state \in OnTheWay \union Explained
      /\ state \in OnTheWay => Steps[State] < Steps[state]
  BY <1>4, FollowingStep
<1>6. Stamp(now) \in Nat /\ history[last].stamp < Stamp(now)
  <2>1. now \in Nat BY TimelineAssumption
  <2>2. history[last].stamp \in Nat BY <1>3 DEF HistoryEntries
  <2> QED BY <2>1, <2>2 DEF Stamp
<1> DEFINE e == [state |-> state, stamp |-> Stamp(now)]
<1>7. e \in HistoryEntries BY <1>5, <1>6 DEF HistoryEntries
<1>8. history' \in Seq(HistoryEntries) /\ history' # <<>>
  BY <1>2, <1>7 DEF HistoryInvariant
<1>9. /\ DOMAIN history' = 1 .. last + 1 /\ history'[last + 1] = e
      /\ \A i \in DOMAIN history : history'[i] = history[i]
  BY <1>2, <1>3, <1>7 DEF HistoryInvariant
<1>10. HistoryMoves'
  <2> SUFFICES ASSUME NEW i \in 1 .. last + 1, NEW j \in 1 .. last + 1, i < j
               PROVE  /\ history'[i].stamp < history'[j].stamp
                      /\ history'[j].state \in OnTheWay =>
                           /\ history'[i].state \in OnTheWay
                           /\ Steps[history'[i].state] < Steps[history'[j].state]
    BY <1>9 DEF HistoryMoves
  <2>0. i \in DOMAIN history BY <1>3
  <2>1. CASE j # last + 1
    <3>1. j \in DOMAIN history BY <1>3, <2>1
    <3> QED BY <1>9, <2>0, <3>1 DEF HistoryInvariant, HistoryMoves
  <2>2. CASE j = last + 1
    <3>1. history'[j].state = state /\ history'[j].stamp = Stamp(now) BY <1>9, <2>2
    <3>2. history'[i] = history[i] BY <1>9, <2>0
    <3>3. CASE i = last
      BY <1>3, <1>5, <1>6, <3>1, <3>2, <3>3 DEF State
    <3>4. CASE i # last
      <4>1. i < last BY <1>3, <2>0, <3>4
      <4>2. /\ history[i].stamp < history[last].stamp
            /\ history[i].state \in OnTheWay /\ Steps[history[i].state] < Steps[State]
        BY <1>3, <1>5, <2>0, <4>1 DEF HistoryInvariant, HistoryMoves, State
      <4>3. /\ history[i].stamp \in Nat /\ history[last].stamp \in Nat
            /\ Steps[history[i].state] \in Nat /\ Steps[State] \in Nat
            /\ state \in OnTheWay => Steps[state] \in Nat
        BY <1>3, <1>5, <2>0, <4>2, StepsOnTheWay DEF HistoryEntries
      <4> QED BY SMTT(30), <1>5, <1>6, <3>1, <3>2, <4>2, <4>3
    <3> QED BY <3>3, <3>4
  <2> QED BY <2>1, <2>2
<1> QED BY <1>8, <1>10 DEF HistoryInvariant

LEMMA SecondsGrow ==
  ASSUME NEW s \in Nat, NEW t \in Nat, s < t
  PROVE  /\ s \div Second \in Nat /\ t \div Second \in Nat
         /\ s \div Second <= t \div Second
BY TimelineAssumption

\* Texts are in the order of the times, unless one follows a whole second in it.
LEMMA TextOrder ==
  ASSUME NEW s \in Nat, NEW t \in Nat, s < t,
         s % Second = 0 => s \div Second < t \div Second
  PROVE  TextBefore(s, t) /\ ~TextBefore(t, s)
<1>1. s \div Second \in Nat /\ t \div Second \in Nat /\ s \div Second <= t \div Second
  BY SecondsGrow
<1>2. CASE s \div Second < t \div Second BY <1>1, <1>2 DEF TextBefore
<1>3. CASE s \div Second = t \div Second
  <2>1. s % Second # 0 BY <1>1, <1>3
  <2> QED BY <1>1, <1>3, <2>1 DEF TextBefore
<1> QED BY <1>1, <1>2, <1>3

LEMMA HistoryIsTold ==
  ASSUME HistoryInvariant,
         \A i, j \in DOMAIN history :
            i < j /\ history[i].stamp % Second = 0 =>
              history[i].stamp \div Second < history[j].stamp \div Second
  PROVE  Timeline(history) = [i \in DOMAIN history |-> history[i].state]
<1> DEFINE n == Len(history)
<1>1. /\ n \in Nat /\ DOMAIN history = 1 .. n
      /\ \A i \in 1 .. n : history[i].stamp \in Nat
  <2>1. n \in Nat /\ DOMAIN history = 1 .. n BY DEF HistoryInvariant
  <2>2. \A i \in 1 .. n : history[i] \in HistoryEntries BY DEF HistoryInvariant
  <2> QED BY <2>1, <2>2 DEF HistoryEntries
<1>2. ASSUME NEW i \in 1 .. n, NEW j \in 1 .. n
      PROVE  Precedes(history, j, i) <=> j < i
  <2>1. CASE j < i
    <3>1. TextBefore(history[j].stamp, history[i].stamp)
      BY <1>1, <2>1, TextOrder DEF HistoryInvariant, HistoryMoves
    <3> QED BY <2>1, <3>1 DEF Precedes
  <2>2. CASE i < j
    <3>1. history[i].stamp < history[j].stamp BY <1>1, <2>2 DEF HistoryInvariant, HistoryMoves
    <3>2. ~TextBefore(history[j].stamp, history[i].stamp)
      BY <1>1, <2>2, <3>1, TextOrder
    <3>3. history[i].stamp # history[j].stamp BY <1>1, <3>1
    <3> QED BY <2>2, <3>2, <3>3 DEF Precedes
  <2>3. CASE i = j
    <3>1. history[i].stamp \in Nat BY <1>1
    <3>2. ~(history[i].stamp \div Second < history[i].stamp \div Second)
      BY <3>1, TimelineAssumption
    <3> QED BY <2>3, <3>1, <3>2 DEF Precedes, TextBefore
  <2> QED BY <1>1, <2>1, <2>2, <2>3
<1>3. ASSUME NEW i \in 1 .. n
      PROVE  Cardinality({j \in DOMAIN history : Precedes(history, j, i)}) = i - 1
  <2>1. {j \in DOMAIN history : Precedes(history, j, i)} = 1 .. i - 1
    BY <1>1, <1>2
  <2>2. i \in Int /\ i >= 1 /\ i - 1 \in Int BY <1>1
  <2>3. Cardinality(1 .. i - 1) = IF 1 > i - 1 THEN 0 ELSE (i - 1) - 1 + 1 BY <2>2, FS_Interval
  <2>4. Cardinality(1 .. i - 1) = i - 1 BY <2>2, <2>3
  <2> QED BY <2>1, <2>4
<1>4. ASSUME NEW k \in 1 .. n
      PROVE  (CHOOSE i \in DOMAIN history :
                Cardinality({j \in DOMAIN history : Precedes(history, j, i)}) = k - 1) = k
  <2> DEFINE P(i) == Cardinality({j \in DOMAIN history : Precedes(history, j, i)}) = k - 1
  <2>1. \A i \in 1 .. n : P(i) <=> i = k BY <1>1, <1>3
  <2> HIDE DEF P
  <2>2. (CHOOSE i \in DOMAIN history : P(i)) = k BY <1>1, <2>1
  <2> QED BY <2>2 DEF P
<1>5. Timeline(history) = [k \in DOMAIN history |-> history[k].state]
  <2> DEFINE place(k) == CHOOSE i \in DOMAIN history :
                        Cardinality({j \in DOMAIN history : Precedes(history, j, i)}) = k - 1
  <2>1. Timeline(history) = [k \in DOMAIN history |-> history[place(k)].state] BY DEF Timeline
  <2>2. \A k \in DOMAIN history : place(k) = k BY <1>1, <1>4
  <2> HIDE DEF place
  <2> QED BY <2>1, <2>2
<1> QED BY <1>5

LEMMA TimelineTells == HistoryInvariant => TimelineTellsTheMoves
<1> SUFFICES ASSUME HistoryInvariant PROVE TimelineTellsTheMoves OBVIOUS
<1> DEFINE steps == [i \in DOMAIN history |-> history[i].state]
<1>1. /\ Len(history) \in DOMAIN history
      /\ \A i \in DOMAIN history : history[i].state \in OnTheWay \union Explained
  <2>1. Len(history) \in DOMAIN history BY DEF HistoryInvariant
  <2>2. \A i \in DOMAIN history : history[i] \in HistoryEntries BY DEF HistoryInvariant
  <2> QED BY <2>1, <2>2 DEF HistoryEntries
<1>2. \A i, j \in DOMAIN history :
        i < j /\ steps[j] \in DOMAIN Steps => Steps[steps[i]] < Steps[steps[j]]
  BY StepsOnTheWay DEF HistoryInvariant, HistoryMoves
<1>3. steps[Len(history)] \in (DOMAIN Steps \union Explained) BY <1>1, StepsOnTheWay
<1>4. Bucket(State) = "done" => Following(State) \subseteq {"refunded"}
  BY DEF Bucket, Following, Explained
<1>5. (\A i, j \in DOMAIN history :
         i < j /\ history[i].stamp % Second = 0 =>
           history[i].stamp \div Second < history[j].stamp \div Second)
      => Timeline(history) = steps
  BY HistoryIsTold
<1> QED BY <1>2, <1>3, <1>4, <1>5 DEF TimelineTellsTheMoves

-----------------------------------------------------------------------------
(***************************************************************************)
(* The cart: types                                                         *)
(***************************************************************************)

Caches == [data: Answers, load: {"pending", "ok", "error", "expired"}]
Requests == [stage: {"idle", "sent", "answered"}, answer: Answers, sku: Skus]
Entries == [stage: {"idle", "sent", "answered", "reloading"}, answer: Answers,
            asked: 0 .. None, latest: 0 .. None, confirmed: Answers]

\* CartTypeOK by the sets above; a load is not refused as a change may be, and
\* what is sent is a quantity.
CartTyped ==
  /\ cart \in Lines /\ lapsed \in BOOLEAN /\ fee \in 0 .. MaxFee
  /\ cache \in Caches /\ fetch \in Requests /\ adding \in Requests
  /\ queue \in [Skus -> Entries]
  /\ taps \in 0 .. MaxTaps /\ faults \in 0 .. MaxFaults
  /\ wish \in [Skus -> 0 .. None] /\ behind \in BOOLEAN
  /\ fetch.stage = "answered" => fetch.answer.kind \in {"cart", "expired", "error"}
  /\ adding.stage = "answered" => adding.answer.kind \in {"cart", "refused", "expired", "error"}
  /\ \A s \in Skus : queue[s].stage = "sent" => queue[s].asked \in Quantities

LEMMA CartTypes == CartTyped => CartTypeOK
BY DEF CartTyped, CartTypeOK, Caches, Requests, Entries

LEMMA Blanks ==
  /\ EmptyLines \in Lines /\ NoCart \in Answers
  /\ \A kind \in {"refused", "expired", "error"} : Refused(kind) \in Answers /\ Refused(kind).kind = kind
  /\ Quiet \in Requests /\ Quiet.stage = "idle"
  /\ NoEntry \in Entries /\ NoEntry.stage = "idle" /\ NoEntry.latest = None
<1>1. EmptyLines \in Lines /\ NoCart \in Answers
  BY CartAssumption DEF EmptyLines, Lines, Quantities, NoCart, Answers
<1>2. \A kind \in {"refused", "expired", "error"} : Refused(kind) \in Answers /\ Refused(kind).kind = kind
  BY <1>1 DEF Refused, NoCart, Answers
<1>3. (CHOOSE s \in Skus : TRUE) \in Skus BY CartAssumption
<1>4. Quiet \in Requests /\ Quiet.stage = "idle" BY <1>1, <1>3 DEF Quiet, Requests
<1>5. None \in 0 .. None BY CartAssumption DEF None
<1> QED BY <1>1, <1>2, <1>4, <1>5 DEF NoEntry, Entries

LEMMA Views ==
  ASSUME CartTyped, NEW lines \in Lines
  PROVE  View(lines) \in Answers /\ View(lines).lines = lines /\ View(lines).kind = "cart"
BY DEF CartTyped, View, Answers

LEMMA AnswersTyped ==
  ASSUME CartTyped, NEW s \in Skus, NEW q \in Quantities, NEW outcome \in {"expired", "refused", "cart"}
  PROVE  /\ AnswerTo(s, q, outcome) \in Answers
         /\ AnswerTo(s, q, outcome).kind = outcome
         /\ outcome = "cart" => AnswerTo(s, q, outcome).lines = [cart EXCEPT ![s] = q]
<1>1. [cart EXCEPT ![s] = q] \in Lines BY DEF CartTyped, Lines
<1> QED BY <1>1, Views, Blanks DEF AnswerTo

LEMMA OptimismTyped ==
  ASSUME NEW data \in Answers, NEW s \in Skus, NEW q \in Quantities
  PROVE  Optimistic(data, s, q) \in Answers
<1>1. CASE data.kind = "cart" /\ data.lines[s] > 0
  <2>1. [data.lines EXCEPT ![s] = q] \in Lines BY DEF Answers, Lines
  <2>2. Optimistic(data, s, q) = [data EXCEPT !.lines = [data.lines EXCEPT ![s] = q]]
    BY <1>1 DEF Optimistic, Answers
  <2> QED BY <2>1, <2>2 DEF Answers
<1>2. CASE ~(data.kind = "cart" /\ data.lines[s] > 0) BY <1>2 DEF Optimistic
<1> QED BY <1>1, <1>2

LEMMA StoredTyped ==
  ASSUME CartTyped, NEW data \in Answers
  PROVE  Stored(data) \in Caches
BY DEF CartTyped, Stored, Caches

LEMMA Closed ==
  ASSUME CartTyped, Close
  PROVE  /\ cart' \in Lines /\ lapsed' \in BOOLEAN /\ wish' \in [Skus -> 0 .. None]
         /\ \A s \in Skus : wish'[s] = None
<1>1. None \in 0 .. None BY CartAssumption DEF None
<1> QED BY <1>1, Blanks DEF Close

LEMMA Refetched ==
  ASSUME NEW over, Refetch(over)
  PROVE  fetch' \in Requests /\ fetch'.stage = "sent" /\ behind' \in BOOLEAN
BY Blanks DEF Refetch, Requests

LEMMA Posed ==
  ASSUME NEW r \in Requests, NEW stage \in {"sent", "answered"}, NEW a \in Answers, NEW s \in Skus
  PROVE  /\ [r EXCEPT !.stage = stage] \in Requests
         /\ [r EXCEPT !.stage = stage, !.answer = a] \in Requests
         /\ [r EXCEPT !.stage = stage, !.sku = s] \in Requests
BY DEF Requests

LEMMA Entered ==
  ASSUME NEW e \in Entries, NEW a \in Answers, NEW q \in 0 .. None
  PROVE  /\ [e EXCEPT !.stage = "answered", !.answer = a] \in Entries
         /\ [e EXCEPT !.latest = q] \in Entries
         /\ [e EXCEPT !.stage = "reloading"] \in Entries
         /\ [e EXCEPT !.stage = "sent", !.asked = q, !.confirmed = a] \in Entries
BY DEF Entries

LEMMA CartTypeStep ==
  ASSUME CartTyped, CartStep \/ TapStep
  PROVE  CartTyped'
<1>0. /\ None \in 0 .. None /\ Quantities \subseteq 0 .. None /\ Quantities \subseteq Nat
      /\ MaxTaps \in Nat /\ MaxFaults \in Nat /\ MaxFee \in Nat /\ MaxQty \in Nat
  BY CartAssumption DEF None, Quantities
<1>1. CASE Lapse
  BY <1>1, <1>0, Blanks, Closed, Refetched, Views, AnswersTyped, OptimismTyped, StoredTyped
     DEF Lapse, CartTyped, Requests, Caches, Entries
<1>2. CASE Sweep
  BY <1>2, <1>0, Blanks, Closed, Refetched, Views, AnswersTyped, OptimismTyped, StoredTyped
     DEF Sweep, CartTyped, Requests, Caches, Entries
<1>3. CASE ChangeFee
  BY <1>3, <1>0, Blanks, Closed, Refetched, Views, AnswersTyped, OptimismTyped, StoredTyped
     DEF ChangeFee, CartTyped, Requests, Caches, Entries
<1>4. CASE Load
  BY <1>4, <1>0, Blanks, Closed, Refetched, Views, AnswersTyped, OptimismTyped, StoredTyped
     DEF Load, CartTyped, Requests, Caches, Entries
<1>5. CASE ServeFetch
  <2>1. View(cart) \in Answers BY Views DEF CartTyped
  <2>2. fetch' \in Requests /\ fetch'.answer.kind \in {"cart", "expired", "error"}
    <3>1. PICK a \in Answers : /\ fetch' = [Quiet EXCEPT !.stage = "answered", !.answer = a]
                               /\ a.kind \in {"cart", "expired"}
      BY <1>5, <2>1, Blanks, Views DEF ServeFetch, CartTyped
    <3>2. fetch' \in Requests BY <3>1, Blanks, Posed, CartAssumption
    <3>3. fetch'.answer = a BY <3>1, Blanks DEF Requests
    <3> QED BY <3>1, <3>2, <3>3
  <2>3. CASE lapsed BY <1>5, <2>2, <2>3, Closed DEF ServeFetch, CartTyped
  <2>4. CASE ~lapsed BY <1>5, <2>2, <2>4 DEF ServeFetch, CartTyped
  <2> QED BY <2>3, <2>4
<1>6. CASE LoseFetch
  <2>1. fetch' \in Requests /\ fetch'.answer.kind = "error"
    BY <1>6, Blanks, Posed, CartAssumption DEF LoseFetch, Requests
  <2> QED BY <1>6, <1>0, <2>1 DEF LoseFetch, Fault, CartTyped
<1>7. CASE EndFetch
  <2>1. cache' \in Caches
    <3>1. fetch.answer \in Answers BY DEF CartTyped, Requests
    <3>2. CASE fetch.answer.kind = "cart" BY <1>7, <3>1, <3>2 DEF EndFetch, Loaded, Caches
    <3>3. CASE fetch.answer.kind # "cart"
      <4>1. fetch.answer.kind \in {"error", "expired"} BY <1>7, <3>3 DEF EndFetch, CartTyped
      <4>2. cache' = [cache EXCEPT !.load = fetch.answer.kind]
        BY <1>7, <3>3 DEF EndFetch, Loaded
      <4> QED BY <4>1, <4>2 DEF Caches, CartTyped
    <3> QED BY <3>2, <3>3
  <2>2. queue' \in [Skus -> Entries] BY <1>7, Blanks DEF EndFetch, CartTyped
  <2>3. wish' \in [Skus -> 0 .. None] BY <1>7, <1>0 DEF EndFetch, CartTyped
  <2> QED BY <1>7, <2>1, <2>2, <2>3, Blanks DEF EndFetch, CartTyped
<1>8. CASE ServeAdd
  <2> DEFINE s == adding.sku
  <2> DEFINE q == cart[s] + 1
  <2>1. s \in Skus BY DEF CartTyped, Requests
  <2>2. PICK outcome \in Outcomes(q) :
          /\ adding' = [adding EXCEPT !.stage = "answered", !.answer = AnswerTo(s, q, outcome)]
          /\ CASE outcome = "expired" -> Close
               [] outcome = "refused" -> UNCHANGED <<cart, lapsed, wish>>
               [] outcome = "cart" -> /\ cart' = [cart EXCEPT ![s] = q] /\ UNCHANGED lapsed
                                      /\ wish' = [wish EXCEPT ![s] = None]
    BY <1>8 DEF ServeAdd
  <2>3. outcome \in {"expired", "refused", "cart"} BY DEF Outcomes
  <2>4. outcome # "expired" => q \in Quantities
    <3>1. outcome # "expired" => cart[s] < MaxQty BY <1>8 DEF ServeAdd, Outcomes
    <3> QED BY <2>1, <3>1, CartAssumption DEF CartTyped, Lines, Quantities
  <2>5. AnswerTo(s, q, outcome) \in Answers
    BY <2>1, <2>3, <2>4, AnswersTyped, Blanks DEF AnswerTo
  <2>5a. AnswerTo(s, q, outcome).kind = outcome
    BY <2>1, <2>3, <2>4, AnswersTyped, Blanks DEF AnswerTo
  <2>6. adding' \in Requests BY <2>1, <2>2, <2>5, Posed DEF CartTyped
  <2>6a. adding'.answer = AnswerTo(s, q, outcome) BY <2>2 DEF CartTyped, Requests
  <2>7. cart' \in Lines /\ lapsed' \in BOOLEAN /\ wish' \in [Skus -> 0 .. None]
    <3>1. CASE outcome = "expired" BY <2>2, <3>1, Closed
    <3>2. CASE outcome = "refused" BY <2>2, <3>2 DEF CartTyped
    <3>3. CASE outcome = "cart" BY <1>0, <2>1, <2>2, <2>4, <3>3 DEF CartTyped, Lines
    <3> QED BY <2>3, <3>1, <3>2, <3>3
  <2>8. adding'.answer.kind \in {"cart", "refused", "expired", "error"}
    BY <2>3, <2>5a, <2>6a
  <2> QED BY <1>8, <2>6, <2>7, <2>8 DEF ServeAdd, CartTyped
<1>9. CASE LoseAdd
  <2>1. adding' \in Requests /\ adding'.answer.kind = "error"
    <3>1. adding' \in Requests BY <1>9, Blanks, Posed, CartAssumption DEF LoseAdd, CartTyped
    <3>2. adding'.answer = Refused("error") BY <1>9 DEF LoseAdd, CartTyped, Requests
    <3> QED BY <3>1, <3>2, Blanks
  <2> QED BY <1>9, <1>0, <2>1 DEF LoseAdd, Fault, CartTyped
<1>10. CASE EndAdd
  BY <1>10, <1>0, Blanks, Closed, Refetched, Views, AnswersTyped, OptimismTyped, StoredTyped
     DEF EndAdd, CartTyped, Requests, Caches, Entries
<1>11. ASSUME NEW s \in Skus, ServeChange(s) PROVE CartTyped'
  <2> DEFINE q == queue[s].asked
  <2>1. PICK outcome \in Outcomes(q) :
          /\ SetLine(s, q, outcome)
          /\ queue' = [queue EXCEPT ![s].stage = "answered", ![s].answer = AnswerTo(s, q, outcome)]
    BY <1>11 DEF ServeChange
  <2>2. outcome \in {"expired", "refused", "cart"} BY DEF Outcomes
  <2>3. q \in Quantities BY <1>11 DEF ServeChange, CartTyped
  <2>4. /\ queue' \in [Skus -> Entries]
        /\ \A t \in Skus : queue'[t].stage = "sent" => queue'[t].asked \in Quantities
    <3> DEFINE e == [queue[s] EXCEPT !.stage = "answered", !.answer = AnswerTo(s, q, outcome)]
    <3>1. AnswerTo(s, q, outcome) \in Answers BY <2>2, <2>3, AnswersTyped
    <3>2. e \in Entries /\ e.stage = "answered" BY <3>1 DEF CartTyped, Entries
    <3>3. queue' = [queue EXCEPT ![s] = e] BY <2>1 DEF CartTyped, Entries
    <3> QED BY <3>2, <3>3 DEF CartTyped
  <2>5. cart' \in Lines /\ lapsed' \in BOOLEAN /\ wish' \in [Skus -> 0 .. None]
    BY <2>1, <2>2, <2>3, Closed, <1>11 DEF SetLine, CartTyped, Lines
  <2> QED BY <1>11, <2>4, <2>5 DEF ServeChange, CartTyped
<1>12. ASSUME NEW s \in Skus, LoseChange(s) PROVE CartTyped'
  BY <1>12, <1>0, Blanks, Closed, Refetched, Views, AnswersTyped, OptimismTyped, StoredTyped
     DEF LoseChange, Fault, CartTyped, Requests, Caches, Entries
<1>13. ASSUME NEW s \in Skus, AcceptChange(s) PROVE CartTyped'
  <2>1. /\ queue[s] \in Entries /\ queue[s].answer \in Answers /\ queue[s].latest \in 0 .. None
    BY <1>13 DEF CartTyped, Entries
  <2>2. CASE queue[s].latest = None
    BY <1>13, <2>1, <2>2, Blanks, StoredTyped DEF AcceptChange, Accepted, CartTyped
  <2>3. CASE queue[s].latest # None
    <3>1. queue[s].latest \in Quantities BY <2>1, <2>3, CartAssumption DEF None, Quantities
    <3>2. cache' \in Caches
      BY <1>13, <2>1, <2>3, <3>1, OptimismTyped, StoredTyped DEF AcceptChange, Accepted
    <3>3. /\ queue' \in [Skus -> Entries]
          /\ \A t \in Skus : queue'[t].stage = "sent" => queue'[t].asked \in Quantities
      <4>1. queue' = [queue EXCEPT ![s] = [NoEntry EXCEPT !.stage = "sent", !.asked = queue[s].latest,
                                                         !.confirmed = queue[s].answer]]
        BY <1>13, <2>3 DEF AcceptChange, Accepted
      <4>2. [NoEntry EXCEPT !.stage = "sent", !.asked = queue[s].latest,
                            !.confirmed = queue[s].answer] \in Entries
        BY <2>1, Blanks, Entered
      <4>3. [NoEntry EXCEPT !.stage = "sent", !.asked = queue[s].latest,
                            !.confirmed = queue[s].answer].asked = queue[s].latest
        BY Blanks DEF Entries
      <4> QED BY <3>1, <4>1, <4>2, <4>3 DEF CartTyped
    <3> QED BY <1>13, <3>2, <3>3 DEF AcceptChange, CartTyped
  <2> QED BY <2>2, <2>3
<1>14. ASSUME NEW s \in Skus, FailChange(s) PROVE CartTyped'
  <2>1. queue[s] \in Entries /\ queue[s].confirmed \in Answers BY DEF CartTyped, Entries
  <2>2. cache' \in Caches BY <1>14, <2>1, StoredTyped DEF FailChange, RolledBack
  <2> DEFINE e == [NoEntry EXCEPT !.stage = "reloading"]
  <2>3. e \in Entries /\ e.stage = "reloading" BY Blanks DEF Entries
  <2>4. queue' = [queue EXCEPT ![s] = e] BY <1>14 DEF FailChange, RolledBack
  <2>5. /\ queue' \in [Skus -> Entries]
        /\ \A t \in Skus : queue'[t].stage = "sent" => queue'[t].asked \in Quantities
    BY <2>3, <2>4 DEF CartTyped
  <2> QED BY <1>14, <1>0, <2>2, <2>5, Refetched DEF FailChange, RolledBack, CartTyped
<1>15. ASSUME NEW s \in Skus, Add(s) PROVE CartTyped'
  <2>1. adding' \in Requests BY <1>15, Blanks, Posed DEF Add
  <2>2. adding'.stage = "sent" BY <1>15, Blanks DEF Add, Requests
  <2> QED BY <1>15, <1>0, <2>1, <2>2 DEF Add, Tap, Joining, CartTyped
<1>16. ASSUME NEW s \in Skus, NEW q \in Quantities, Change(s, q) PROVE CartTyped'
  <2>1. cache.data \in Answers BY DEF CartTyped, Caches
  <2>2. cache' \in Caches BY <1>16, <2>1, OptimismTyped, StoredTyped DEF Change
  <2>3. q \in 0 .. None BY <1>0
  <2>4. wish' \in [Skus -> 0 .. None] BY <1>16, <2>3 DEF Change, CartTyped
  <2>5. /\ queue' \in [Skus -> Entries] /\ behind' \in BOOLEAN
        /\ \A t \in Skus : queue'[t].stage = "sent" => queue'[t].asked \in Quantities
    <3>1. CASE Busy(s)
      <4>1. queue' = [queue EXCEPT ![s] = [queue[s] EXCEPT !.latest = q]] /\ behind' = behind
        BY <1>16, <3>1 DEF Change
      <4>2. [queue[s] EXCEPT !.latest = q] \in Entries BY <2>3, Entered, Blanks DEF CartTyped
      <4>3. /\ [queue[s] EXCEPT !.latest = q].stage = queue[s].stage
            /\ [queue[s] EXCEPT !.latest = q].asked = queue[s].asked
        BY DEF CartTyped, Entries
      <4> QED BY <4>1, <4>2, <4>3 DEF CartTyped
    <3>2. CASE ~Busy(s)
      <4> DEFINE e == [NoEntry EXCEPT !.stage = "sent", !.asked = q, !.confirmed = cache.data]
      <4>1. queue' = [queue EXCEPT ![s] = e] /\ behind' \in BOOLEAN
        BY <1>16, <3>2 DEF Change, Joining
      <4>2. e \in Entries BY <2>1, <2>3, Entered, Blanks
      <4>3. e.asked = q BY Blanks DEF Entries
      <4> QED BY <4>1, <4>2, <4>3 DEF CartTyped
    <3> QED BY <3>1, <3>2
  <2> QED BY <1>16, <1>0, <2>2, <2>4, <2>5 DEF Change, Tap, CartTyped
<1> QED
  BY <1>1, <1>2, <1>3, <1>4, <1>5, <1>6, <1>7, <1>8, <1>9, <1>10, <1>11, <1>12, <1>13, <1>14,
     <1>15, <1>16 DEF CartStep, TapStep

-----------------------------------------------------------------------------
(***************************************************************************)
(* The cart: the last tap, and the cart on the phone                       *)
(***************************************************************************)

Sending(s) == queue[s].stage \in {"sent", "answered"}

\* A wish that still counts is the API's once nothing of its line is under way;
\* until then it is what is asked for, or waits, last.
WishesAreKept ==
  \A s \in Skus : wish[s] # None =>
    /\ queue[s].stage = "idle" => cart[s] = wish[s]
    /\ queue[s].stage = "sent" =>
         wish[s] = IF queue[s].latest = None THEN queue[s].asked ELSE queue[s].latest
    /\ queue[s].stage = "answered" /\ queue[s].answer.kind = "cart" =>
         wish[s] = IF queue[s].latest = None THEN cart[s] ELSE queue[s].latest

\* While the order of answers is not open, one request is under way; its answer
\* is the API's cart, and so is the cache before a request that may change it.
AnswersAreCurrent ==
  /\ \A s \in Skus : queue[s].stage = "reloading" => fetch.stage # "idle"
  /\ ~behind =>
       /\ fetch.stage # "idle" => adding.stage = "idle"
       /\ \A s \in Skus : Sending(s) => fetch.stage = "idle" /\ adding.stage = "idle"
       /\ \A s, t \in Skus : Sending(s) /\ Sending(t) => s = t
       /\ fetch.stage = "answered" /\ fetch.answer.kind = "cart" => fetch.answer.lines = cart
       /\ adding.stage = "answered" /\ adding.answer.kind = "cart" => adding.answer.lines = cart
       /\ \A s \in Skus : queue[s].stage = "answered" /\ queue[s].answer.kind = "cart" =>
            queue[s].answer.lines = cart
       /\ /\ fetch.stage = "idle" /\ \A s \in Skus : ~Sending(s)
          /\ adding.stage = "answered" => adding.answer.kind = "refused"
          /\ cache.load = "ok"
          => cache.data.lines = cart

\* Paying touches the cart in four ways.
LEMMA PayingAndCart ==
  ASSUME PayStep
  PROVE  \/ UNCHANGED <<cart, lapsed, fee, cache, fetch, queue, adding, taps, wish, behind>>
         \/ Refetch({}) /\ UNCHANGED <<cart, lapsed, fee, cache, queue, adding, taps, wish>>
         \/ Close /\ behind' = TRUE /\ UNCHANGED <<fee, cache, fetch, queue, adding, taps>>
         \/ Kill
<1> USE DEF cartVars
<1>1. CASE Continue \/ Leave \/ Press \/ PresentSheet \/ EndSheet \/ LeaveConfirmation
  BY <1>1 DEF Continue, Leave, Press, PresentSheet, EndSheet, LeaveConfirmation
<1>2. ASSUME NEW n \in Screens, ServeCheckout(n)
      PROVE  \/ UNCHANGED <<cart, lapsed, fee, cache, fetch, queue, adding, taps, wish, behind>>
             \/ Close /\ behind' = TRUE /\ UNCHANGED <<fee, cache, fetch, queue, adding, taps>>
  BY <1>2 DEF ServeCheckout
<1>3. ASSUME NEW n \in Screens, LoseCheckout(n) \/ EndCheckout(n) \/ Review(n)
      PROVE  \/ UNCHANGED <<cart, lapsed, fee, cache, fetch, queue, adding, taps, wish, behind>>
             \/ Refetch({}) /\ UNCHANGED <<cart, lapsed, fee, cache, queue, adding, taps, wish>>
  BY <1>3 DEF LoseCheckout, EndCheckout, Review
<1>4. CASE Prepare \/ Poll BY <1>4 DEF Prepare, Poll, Show
<1>5. ASSUME NEW o \in Orders, OpenLink(o) \/ Settle(o) \/ ExpireOrder(o) \/ CancelOrder(o) \/ Refund(o)
      PROVE  UNCHANGED <<cart, lapsed, fee, cache, fetch, queue, adding, taps, wish, behind>>
  BY <1>5 DEF OpenLink, Settle, ExpireOrder, CancelOrder, Refund, OrderBecomes
<1> QED BY <1>1, <1>2, <1>3, <1>4, <1>5 DEF PayStep

LEMMA PayingCountsFaults ==
  ASSUME PayStep
  PROVE  faults' = faults \/ Fault
<1> USE DEF cartVars
<1>1. CASE Continue \/ Leave \/ Press \/ PresentSheet \/ EndSheet \/ LeaveConfirmation \/ Kill
  BY <1>1 DEF Continue, Leave, Press, PresentSheet, EndSheet, LeaveConfirmation, Kill
<1>2. ASSUME NEW n \in Screens, ServeCheckout(n) \/ LoseCheckout(n) \/ EndCheckout(n) \/ Review(n)
      PROVE  faults' = faults \/ Fault
  BY <1>2 DEF ServeCheckout, LoseCheckout, EndCheckout, Review
<1>3. CASE Prepare \/ Poll BY <1>3 DEF Prepare, Poll
<1>4. ASSUME NEW o \in Orders, OpenLink(o) \/ Settle(o) \/ ExpireOrder(o) \/ CancelOrder(o) \/ Refund(o)
      PROVE  faults' = faults
  BY <1>4 DEF OpenLink, Settle, ExpireOrder, CancelOrder, Refund, OrderBecomes
<1> QED BY <1>1, <1>2, <1>3, <1>4 DEF PayStep

LEMMA CartIsTyped ==
  ASSUME CartTyped, Next \/ UNCHANGED shopVars
  PROVE  CartTyped'
<1>1. CASE CartStep \/ TapStep BY <1>1, CartTypeStep
<1>2. CASE PayStep
  <2>1. faults' \in 0 .. MaxFaults
    BY <1>2, PayingCountsFaults, CartAssumption DEF Fault, CartTyped
  <2>2. CASE UNCHANGED <<cart, lapsed, fee, cache, fetch, queue, adding, taps, wish, behind>>
    BY <2>1, <2>2 DEF CartTyped
  <2>3. CASE Refetch({}) /\ UNCHANGED <<cart, lapsed, fee, cache, queue, adding, taps, wish>>
    BY <2>1, <2>3, Refetched DEF CartTyped
  <2>4. CASE Close /\ behind' = TRUE /\ UNCHANGED <<fee, cache, fetch, queue, adding, taps>>
    BY <2>1, <2>4, Closed DEF CartTyped
  <2>5. CASE Kill
    <3>1. cache' \in Caches BY <2>5, Blanks DEF Kill, Caches
    <3>2. None \in 0 .. None BY CartAssumption DEF None
    <3>3. wish' \in [Skus -> 0 .. None] BY <2>5, <3>2 DEF Kill
    <3>4. queue' = [s \in Skus |-> NoEntry] BY <2>5 DEF Kill
    <3>5. /\ queue' \in [Skus -> Entries]
          /\ \A s \in Skus : queue'[s].stage = "sent" => queue'[s].asked \in Quantities
      BY <3>4, Blanks
    <3> QED BY <2>1, <2>5, <3>1, <3>3, <3>5, Blanks DEF Kill, CartTyped
  <2> QED BY <1>2, <2>2, <2>3, <2>4, <2>5, PayingAndCart
<1>3. CASE UNCHANGED shopVars BY <1>3 DEF shopVars, cartVars, CartTyped
<1> QED BY <1>1, <1>2, <1>3 DEF Next

LEMMA WishStep ==
  ASSUME CartTyped, WishesAreKept, Next \/ UNCHANGED shopVars
  PROVE  WishesAreKept'
<1>0. None \in Nat /\ None \notin Quantities BY CartAssumption DEF None, Quantities
<1>1. CASE Lapse
  BY <1>1, <1>0, Closed DEF Lapse, WishesAreKept, CartTyped, Entries
<1>2. CASE Sweep
  BY <1>2, <1>0, Closed DEF Sweep, WishesAreKept, CartTyped, Entries
<1>3. CASE ChangeFee
  BY <1>3, <1>0, Closed DEF ChangeFee, WishesAreKept, CartTyped, Entries
<1>4. CASE Load
  BY <1>4, <1>0, Closed DEF Load, Refetch, WishesAreKept, CartTyped, Entries
<1>5. CASE ServeFetch
  BY <1>5, <1>0, Closed DEF ServeFetch, WishesAreKept, CartTyped, Entries
<1>6. CASE LoseFetch
  BY <1>6, <1>0, Closed DEF LoseFetch, WishesAreKept, CartTyped, Entries
<1>7. CASE EndFetch
  BY <1>7, <1>0, Closed DEF EndFetch, WishesAreKept, CartTyped, Entries
<1>8. CASE ServeAdd
  <2> DEFINE s == adding.sku
  <2> DEFINE q == cart[s] + 1
  <2>1. s \in Skus BY DEF CartTyped, Requests
  <2>2. \/ Close
        \/ UNCHANGED <<cart, wish>>
        \/ cart' = [cart EXCEPT ![s] = q] /\ wish' = [wish EXCEPT ![s] = None]
    BY <1>8 DEF ServeAdd, Outcomes
  <2>3. queue' = queue BY <1>8 DEF ServeAdd
  <2> QED BY <2>1, <2>2, <2>3, Closed DEF WishesAreKept, CartTyped, Lines
<1>9. CASE LoseAdd
  BY <1>9, <1>0, Closed DEF LoseAdd, WishesAreKept, CartTyped, Entries
<1>10. CASE EndAdd
  BY <1>10, <1>0, Closed DEF EndAdd, WishesAreKept, CartTyped, Entries
<1>11. ASSUME NEW s \in Skus, ServeChange(s) PROVE WishesAreKept'
  <2> DEFINE q == queue[s].asked
  <2>1. PICK outcome \in Outcomes(q) :
          /\ SetLine(s, q, outcome)
          /\ queue' = [queue EXCEPT ![s].stage = "answered", ![s].answer = AnswerTo(s, q, outcome)]
    BY <1>11 DEF ServeChange
  <2>2. outcome \in {"expired", "refused", "cart"} BY DEF Outcomes
  <2>3. queue[s].stage = "sent" /\ q \in Quantities BY <1>11 DEF ServeChange, CartTyped
  <2>4. AnswerTo(s, q, outcome) \in Answers /\ AnswerTo(s, q, outcome).kind = outcome
    BY <2>2, <2>3, AnswersTyped
  <2>5. /\ \A t \in Skus \ {s} : queue'[t] = queue[t]
        /\ queue'[s].stage = "answered" /\ queue'[s].latest = queue[s].latest
        /\ queue'[s].answer.kind = outcome
    BY <2>1, <2>4 DEF CartTyped, Entries
  <2>6. CASE outcome = "expired" BY <2>1, <2>6, Closed DEF SetLine, WishesAreKept
  <2>7. CASE outcome = "refused" BY ZenonT(40), <2>1, <2>5, <2>7 DEF SetLine, WishesAreKept
  <2>8. CASE outcome = "cart"
    <3>1. cart' = [cart EXCEPT ![s] = q] /\ wish' = wish BY <2>1, <2>8 DEF SetLine
    <3> QED BY <2>3, <2>5, <3>1 DEF WishesAreKept, CartTyped, Lines
  <2> QED BY <2>2, <2>6, <2>7, <2>8
<1>12. ASSUME NEW s \in Skus, LoseChange(s) PROVE WishesAreKept'
  <2>1. /\ queue' = [queue EXCEPT ![s].stage = "answered", ![s].answer = Refused("error")]
        /\ UNCHANGED <<cart, wish>>
    BY <1>12 DEF LoseChange
  <2>2. /\ \A t \in Skus \ {s} : queue'[t] = queue[t]
        /\ queue'[s].stage = "answered" /\ queue'[s].answer.kind = "error"
    BY <2>1, Blanks DEF CartTyped, Entries
  <2> QED BY ZenonT(40), <2>1, <2>2 DEF WishesAreKept
<1>13. ASSUME NEW s \in Skus, AcceptChange(s) PROVE WishesAreKept'
  <2>1. /\ queue[s].stage = "answered" /\ queue[s].answer.kind = "cart"
        /\ UNCHANGED <<cart, wish>>
    BY <1>13 DEF AcceptChange
  <2>2. CASE queue[s].latest = None
    <3>1. queue' = [queue EXCEPT ![s] = NoEntry] BY <1>13, <2>2 DEF AcceptChange, Accepted
    <3> QED BY <2>1, <2>2, <3>1, Blanks DEF WishesAreKept, CartTyped
  <2>3. CASE queue[s].latest # None
    <3> DEFINE e == [NoEntry EXCEPT !.stage = "sent", !.asked = queue[s].latest,
                                    !.confirmed = queue[s].answer]
    <3>1. queue' = [queue EXCEPT ![s] = e] BY <1>13, <2>3 DEF AcceptChange, Accepted
    <3>2. e.stage = "sent" /\ e.asked = queue[s].latest /\ e.latest = None
      BY Blanks DEF Entries
    <3> QED BY <2>1, <2>3, <3>1, <3>2 DEF WishesAreKept, CartTyped
  <2> QED BY <2>2, <2>3
<1>14. ASSUME NEW s \in Skus, FailChange(s) PROVE WishesAreKept'
  BY <1>14, <1>0, Closed DEF FailChange, RolledBack, WishesAreKept, CartTyped, Entries
<1>15. ASSUME NEW s \in Skus, Add(s) PROVE WishesAreKept'
  BY <1>15, <1>0, Closed DEF Add, WishesAreKept, CartTyped, Entries
<1>16. ASSUME NEW s \in Skus, NEW q \in Quantities, Change(s, q) PROVE WishesAreKept'
  <2>1. /\ cart' = cart /\ wish' = [wish EXCEPT ![s] = q] BY <1>16 DEF Change
  <2>2. CASE Busy(s)
    <3>1. queue' = [queue EXCEPT ![s].latest = q] BY <1>16, <2>2 DEF Change
    <3>2. /\ \A t \in Skus \ {s} : queue'[t] = queue[t]
          /\ queue'[s].stage = queue[s].stage /\ queue'[s].latest = q
      BY <3>1 DEF CartTyped, Entries
    <3> QED BY <1>0, <2>1, <2>2, <3>2 DEF WishesAreKept, CartTyped, Busy
  <2>3. CASE ~Busy(s)
    <3> DEFINE e == [NoEntry EXCEPT !.stage = "sent", !.asked = q, !.confirmed = cache.data]
    <3>1. queue' = [queue EXCEPT ![s] = e] BY <1>16, <2>3 DEF Change
    <3>2. e.stage = "sent" /\ e.asked = q /\ e.latest = None BY Blanks DEF Entries
    <3> QED BY <2>1, <3>1, <3>2 DEF WishesAreKept, CartTyped
  <2> QED BY <2>2, <2>3
<1>17. CASE PayStep
  <2>1. CASE \/ UNCHANGED <<cart, lapsed, fee, cache, fetch, queue, adding, taps, wish, behind>>
             \/ Refetch({}) /\ UNCHANGED <<cart, lapsed, fee, cache, queue, adding, taps, wish>>
    BY <2>1 DEF WishesAreKept
  <2>2. CASE Close BY <2>2, Closed DEF WishesAreKept
  <2>3. CASE Kill BY <2>3 DEF Kill, WishesAreKept
  <2> QED BY <1>17, <2>1, <2>2, <2>3, PayingAndCart
<1>18. CASE UNCHANGED shopVars BY <1>18 DEF shopVars, cartVars, WishesAreKept
<1> QED
  BY <1>1, <1>2, <1>3, <1>4, <1>5, <1>6, <1>7, <1>8, <1>9, <1>10, <1>11, <1>12, <1>13, <1>14,
     <1>15, <1>16, <1>17, <1>18 DEF Next, CartStep, TapStep

LEMMA NothingUnderWay ==
  ASSUME UnderWay = {}
  PROVE  fetch.stage = "idle" /\ adding.stage = "idle" /\ \A s \in Skus : ~Sending(s)
BY DEF UnderWay, Sending

\* A load is asked for in order when nothing but it, and what has ended, is under way.
LEMMA AloneAgain ==
  ASSUME NEW over, Refetch(over), ~behind'
  PROVE  /\ <<"add", 0>> \notin over => adding.stage = "idle"
         /\ \A s \in Skus : <<"change", s>> \notin over => ~Sending(s)
<1>1. UnderWay \subseteq {<<"fetch", 0>>} \union over BY DEF Refetch
<1>2. <<"add", 0>> \in UnderWay \/ adding.stage = "idle" BY DEF UnderWay
<1>3. \A s \in Skus : Sending(s) => <<"change", s>> \in UnderWay BY DEF UnderWay, Sending
<1>4. <<"add", 0>> # <<"fetch", 0>> /\ \A s \in Skus : <<"change", s>> # <<"fetch", 0>> OBVIOUS
<1> QED BY <1>1, <1>2, <1>3, <1>4

LEMMA RefetchedAlone ==
  ASSUME Refetch({})
  PROVE  /\ fetch'.stage = "sent"
         /\ ~behind' => adding.stage = "idle" /\ \A s \in Skus : ~Sending(s)
<1> DEFINE over == {}
<1>1. Refetch(over) OBVIOUS
<1>2. <<"add", 0>> \notin over /\ \A s \in Skus : <<"change", s>> \notin over OBVIOUS
<1> HIDE DEF over
<1> QED BY <1>1, <1>2, Refetched, AloneAgain

LEMMA AnswerStep ==
  ASSUME CartTyped, AnswersAreCurrent, Next \/ UNCHANGED shopVars
  PROVE  AnswersAreCurrent'
<1>1. CASE Lapse
  BY <1>1 DEF Lapse, AnswersAreCurrent, Sending
<1>2. CASE Sweep
  BY <1>2 DEF Sweep, AnswersAreCurrent, Sending
<1>3. CASE ChangeFee
  BY <1>3 DEF ChangeFee, AnswersAreCurrent, Sending
<1>4. CASE Load
  <2>1. Refetch({}) /\ UNCHANGED <<cart, cache, queue, adding>> BY <1>4 DEF Load
  <2>2. /\ fetch'.stage = "sent"
        /\ ~behind' => adding.stage = "idle" /\ \A s \in Skus : ~Sending(s)
    BY <2>1, RefetchedAlone
  <2> QED BY <2>1, <2>2 DEF AnswersAreCurrent, Sending
<1>5. CASE ServeFetch
  <2>1. PICK a \in Answers : /\ fetch' = [Quiet EXCEPT !.stage = "answered", !.answer = a]
                             /\ a.kind = "cart" => cart' = cart /\ a.lines = cart
    BY <1>5, Blanks, Views DEF ServeFetch, CartTyped
  <2>2. fetch'.stage = "answered" /\ fetch'.answer = a BY <2>1, Blanks DEF Requests
  <2>3. fetch.stage # "idle" /\ UNCHANGED <<cache, queue, adding, behind>>
    BY <1>5 DEF ServeFetch
  <2> QED BY <2>1, <2>2, <2>3 DEF AnswersAreCurrent, Sending
<1>6. CASE LoseFetch
  <2>1. fetch'.stage = "answered" /\ fetch'.answer.kind = "error"
    BY <1>6, Blanks DEF LoseFetch, Requests
  <2>2. fetch.stage # "idle" /\ UNCHANGED <<cart, cache, queue, adding, behind>>
    BY <1>6 DEF LoseFetch
  <2> QED BY <2>1, <2>2 DEF AnswersAreCurrent, Sending
<1>7. CASE EndFetch
  <2>1. /\ fetch.stage = "answered" /\ fetch' = Quiet
        /\ queue' = [s \in Skus |-> IF queue[s].stage = "reloading" THEN NoEntry ELSE queue[s]]
        /\ UNCHANGED <<cart, adding, behind>>
    BY <1>7 DEF EndFetch
  <2>2. \A s \in Skus : queue'[s].stage # "reloading" /\ (Sending(s)' => Sending(s))
    BY <2>1, Blanks DEF Sending
  <2>3. cache'.load = "ok" => fetch.answer.kind = "cart" /\ cache'.data = fetch.answer
    BY <1>7, <2>1 DEF EndFetch, Loaded, CartTyped, Caches
  <2> QED BY <2>1, <2>2, <2>3, Blanks DEF AnswersAreCurrent
<1>8. CASE ServeAdd
  <2> DEFINE s == adding.sku
  <2> DEFINE q == cart[s] + 1
  <2>1. s \in Skus BY DEF CartTyped, Requests
  <2>2. PICK outcome \in Outcomes(q) :
          /\ adding' = [adding EXCEPT !.stage = "answered", !.answer = AnswerTo(s, q, outcome)]
          /\ outcome = "refused" => UNCHANGED cart
          /\ outcome = "cart" => cart' = [cart EXCEPT ![s] = q]
    BY <1>8 DEF ServeAdd
  <2>3. outcome \in {"expired", "refused", "cart"} BY DEF Outcomes
  <2>4. [cart EXCEPT ![s] = q] \in Lines => AnswerTo(s, q, "cart").lines = [cart EXCEPT ![s] = q] /\ AnswerTo(s, q, "cart").kind = "cart"
    BY Views DEF AnswerTo
  <2>5. outcome = "cart" => [cart EXCEPT ![s] = q] \in Lines
    <3>1. outcome = "cart" => cart[s] < MaxQty BY <1>8 DEF ServeAdd, Outcomes
    <3> QED BY <2>1, <3>1, CartAssumption DEF CartTyped, Lines, Quantities
  <2>6. /\ adding'.stage = "answered" /\ adding'.answer = AnswerTo(s, q, outcome)
    BY <2>2 DEF CartTyped, Requests
  <2>7. AnswerTo(s, q, outcome).kind = outcome BY <2>3, <2>4, <2>5, Blanks DEF AnswerTo
  <2>8. adding.stage = "sent" /\ UNCHANGED <<cache, fetch, queue, behind>> BY <1>8 DEF ServeAdd
  <2> QED BY <2>2, <2>3, <2>4, <2>5, <2>6, <2>7, <2>8 DEF AnswersAreCurrent, Sending
<1>9. CASE LoseAdd
  <2>1. adding'.stage = "answered" /\ adding'.answer.kind = "error"
    BY <1>9, Blanks DEF LoseAdd, CartTyped, Requests
  <2>2. adding.stage # "idle" /\ UNCHANGED <<cart, cache, queue, fetch, behind>>
    BY <1>9 DEF LoseAdd
  <2> QED BY <2>1, <2>2 DEF AnswersAreCurrent, Sending
<1>10. CASE EndAdd
  <2>1. /\ adding.stage = "answered" /\ adding' = Quiet
        /\ cache' = Stored(adding.answer)
        /\ UNCHANGED <<cart, fetch, queue>>
    BY <1>10 DEF EndAdd
  <2>2. ~behind' => ~behind /\ adding.answer.kind \notin {"expired", "error"}
    BY <1>10 DEF EndAdd
  <2>3. adding.answer.kind = "cart" => cache'.data = adding.answer BY <2>1 DEF Stored
  <2>4. adding.answer.kind # "cart" => cache' = cache BY <2>1 DEF Stored
  <2>5. ~behind' => adding.answer.kind \in {"cart", "refused"} BY <2>1, <2>2 DEF CartTyped
  <2> QED BY <2>1, <2>2, <2>3, <2>4, <2>5, Blanks DEF AnswersAreCurrent, Sending
<1>11. ASSUME NEW s \in Skus, ServeChange(s) PROVE AnswersAreCurrent'
  <2> DEFINE q == queue[s].asked
  <2>1. PICK outcome \in Outcomes(q) :
          /\ SetLine(s, q, outcome)
          /\ queue' = [queue EXCEPT ![s].stage = "answered", ![s].answer = AnswerTo(s, q, outcome)]
    BY <1>11 DEF ServeChange
  <2>2. outcome \in {"expired", "refused", "cart"} BY DEF Outcomes
  <2>3. queue[s].stage = "sent" /\ q \in Quantities BY <1>11 DEF ServeChange, CartTyped
  <2>4. /\ AnswerTo(s, q, outcome).kind = outcome
        /\ outcome = "cart" => AnswerTo(s, q, outcome).lines = [cart EXCEPT ![s] = q]
    BY <2>2, <2>3, AnswersTyped
  <2>5. /\ \A t \in Skus \ {s} : queue'[t] = queue[t]
        /\ queue'[s].stage = "answered" /\ queue'[s].answer = AnswerTo(s, q, outcome)
    BY <2>1 DEF CartTyped, Entries
  <2>6. outcome = "cart" => cart' = [cart EXCEPT ![s] = q] BY <2>1 DEF SetLine
  <2>7. UNCHANGED <<cache, fetch, adding, behind>> BY <1>11 DEF ServeChange
  <2>8. \A t \in Skus : Sending(t)' <=> Sending(t) BY <2>3, <2>5 DEF Sending
  <2> QED BY <2>3, <2>4, <2>5, <2>6, <2>7, <2>8 DEF AnswersAreCurrent, Sending
<1>12. ASSUME NEW s \in Skus, LoseChange(s) PROVE AnswersAreCurrent'
  <2>1. /\ queue' = [queue EXCEPT ![s].stage = "answered", ![s].answer = Refused("error")]
        /\ Sending(s) /\ UNCHANGED <<cart, cache, fetch, adding, behind>>
    BY <1>12 DEF LoseChange, Sending
  <2>2. /\ \A t \in Skus \ {s} : queue'[t] = queue[t]
        /\ queue'[s].stage = "answered" /\ queue'[s].answer.kind = "error"
    BY <2>1, Blanks DEF CartTyped, Entries
  <2>3. \A t \in Skus : Sending(t)' <=> Sending(t) BY <2>1, <2>2 DEF Sending
  <2> QED BY <2>1, <2>2, <2>3 DEF AnswersAreCurrent, Sending
<1>13. ASSUME NEW s \in Skus, AcceptChange(s) PROVE AnswersAreCurrent'
  <2>1. /\ queue[s].stage = "answered" /\ queue[s].answer.kind = "cart"
        /\ UNCHANGED <<cart, fetch, adding, behind>>
    BY <1>13 DEF AcceptChange
  <2>2. CASE queue[s].latest = None
    <3>1. queue' = [queue EXCEPT ![s] = NoEntry] /\ cache' = Stored(queue[s].answer)
      BY <1>13, <2>2 DEF AcceptChange, Accepted
    <3>2. cache'.data = queue[s].answer BY <2>1, <3>1 DEF Stored
    <3>3. /\ \A t \in Skus \ {s} : queue'[t] = queue[t]
          /\ queue'[s].stage = "idle"
      BY <3>1, Blanks DEF CartTyped
    <3> QED BY <2>1, <3>2, <3>3 DEF AnswersAreCurrent, Sending
  <2>3. CASE queue[s].latest # None
    <3> DEFINE e == [NoEntry EXCEPT !.stage = "sent", !.asked = queue[s].latest,
                                    !.confirmed = queue[s].answer]
    <3>1. queue' = [queue EXCEPT ![s] = e] BY <1>13, <2>3 DEF AcceptChange, Accepted
    <3>2. e.stage = "sent" BY Blanks DEF Entries
    <3>3. /\ \A t \in Skus \ {s} : queue'[t] = queue[t]
          /\ queue'[s].stage = "sent"
      BY <3>1, <3>2 DEF CartTyped
    <3>4. \A t \in Skus : Sending(t)' <=> Sending(t) BY <2>1, <3>3 DEF Sending
    <3> QED BY <2>1, <3>3, <3>4 DEF AnswersAreCurrent, Sending
  <2> QED BY <2>2, <2>3
<1>14. ASSUME NEW s \in Skus, FailChange(s) PROVE AnswersAreCurrent'
  <2>1. Refetch({<<"change", s>>}) /\ UNCHANGED <<cart, adding>>
    BY <1>14 DEF FailChange, RolledBack
  <2>2. queue' = [queue EXCEPT ![s] = [NoEntry EXCEPT !.stage = "reloading"]]
    BY <1>14 DEF FailChange, RolledBack
  <2>3. /\ \A t \in Skus \ {s} : queue'[t] = queue[t]
        /\ queue'[s].stage = "reloading"
    BY <2>2, Blanks DEF CartTyped, Entries
  <2>4. \A t \in Skus \ {s} : <<"change", t>> # <<"change", s>> OBVIOUS
  <2>5. <<"add", 0>> # <<"change", s>> OBVIOUS
  <2>6. ~behind' => adding.stage = "idle" /\ \A t \in Skus : ~Sending(t)'
    BY ZenonT(40), <2>1, <2>3, <2>4, <2>5, AloneAgain DEF Sending
  <2> QED BY <2>1, <2>3, <2>6, Refetched DEF AnswersAreCurrent, Sending
<1>15. ASSUME NEW s \in Skus, Add(s) PROVE AnswersAreCurrent'
  <2>1. /\ adding' = [Quiet EXCEPT !.stage = "sent", !.sku = s]
        /\ UNCHANGED <<cart, cache, fetch, queue>>
    BY <1>15 DEF Add
  <2>2. adding.stage = "idle" /\ adding'.stage = "sent" BY <1>15, <2>1, Blanks DEF Add, Requests
  <2>3. ~behind' => ~behind /\ UnderWay = {} BY <1>15 DEF Add, Joining
  <2> QED BY <2>1, <2>2, <2>3, NothingUnderWay DEF AnswersAreCurrent, Sending
<1>16. ASSUME NEW s \in Skus, NEW q \in Quantities, Change(s, q) PROVE AnswersAreCurrent'
  <2>1. UNCHANGED <<cart, fetch, adding>> BY <1>16 DEF Change
  <2>2. CASE Busy(s)
    <3>1. queue' = [queue EXCEPT ![s].latest = q] /\ behind' = behind BY <1>16, <2>2 DEF Change
    <3>2. \A t \in Skus : queue'[t].stage = queue[t].stage /\ queue'[t].answer = queue[t].answer
      BY <3>1 DEF CartTyped, Entries
    <3>3. Sending(s) \/ queue[s].stage = "reloading"
      BY <2>2 DEF Busy, Sending, CartTyped, Entries
    <3>4. ~(fetch.stage = "idle" /\ \A t \in Skus : ~Sending(t))
      BY <3>3 DEF AnswersAreCurrent
    <3> QED BY <2>1, <3>1, <3>2, <3>4 DEF AnswersAreCurrent, Sending
  <2>3. CASE ~Busy(s)
    <3> DEFINE e == [NoEntry EXCEPT !.stage = "sent", !.asked = q, !.confirmed = cache.data]
    <3>1. queue' = [queue EXCEPT ![s] = e] BY <1>16, <2>3 DEF Change
    <3>2. e.stage = "sent" BY Blanks DEF Entries
    <3>3. /\ \A t \in Skus \ {s} : queue'[t] = queue[t]
          /\ queue'[s].stage = "sent"
      BY <3>1, <3>2 DEF CartTyped
    <3>4. ~behind' => UnderWay = {} BY <1>16, <2>3 DEF Change, Joining
    <3> QED BY <2>1, <3>3, <3>4, NothingUnderWay DEF AnswersAreCurrent, Sending
  <2> QED BY <2>2, <2>3
<1>17. CASE PayStep
  <2>1. CASE UNCHANGED <<cart, lapsed, fee, cache, fetch, queue, adding, taps, wish, behind>>
    BY <2>1 DEF AnswersAreCurrent, Sending
  <2>2. CASE Refetch({}) /\ UNCHANGED <<cart, lapsed, fee, cache, queue, adding, taps, wish>>
    <3>1. /\ fetch'.stage = "sent"
          /\ ~behind' => adding.stage = "idle" /\ \A s \in Skus : ~Sending(s)
      BY <2>2, RefetchedAlone
    <3> QED BY <2>2, <3>1 DEF AnswersAreCurrent, Sending
  <2>3. CASE Close /\ behind' = TRUE /\ UNCHANGED <<fee, cache, fetch, queue, adding, taps>>
    BY <2>3 DEF AnswersAreCurrent
  <2>4. CASE Kill
    <3>1. /\ fetch' = Quiet /\ adding' = Quiet /\ queue' = [s \in Skus |-> NoEntry]
          /\ cache'.load = "pending"
      BY <2>4 DEF Kill
    <3> QED BY <3>1, Blanks DEF AnswersAreCurrent, Sending
  <2> QED BY <1>17, <2>1, <2>2, <2>3, <2>4, PayingAndCart
<1>18. CASE UNCHANGED shopVars
  BY <1>18 DEF shopVars, cartVars, AnswersAreCurrent, Sending
<1> QED
  BY <1>1, <1>2, <1>3, <1>4, <1>5, <1>6, <1>7, <1>8, <1>9, <1>10, <1>11, <1>12, <1>13, <1>14,
     <1>15, <1>16, <1>17, <1>18 DEF Next, CartStep, TapStep

-----------------------------------------------------------------------------
(***************************************************************************)
(* Paying                                                                  *)
(***************************************************************************)

PaymentScreens ==
  [review: Nat, attempt: 0 .. NoFee, stage: {"idle", "sent", "answered", "refetching"},
   answer: States \union {"none", "fee", "refused", "error"}]
OrderRows ==
  [screen: 0 .. MaxScreens, review: Nat, fee: 0 .. MaxFee,
   state: States \union {"none"}, charged: BOOLEAN]
Confirmations ==
  [order: 0 .. MaxOrders, prepared: {"none", "loading", "ready", "failed"},
   status: {"idle", "submitting", "processing", "declined", "unknown"},
   shown: States \union {"none"}]

PayTyped ==
  /\ screens \in [Screens -> PaymentScreens]
  /\ {opened, current, ended} \subseteq 0 .. MaxScreens /\ current <= opened /\ ended <= opened
  /\ orders \in [Orders -> OrderRows]
  /\ conf \in Confirmations
  /\ conf.order = 0 => conf = NoConfirmation

LEMMA ShopTypes == CartTyped /\ PayTyped => TypeOK
BY CartTypes DEF PayTyped, TypeOK, PaymentScreens, OrderRows, Confirmations

\* A screen has an answer only while it has to be told.
AnswersAreTold ==
  \A n \in Screens : screens[n].stage # "answered" => screens[n].answer = "none"

\* The order of a screen has its key, so that the next press finds it, and no
\* answer on its way is from before it.
OrderHasKey ==
  \A o \in Orders : Made(o) =>
    LET n == orders[o].screen IN
    /\ n \in Screens /\ orders[o].review = screens[n].review
    /\ screens[n].answer \notin {"fee", "refused"}
    /\ screens[n].answer = "paid" => orders[o].state \in {"paid", "refunded"}

OrderIsAlone ==
  \A o, p \in Orders : Made(o) /\ Made(p) /\ orders[o].screen = orders[p].screen => o = p

ShownIsPaid ==
  conf.order # 0 /\ conf.shown = "paid" => orders[conf.order].state \in {"paid", "refunded"}

PayInvariant == PayTyped /\ AnswersAreTold /\ OrderHasKey /\ OrderIsAlone /\ ShownIsPaid

LEMMA PayBounds ==
  /\ MaxScreens \in Nat /\ MaxOrders \in Nat /\ MaxFee \in Nat /\ NoFee \in 0 .. NoFee
  /\ 0 .. MaxFee \subseteq 0 .. NoFee /\ NoFee = MaxFee + 1
  /\ NewScreen \in PaymentScreens /\ NoOrder \in OrderRows /\ NoConfirmation \in Confirmations
  /\ NoConfirmation.order = 0 /\ NoConfirmation.shown = "none"
<1>1. /\ MaxScreens \in Nat /\ MaxOrders \in Nat /\ MaxFee \in Nat /\ NoFee \in 0 .. NoFee
      /\ 0 .. MaxFee \subseteq 0 .. NoFee /\ NoFee = MaxFee + 1
  BY ShopAssumption, CartAssumption DEF NoFee
<1>2. NewScreen \in PaymentScreens BY <1>1 DEF NewScreen, PaymentScreens
<1>3. NoOrder \in OrderRows BY <1>1 DEF NoOrder, OrderRows
<1>4. NoConfirmation \in Confirmations BY <1>1 DEF NoConfirmation, Confirmations
<1> QED BY <1>1, <1>2, <1>3, <1>4 DEF NoConfirmation

\* What a step leaves of the rest, when it touches one screen, one order or the
\* confirmation.
LEMMA ScreenChanges ==
  ASSUME PayInvariant, NEW n \in Screens, NEW e \in PaymentScreens,
         screens' = [screens EXCEPT ![n] = e],
         UNCHANGED <<opened, current, ended, orders, conf>>,
         e.stage # "answered" => e.answer = "none",
         \A o \in Orders : Made(o) /\ orders[o].screen = n =>
           /\ e.review = screens[n].review /\ e.answer \notin {"fee", "refused"}
           /\ e.answer = "paid" => orders[o].state \in {"paid", "refunded"}
  PROVE  PayInvariant'
<1>1. PayTyped' BY DEF PayInvariant, PayTyped
<1>2. \A m \in Screens : screens'[m] = IF m = n THEN e ELSE screens[m]
  BY DEF PayInvariant, PayTyped
<1>3. AnswersAreTold' BY <1>2 DEF PayInvariant, AnswersAreTold
<1>4. OrderHasKey' BY <1>2 DEF PayInvariant, OrderHasKey, Made
<1>5. OrderIsAlone' /\ ShownIsPaid' BY DEF PayInvariant, OrderIsAlone, ShownIsPaid, Made
<1> QED BY <1>1, <1>3, <1>4, <1>5 DEF PayInvariant

LEMMA ConfirmationChanges ==
  ASSUME PayInvariant, conf' \in Confirmations, conf'.order = 0 => conf' = NoConfirmation,
         UNCHANGED <<screens, opened, ended, orders>>,
         current' \in {0, current},
         conf'.order # 0 /\ conf'.shown = "paid" => orders[conf'.order].state \in {"paid", "refunded"}
  PROVE  PayInvariant'
<1>1. current' \in 0 .. MaxScreens /\ current' <= opened BY PayBounds DEF PayInvariant, PayTyped
<1> QED
  BY <1>1 DEF PayInvariant, PayTyped, AnswersAreTold, OrderHasKey, OrderIsAlone, ShownIsPaid,
     Made

LEMMA OrderChanges ==
  ASSUME PayInvariant, NEW o \in Orders, NEW e \in OrderRows, Made(o),
         orders' = [orders EXCEPT ![o] = e],
         e.screen = orders[o].screen, e.review = orders[o].review, e.state # "none",
         orders[o].state \in {"paid", "refunded"} => e.state \in {"paid", "refunded"},
         UNCHANGED <<screens, opened, current, ended, conf>>
  PROVE  PayInvariant'
<1>1. PayTyped' BY DEF PayInvariant, PayTyped
<1>2. \A p \in Orders : /\ Made(p)' <=> Made(p)
                        /\ orders'[p].screen = orders[p].screen /\ orders'[p].review = orders[p].review
                        /\ orders[p].state \in {"paid", "refunded"} => orders'[p].state \in {"paid", "refunded"}
  BY DEF PayInvariant, PayTyped, Made
<1>3. AnswersAreTold' BY DEF PayInvariant, AnswersAreTold
<1>4. OrderHasKey' BY <1>2 DEF PayInvariant, OrderHasKey
<1>5. OrderIsAlone' BY <1>2 DEF PayInvariant, OrderIsAlone
<1>6. conf.order # 0 => conf.order \in Orders
  BY DEF PayInvariant, PayTyped, Confirmations, Orders
<1>7. ShownIsPaid' BY <1>2, <1>6 DEF PayInvariant, ShownIsPaid
<1> QED BY <1>1, <1>3, <1>4, <1>5, <1>7 DEF PayInvariant

LEMMA PayStepKeeps ==
  ASSUME CartTyped, PayInvariant, PayStep
  PROVE  PayInvariant'
<1> USE PayBounds
<1>0. PayTyped BY DEF PayInvariant
<1>1. CASE Continue
  <2>1. UNCHANGED <<screens, ended, orders, conf>> /\ opened' = opened + 1 /\ current' = opened'
        /\ opened < MaxScreens
    BY <1>1 DEF Continue
  <2>2. PayTyped' BY <1>0, <2>1 DEF PayTyped
  <2> QED
    BY <2>1, <2>2 DEF PayInvariant, AnswersAreTold, OrderHasKey, OrderIsAlone, ShownIsPaid,
       Made
<1>2. CASE Leave
  <2>1. UNCHANGED <<screens, opened, ended, orders, conf>> /\ current' = 0 BY <1>2 DEF Leave
  <2> QED BY <1>0, <2>1, ConfirmationChanges DEF PayTyped, PayInvariant, ShownIsPaid
<1>3. CASE Press
  <2> DEFINE n == current
  <2>1. n \in Screens BY <1>0, <1>3 DEF Press, PayTyped, Screens
  <2> DEFINE e == [screens[n] EXCEPT !.attempt = IF @ = NoFee THEN cache.data.fee ELSE @, !.stage = "sent"]
  <2>2. screens[n] \in PaymentScreens BY <1>0, <2>1 DEF PayTyped
  <2>3. cache.data.fee \in 0 .. NoFee BY DEF CartTyped, Caches, Answers
  <2>4. e \in PaymentScreens BY <2>2, <2>3 DEF PaymentScreens
  <2>5. e.stage = "sent" /\ e.review = screens[n].review /\ e.answer = screens[n].answer
    BY <2>2 DEF PaymentScreens
  <2>6. screens[n].answer = "none" BY <1>3, <2>1 DEF Press, PayInvariant, AnswersAreTold
  <2>7. screens' = [screens EXCEPT ![n] = e] BY <1>3 DEF Press, Attempt
  <2>8. UNCHANGED <<opened, current, ended, orders, conf>> BY <1>3 DEF Press
  <2>9. e.review = screens[n].review /\ e.answer = "none" /\ e.stage # "answered" BY <2>5, <2>6
  <2> HIDE DEF n, e
  <2>10. \A o \in Orders : Made(o) /\ orders[o].screen = n =>
          /\ e.review = screens[n].review /\ e.answer \notin {"fee", "refused"}
          /\ e.answer = "paid" => orders[o].state \in {"paid", "refunded"}
    BY <2>9
  <2> QED BY <2>1, <2>4, <2>7, <2>8, <2>9, <2>10, ScreenChanges
<1>4. ASSUME NEW n \in Screens, ServeCheckout(n) PROVE PayInvariant'
  <2>1. screens[n] \in PaymentScreens BY <1>0 DEF PayTyped
  <2> DEFINE e(reply) == [screens[n] EXCEPT !.stage = "answered", !.answer = reply]
  <2>2. \A reply \in States \union {"fee", "refused"} :
          /\ e(reply) \in PaymentScreens /\ e(reply).stage = "answered"
          /\ e(reply).answer = reply /\ e(reply).review = screens[n].review
    BY <2>1 DEF PaymentScreens
  <2>3. ASSUME NEW o \in Orders, Made(o), orders[o].screen = n PROVE o \in Replayed(n)
    BY <2>3 DEF PayInvariant, OrderHasKey, Replayed, KeyOf
  <2>4. UNCHANGED <<opened, current, ended, conf>> BY <1>4 DEF ServeCheckout
  <2>5. ASSUME NEW o \in Replayed(n), screens' = [screens EXCEPT ![n] = e(orders[o].state)],
               orders' = orders
        PROVE PayInvariant'
    <3>1. o \in Orders /\ Made(o) /\ orders[o].screen = n BY DEF Replayed, KeyOf
    <3>2. orders[o].state \in States BY <1>0, <3>1 DEF PayTyped, OrderRows, Made
    <3>3. \A p \in Orders : Made(p) /\ orders[p].screen = n => p = o
      BY <3>1 DEF PayInvariant, OrderIsAlone
    <3>4. orders[o].state \notin {"fee", "refused"} BY <3>2 DEF States
    <3> DEFINE r == e(orders[o].state)
    <3>5. /\ r \in PaymentScreens /\ r.stage = "answered" /\ r.review = screens[n].review
          /\ r.answer = orders[o].state
      BY <2>2, <3>2
    <3>6. screens' = [screens EXCEPT ![n] = r] BY <2>5
    <3> HIDE DEF r
    <3>7. \A p \in Orders : Made(p) /\ orders[p].screen = n =>
            /\ r.review = screens[n].review /\ r.answer \notin {"fee", "refused"}
            /\ r.answer = "paid" => orders[p].state \in {"paid", "refunded"}
      BY <3>3, <3>4, <3>5
    <3>8. UNCHANGED <<opened, current, ended, orders, conf>> BY <2>4, <2>5
    <3>9. r.stage # "answered" => r.answer = "none" BY <3>5
    <3> QED BY <3>5, <3>6, <3>7, <3>8, <3>9, ScreenChanges
  <2>6. ASSUME Replayed(n) = {}, NEW reply \in {"fee", "refused"},
               screens' = [screens EXCEPT ![n] = e(reply)], orders' = orders
        PROVE PayInvariant'
    <3>1. \A o \in Orders : ~(Made(o) /\ orders[o].screen = n) BY <2>3, <2>6
    <3> DEFINE r == e(reply)
    <3>2. r \in PaymentScreens /\ r.stage = "answered" BY <2>2
    <3>3. screens' = [screens EXCEPT ![n] = r] BY <2>6
    <3> HIDE DEF r
    <3>4. UNCHANGED <<opened, current, ended, orders, conf>> BY <2>4, <2>6
    <3>5. r.stage # "answered" => r.answer = "none" BY <3>2
    <3> QED BY <3>1, <3>2, <3>3, <3>4, <3>5, ScreenChanges
  <2>7. ASSUME Replayed(n) = {}, NEW o \in Orders, ~Made(o),
               orders' = [orders EXCEPT ![o] =
                  [screen |-> n, review |-> screens[n].review, fee |-> fee,
                   state |-> "pending_payment", charged |-> FALSE]],
               screens' = [screens EXCEPT ![n] = e("pending_payment")]
        PROVE PayInvariant'
    <3> DEFINE row == [screen |-> n, review |-> screens[n].review, fee |-> fee,
                       state |-> "pending_payment", charged |-> FALSE]
    <3>1. \A p \in Orders : ~(Made(p) /\ orders[p].screen = n) BY <2>3, <2>7
    <3>2. row \in OrderRows
      BY <2>1 DEF OrderRows, PaymentScreens, CartTyped, Screens, States
    <3>3. \A p \in Orders : orders'[p] = IF p = o THEN row ELSE orders[p]
      BY <1>0, <2>7 DEF PayTyped
    <3>4. e("pending_payment") \in PaymentScreens /\ e("pending_payment").stage = "answered"
          /\ e("pending_payment").answer = "pending_payment"
          /\ e("pending_payment").review = screens[n].review
      BY <2>2 DEF States
    <3> HIDE DEF e
    <3>5. \A m \in Screens : screens'[m] = IF m = n THEN e("pending_payment") ELSE screens[m]
      BY <1>0, <2>7 DEF PayTyped
    <3>6. PayTyped'
      <4>1. orders' \in [Orders -> OrderRows] BY <1>0, <2>7, <3>2 DEF PayTyped
      <4>2. screens' \in [Screens -> PaymentScreens] BY <1>0, <2>7, <3>4 DEF PayTyped
      <4> QED BY <1>0, <2>4, <4>1, <4>2 DEF PayTyped
    <3>7. AnswersAreTold' BY <3>4, <3>5 DEF PayInvariant, AnswersAreTold
    <3>8. \A p \in Orders : Made(p)' => p = o \/ Made(p) BY <3>3 DEF Made
    <3>9. OrderHasKey'
      <4> SUFFICES ASSUME NEW p \in Orders, Made(p)'
                   PROVE  LET m == orders'[p].screen IN
                          /\ m \in Screens /\ orders'[p].review = screens'[m].review
                          /\ screens'[m].answer \notin {"fee", "refused"}
                          /\ screens'[m].answer = "paid" => orders'[p].state \in {"paid", "refunded"}
        BY DEF OrderHasKey
      <4>1. CASE p = o BY <3>3, <3>4, <3>5, <4>1
      <4>2. CASE p # o
        <5>1. orders'[p] = orders[p] /\ Made(p) BY <3>3, <3>8, <4>2
        <5>2. orders[p].screen \in Screens /\ orders[p].screen # n
          BY <3>1, <5>1 DEF PayInvariant, OrderHasKey
        <5>3. screens'[orders[p].screen] = screens[orders[p].screen] BY <3>5, <5>2
        <5> QED BY <5>1, <5>2, <5>3 DEF PayInvariant, OrderHasKey
      <4> QED BY <4>1, <4>2
    <3>10. OrderIsAlone'
      BY <3>1, <3>3, <3>8 DEF PayInvariant, OrderIsAlone
    <3>11. ShownIsPaid'
      <4>1. conf.order # 0 => conf.order \in Orders BY <1>0 DEF PayTyped, Confirmations, Orders
      <4>2. conf.order = o => ~(conf.shown = "paid") \/ o = 0
        BY <2>7, <4>1 DEF PayInvariant, ShownIsPaid, Made
      <4>3. 0 \notin Orders BY DEF Orders
      <4> QED BY <2>4, <3>3, <4>1, <4>2, <4>3 DEF PayInvariant, ShownIsPaid
    <3> QED BY <3>6, <3>7, <3>9, <3>10, <3>11 DEF PayInvariant
  <2> QED BY ZenonT(40), <1>4, <2>5, <2>6, <2>7 DEF ServeCheckout
<1>5. ASSUME NEW n \in Screens, LoseCheckout(n) PROVE PayInvariant'
  <2>1. screens[n] \in PaymentScreens BY <1>0 DEF PayTyped
  <2> DEFINE e == [screens[n] EXCEPT !.stage = "answered", !.answer = "error"]
  <2>2. e \in PaymentScreens /\ e.stage = "answered" /\ e.answer = "error" /\ e.review = screens[n].review
    BY <2>1 DEF PaymentScreens
  <2>3. screens' = [screens EXCEPT ![n] = e] /\ UNCHANGED <<opened, current, ended, orders, conf>>
    BY <1>5 DEF LoseCheckout
  <2> HIDE DEF e
  <2> QED BY <2>2, <2>3, ScreenChanges
<1>6. ASSUME NEW n \in Screens, EndCheckout(n) PROVE PayInvariant'
  <2>1. screens[n] \in PaymentScreens BY <1>0 DEF PayTyped
  <2> DEFINE idle == [screens[n] EXCEPT !.stage = "idle", !.answer = "none"]
  <2> DEFINE anew == [NewScreen EXCEPT !.review = screens[n].review + 1, !.stage = "refetching"]
  <2>2. /\ idle \in PaymentScreens /\ idle.stage = "idle" /\ idle.answer = "none"
        /\ idle.review = screens[n].review
    BY <2>1 DEF PaymentScreens
  <2>3. anew \in PaymentScreens /\ anew.stage = "refetching" /\ anew.answer = "none"
    <3>1. screens[n].review + 1 \in Nat BY <2>1 DEF PaymentScreens
    <3>2. NewScreen \in PaymentScreens /\ NewScreen.answer = "none" BY DEF NewScreen
    <3> QED BY <3>1, <3>2 DEF PaymentScreens
  <2>4. UNCHANGED <<opened, current, ended, orders>> BY <1>6 DEF EndCheckout
  <2>5. ASSUME screens[n].answer \in States, NEW o \in Replayed(n),
               conf' = [order |-> o, prepared |-> "ready", status |-> "idle", shown |-> screens[n].answer],
               screens' = [screens EXCEPT ![n] = idle]
        PROVE PayInvariant'
    <3>1. o \in Orders /\ Made(o) /\ orders[o].screen = n BY DEF Replayed, KeyOf
    <3>2. conf' \in Confirmations /\ conf'.order = o /\ conf'.shown = screens[n].answer
      BY <2>5, <3>1 DEF Confirmations, Orders
    <3>3. o # 0 BY <3>1 DEF Orders
    <3>4. PayTyped' BY <1>0, <2>2, <2>4, <2>5, <3>2, <3>3 DEF PayTyped
    <3> HIDE DEF idle
    <3>5. \A m \in Screens : screens'[m] = IF m = n THEN idle ELSE screens[m]
      BY <1>0, <2>5 DEF PayTyped
    <3>6. AnswersAreTold' BY <2>2, <3>5 DEF PayInvariant, AnswersAreTold
    <3>7. OrderHasKey' BY <2>2, <2>4, <3>5 DEF PayInvariant, OrderHasKey, Made
    <3>8. OrderIsAlone' BY <2>4 DEF PayInvariant, OrderIsAlone, Made
    <3>9. ShownIsPaid' BY <2>4, <3>1, <3>2 DEF PayInvariant, OrderHasKey, ShownIsPaid
    <3> QED BY <3>4, <3>6, <3>7, <3>8, <3>9 DEF PayInvariant
  <2>6. ASSUME screens[n].answer = "fee", screens' = [screens EXCEPT ![n] = anew], conf' = conf
        PROVE PayInvariant'
    <3>1. \A o \in Orders : ~(Made(o) /\ orders[o].screen = n)
      BY <2>6 DEF PayInvariant, OrderHasKey
    <3> HIDE DEF anew
    <3> QED BY <2>3, <2>4, <2>6, <3>1, ScreenChanges
  <2>7. ASSUME screens' = [screens EXCEPT ![n] = idle], conf' = conf
        PROVE PayInvariant'
    <3> HIDE DEF idle
    <3> QED BY <2>2, <2>4, <2>7, ScreenChanges
  <2> QED BY <1>6, <2>5, <2>6, <2>7 DEF EndCheckout
<1>7. ASSUME NEW n \in Screens, Review(n) PROVE PayInvariant'
  <2>1. screens[n] \in PaymentScreens BY <1>0 DEF PayTyped
  <2> DEFINE e == [screens[n] EXCEPT !.stage = "idle"]
  <2>2. screens[n].answer = "none" BY <1>7 DEF Review, PayInvariant, AnswersAreTold
  <2>3. e \in PaymentScreens /\ e.stage = "idle" /\ e.answer = "none" /\ e.review = screens[n].review
    BY <2>1, <2>2 DEF PaymentScreens
  <2>4. screens' = [screens EXCEPT ![n] = e] /\ UNCHANGED <<opened, current, ended, orders, conf>>
    BY <1>7 DEF Review
  <2> HIDE DEF e
  <2> QED BY <2>3, <2>4, ScreenChanges
<1>8. conf.order # 0 => conf.order \in Orders /\ orders[conf.order] \in OrderRows
  BY <1>0 DEF PayTyped, Confirmations, Orders
<1>9. CASE Prepare
  <2>1. conf.order # 0 BY <1>0, <1>9 DEF Prepare, PayTyped, NoConfirmation
  <2>2. UNCHANGED <<screens, opened, current, ended, orders>> BY <1>9 DEF Prepare
  <2>3. conf' = [conf EXCEPT !.prepared = "ready", !.shown = orders[conf.order].state]
        \/ conf' = [conf EXCEPT !.prepared = "failed"]
    BY <1>9 DEF Prepare
  <2>4. /\ conf' \in Confirmations /\ conf'.order = conf.order
        /\ conf'.shown \in {conf.shown, orders[conf.order].state}
    BY ZenonT(40), <1>0, <1>8, <2>1, <2>3 DEF PayTyped, Confirmations, OrderRows
  <2> QED BY <2>1, <2>2, <2>4, ConfirmationChanges DEF PayInvariant, ShownIsPaid
<1>10. CASE Poll
  <2>1. /\ conf.order # 0 /\ UNCHANGED <<screens, opened, current, ended, orders>>
        /\ conf' = [conf EXCEPT !.shown = orders[conf.order].state]
    BY <1>10 DEF Poll
  <2>2. /\ conf' \in Confirmations /\ conf'.order = conf.order
        /\ conf'.shown = orders[conf.order].state
    BY <1>0, <1>8, <2>1 DEF PayTyped, Confirmations, OrderRows
  <2> QED BY <2>1, <2>2, ConfirmationChanges
<1>11. CASE PresentSheet
  <2>1. /\ conf.prepared = "ready" /\ UNCHANGED <<screens, opened, current, ended, orders>>
        /\ conf' = [conf EXCEPT !.status = "submitting"]
    BY <1>11 DEF PresentSheet
  <2>2. conf.order # 0 BY <1>0, <2>1 DEF PayTyped, NoConfirmation
  <2>3. conf' \in Confirmations /\ conf'.order = conf.order /\ conf'.shown = conf.shown
    BY <1>0, <2>1 DEF PayTyped, Confirmations
  <2> QED BY <2>1, <2>2, <2>3, ConfirmationChanges DEF PayInvariant, ShownIsPaid
<1>12. CASE EndSheet
  <2>1. conf.order # 0 BY <1>0, <1>12 DEF EndSheet, PayTyped, NoConfirmation
  <2> DEFINE o == conf.order
  <2>2. o \in Orders /\ orders[o] \in OrderRows BY <1>8, <2>1
  <2>3. PICK charged \in BOOLEAN, outcome \in {"processing", "declined", "unknown"} :
          /\ conf' = [conf EXCEPT !.status = outcome]
          /\ orders' = [orders EXCEPT ![o].charged = charged]
    BY <1>12 DEF EndSheet
  <2>4. UNCHANGED <<screens, opened, current, ended>> BY <1>12 DEF EndSheet
  <2>5. conf' \in Confirmations /\ conf'.order = o /\ conf'.shown = conf.shown
    BY <1>0, <2>3 DEF PayTyped, Confirmations
  <2>6. /\ orders' \in [Orders -> OrderRows]
        /\ \A p \in Orders : /\ orders'[p].state = orders[p].state
                             /\ orders'[p].screen = orders[p].screen /\ orders'[p].review = orders[p].review
    <3> DEFINE e == [orders[o] EXCEPT !.charged = charged]
    <3>1. e \in OrderRows /\ e.state = orders[o].state /\ e.screen = orders[o].screen /\ e.review = orders[o].review
      BY <2>2 DEF OrderRows
    <3>2. orders' = [orders EXCEPT ![o] = e] BY <2>3
    <3> HIDE DEF e, o
    <3> QED BY <1>0, <2>2, <3>1, <3>2 DEF PayTyped
  <2>7. PayTyped' BY <1>0, <2>1, <2>4, <2>5, <2>6 DEF PayTyped
  <2>8. \A p \in Orders : Made(p)' <=> Made(p) BY <2>6 DEF Made
  <2> QED BY <2>2, <2>4, <2>5, <2>6, <2>7, <2>8
          DEF PayInvariant, AnswersAreTold, OrderHasKey, OrderIsAlone, ShownIsPaid
<1>13. CASE LeaveConfirmation
  <2>1. /\ conf' = NoConfirmation /\ current' \in {0, current}
        /\ UNCHANGED <<screens, opened, ended, orders>>
    BY <1>13 DEF LeaveConfirmation
  <2> QED BY <2>1, ConfirmationChanges
<1>14. CASE Kill
  <2>1. /\ current' = 0 /\ ended' = opened /\ conf' = NoConfirmation
        /\ UNCHANGED <<screens, opened, orders>>
    BY <1>14 DEF Kill
  <2>2. PayTyped' BY <1>0, <2>1 DEF PayTyped
  <2> QED
    BY <2>1, <2>2 DEF PayInvariant, AnswersAreTold, OrderHasKey, OrderIsAlone, ShownIsPaid,
       Made
<1>15. ASSUME NEW o \in Orders, OpenLink(o) PROVE PayInvariant'
  <2>1. PICK prepared \in {"none", "loading"} : conf' = [NoConfirmation EXCEPT !.order = o, !.prepared = prepared]
    BY <1>15 DEF OpenLink
  <2>2. conf' \in Confirmations /\ conf'.order = o /\ conf'.shown = "none" /\ o # 0
    <3>1. o \in 0 .. MaxOrders /\ o # 0 BY DEF Orders
    <3>2. NoConfirmation \in Confirmations /\ NoConfirmation.shown = "none" OBVIOUS
    <3> QED BY <2>1, <3>1, <3>2 DEF Confirmations
  <2>3. UNCHANGED <<screens, opened, current, ended, orders>> BY <1>15 DEF OpenLink
  <2> QED BY <2>2, <2>3, ConfirmationChanges
<1>16. ASSUME NEW o \in Orders, Settle(o) \/ ExpireOrder(o) \/ CancelOrder(o) \/ Refund(o)
       PROVE PayInvariant'
  <2>1. PICK state \in {"paid", "payment_expired", "cancelled", "refunded"} :
          /\ OrderBecomes(o, state) /\ Made(o)
          /\ orders[o].state \in {"paid", "refunded"} => state \in {"paid", "refunded"}
    BY <1>16 DEF Settle, ExpireOrder, CancelOrder, Refund, Made
  <2>2. orders[o] \in OrderRows BY <1>0 DEF PayTyped
  <2> DEFINE e == [orders[o] EXCEPT !.state = state]
  <2>3. /\ e \in OrderRows /\ e.screen = orders[o].screen /\ e.review = orders[o].review
        /\ e.state = state
    BY <2>2 DEF OrderRows, States
  <2>4. orders' = [orders EXCEPT ![o] = e] /\ UNCHANGED <<screens, opened, current, ended, conf>>
    BY <2>1 DEF OrderBecomes
  <2> HIDE DEF e
  <2> QED BY <2>1, <2>3, <2>4, OrderChanges
<1> QED
  BY <1>1, <1>2, <1>3, <1>4, <1>5, <1>6, <1>7, <1>9, <1>10, <1>11, <1>12, <1>13, <1>14, <1>15,
     <1>16 DEF PayStep

LEMMA PayKeeps ==
  ASSUME CartTyped, PayInvariant, Next \/ UNCHANGED shopVars
  PROVE  PayInvariant'
<1>1. CASE UNCHANGED payVars
  BY <1>1 DEF payVars, PayInvariant, PayTyped, AnswersAreTold, OrderHasKey, OrderIsAlone,
     ShownIsPaid, Made
<1> QED BY <1>1, PayStepKeeps DEF Next, shopVars

LEMMA OneOrderIsPaid == PayInvariant => OnePaidOrder
<1> SUFFICES ASSUME PayInvariant PROVE OnePaidOrder OBVIOUS
<1>1. PressesAreOneOrder
  <2> SUFFICES ASSUME NEW n \in Screens
               PROVE  LET made == {o \in Orders : Made(o) /\ orders[o].screen = n} IN
                      /\ Cardinality(made) <= 1
                      /\ screens[n].answer \in {"fee", "refused"} => made = {}
    BY DEF PressesAreOneOrder
  <2> DEFINE made == {o \in Orders : Made(o) /\ orders[o].screen = n}
  <2>1. CASE made = {} BY <2>1, FS_EmptySet
  <2>2. CASE made # {}
    <3>1. PICK o \in made : TRUE BY <2>2
    <3>2. made = {o} BY <3>1 DEF PayInvariant, OrderIsAlone
    <3>3. Cardinality(made) = 1 BY <3>2, FS_Singleton
    <3>4. screens[n].answer \notin {"fee", "refused"} BY <3>1 DEF PayInvariant, OrderHasKey
    <3>5. Cardinality(made) <= 1 BY <3>3
    <3>6. ~(screens[n].answer \in {"fee", "refused"}) BY <3>4
    <3> QED BY <3>5, <3>6
  <2> QED BY <2>1, <2>2
<1>2. ThanksMeansPaid
  BY DEF PayInvariant, ThanksMeansPaid, Confirmation, Verified, ShownIsPaid
<1> QED BY <1>1, <1>2 DEF OnePaidOrder

-----------------------------------------------------------------------------
(***************************************************************************)
(* Theorems                                                                *)
(***************************************************************************)

ShopInvariant == CartTyped /\ WishesAreKept /\ AnswersAreCurrent /\ PayInvariant

LEMMA ShopStarts == ShopInit => ShopInvariant
<1> SUFFICES ASSUME ShopInit PROVE ShopInvariant OBVIOUS
<1> USE DEF ShopInit, CartInit
<1>0. None \in 0 .. None /\ MaxFee \in Nat /\ MaxTaps \in Nat /\ MaxFaults \in Nat
  BY CartAssumption DEF None
<1>1. cache \in Caches BY Blanks DEF Caches
<1>2. queue \in [Skus -> Entries] /\ \A s \in Skus : queue[s].stage = "idle" BY Blanks
<1>3. wish \in [Skus -> 0 .. None] /\ \A s \in Skus : wish[s] = None BY <1>0
<1>4. CartTyped
  <2>1. cart \in Lines /\ lapsed \in BOOLEAN /\ fee \in 0 .. MaxFee /\ behind \in BOOLEAN
    <3>1. cart \in Lines BY Blanks
    <3>2. fee \in 0 .. MaxFee BY <1>0
    <3> QED BY <3>1, <3>2
  <2>2. taps \in 0 .. MaxTaps /\ faults \in 0 .. MaxFaults BY <1>0
  <2>3. fetch \in Requests /\ adding \in Requests /\ fetch.stage = "idle" /\ adding.stage = "idle"
    BY Blanks
  <2> QED BY <1>1, <1>2, <1>3, <2>1, <2>2, <2>3 DEF CartTyped
<1>5. WishesAreKept BY <1>3 DEF WishesAreKept
<1>6. AnswersAreCurrent BY <1>2, Blanks DEF AnswersAreCurrent, Sending
<1>7. PayTyped BY PayBounds DEF PayTyped
<1>8. (\A o \in Orders : ~Made(o)) /\ conf.order = 0 BY PayBounds DEF Made, NoOrder
<1>9. AnswersAreTold BY DEF AnswersAreTold, NewScreen
<1> QED BY <1>4, <1>5, <1>6, <1>7, <1>8, <1>9
        DEF ShopInvariant, PayInvariant, OrderHasKey, OrderIsAlone, ShownIsPaid

LEMMA ShopInvariance == ScreensSpec => []ShopInvariant
<1>1. ScreensInit => ShopInvariant BY ShopStarts DEF ScreensInit
<1>2. ShopInvariant /\ [ScreensNext]_screensVars => ShopInvariant'
  <2> SUFFICES ASSUME ShopInvariant, [ScreensNext]_screensVars PROVE ShopInvariant' OBVIOUS
  <2>1. Next \/ UNCHANGED shopVars BY DEF ScreensNext, screensVars
  <2> QED BY <2>1, CartIsTyped, WishStep, AnswerStep, PayKeeps DEF ShopInvariant
<1> QED BY <1>1, <1>2, PTL DEF ScreensSpec

\* The cart, the requests of the phone and the API's orders keep their types.
THEOREM ShopTypeCorrect == ScreensSpec => []TypeOK
<1>1. ShopInvariant => TypeOK BY ShopTypes DEF ShopInvariant, PayInvariant
<1> QED BY <1>1, ShopInvariance, PTL

\* Whatever is tapped, refused, lost or answered out of order on the cart screen,
\* on the product pages and while paying: once all is answered and no step left a
\* mark, the cart the phone shows is the API's (mutations.ts).
THEOREM TheCartSettles == ScreensSpec => []CacheSettles
<1>1. ShopInvariant => CacheSettles
  <2> SUFFICES ASSUME ShopInvariant, UnderWay = {}, cache.load = "ok", ~behind
               PROVE  cache.data.lines = cart
    BY DEF CacheSettles
  <2> QED BY NothingUnderWay DEF ShopInvariant, AnswersAreCurrent
<1> QED BY <1>1, ShopInvariance, PTL

\* The changes of a line are sent one at a time, and the one that waits is the
\* last asked for: for any number of taps and SKUs the last one is the quantity
\* the API is left with, unless it refused it (enqueue() of mutations.ts).
THEOREM TheLastTapWins == ScreensSpec => []LastTapWins
<1>1. ShopInvariant => LastTapWins
  BY DEF ShopInvariant, WishesAreKept, LastTapWins, Busy
<1> QED BY <1>1, ShopInvariance, PTL

\* However often a payment screen's button is pressed, and however many screens
\* are opened, each leads to one order at most, and the phone thanks for an order
\* only when the API has it as paid (checkout.tsx, confirmation.tsx).
THEOREM OneOrderAndPaid == ScreensSpec => []OnePaidOrder
<1>1. ShopInvariant => OnePaidOrder BY OneOrderIsPaid DEF ShopInvariant
<1> QED BY <1>1, ShopInvariance, PTL

\* A mounted screen of orders catches up with every message taken, through the
\* background, an end of the process and failed requests, and a notification
\* marked as read has led somewhere (useOrders, PushProvider.tsx).
THEOREM OrdersAreTracked == ScreensSpec => []TrackingIsCurrent
<1>1. ScreensInit => TrackInvariant
  BY TrackingAssumption
     DEF ScreensInit, TrackingInit, TrackInvariant, TrackTypeOK, OrdersFollowMessages,
         ClosedIsEmpty, OnlyLookIsOwed, OrderRequests, NoAnswer, NotAsking, NoLook
<1>2. TrackInvariant /\ [ScreensNext]_screensVars => TrackInvariant'
  <2> SUFFICES ASSUME TrackInvariant, [ScreensNext]_screensVars PROVE TrackInvariant' OBVIOUS
  <2>1. CASE TrackingNext BY <2>1, TrackStep
  <2>2. CASE UNCHANGED orderVars
    BY <2>2 DEF orderVars, TrackInvariant, TrackTypeOK, OrdersFollowMessages, ClosedIsEmpty,
       OnlyLookIsOwed
  <2> QED BY <2>1, <2>2 DEF ScreensNext, screensVars
<1>3. TrackInvariant => TrackingIsCurrent
  <2> SUFFICES ASSUME TrackInvariant PROVE TrackingIsCurrent OBVIOUS
  <2>1. ScreensCatchUp BY DEF TrackInvariant, OrdersFollowMessages, ScreensCatchUp
  <2>2. TapsLead BY DEF TrackInvariant, OnlyLookIsOwed, TapsLead
  <2> QED BY <2>1, <2>2 DEF TrackingIsCurrent
<1> QED BY <1>1, <1>2, <1>3, PTL DEF ScreensSpec

\* With clocks that disagree by any amount the page lists the moves of an order in
\* the order they were made, unless one followed a whole second within it, and the
\* bar under them only grows (_next_history_time(), buildTimeline()).
THEOREM TheTimelineTells == ScreensSpec => []TimelineTellsTheMoves
<1>1. ScreensInit => HistoryInvariant
  <2> SUFFICES ASSUME ScreensInit PROVE HistoryInvariant OBVIOUS
  <2>1. PICK t \in 0 .. MaxStamp : history = <<[state |-> "pending_payment", stamp |-> t]>>
    BY DEF ScreensInit, TimelineInit
  <2>2. [state |-> "pending_payment", stamp |-> t] \in HistoryEntries
    BY TimelineAssumption DEF HistoryEntries, OnTheWay
  <2>3. Len(history) = 1 /\ history \in Seq(HistoryEntries) /\ history # <<>> BY <2>1, <2>2
  <2> QED BY <2>3 DEF HistoryInvariant, HistoryMoves
<1>2. HistoryInvariant /\ [ScreensNext]_screensVars => HistoryInvariant'
  <2> SUFFICES ASSUME HistoryInvariant, [ScreensNext]_screensVars PROVE HistoryInvariant' OBVIOUS
  <2>1. CASE TimelineNext BY <2>1, HistoryStep
  <2>2. CASE UNCHANGED history BY <2>2 DEF HistoryInvariant, HistoryMoves
  <2> QED BY <2>1, <2>2 DEF ScreensNext, screensVars
<1>3. HistoryInvariant => TimelineTellsTheMoves BY TimelineTells
<1> QED BY <1>1, <1>2, <1>3, PTL DEF ScreensSpec

\* A serial number the customer was told is saved is on the page and in the list
\* from then on, and no screen of machines stays behind a message, whatever is
\* answered late or lost (machines/queries.ts).
THEOREM MachinesAreCurrent == ScreensSpec => []MachineIsCurrent
<1>1. ScreensInit => MachineInvariant
  <2> SUFFICES ASSUME MachineInit PROVE MachineInvariant BY DEF ScreensInit
  <2> USE DEF MachineInit
  <2>1. \A q \in Pages : /\ pending[q].stage \in {"idle", "sent"} /\ pending[q] \in PageRequests
                         /\ ~cached[q].known
    BY DEF NotPending, Unseen, PageRequests, Pages
  <2>2. pending \in [Pages -> PageRequests] BY DEF NotPending, PageRequests, Pages
  <2>3. MachineTypeOK BY <2>2 DEF MachineTypeOK, NoSerial, Unseen, Pages
  <2>4. NumberIsShown /\ PagesFollowNews
    BY <2>1 DEF NumberIsShown, PagesFollowNews, NoSerial, Settled, Pages
  <2>5. ListHasNumber BY DEF ListHasNumber, Pages
  <2> QED BY <2>3, <2>4, <2>5 DEF MachineInvariant
<1>2. MachineInvariant /\ [ScreensNext]_screensVars => MachineInvariant'
  <2> SUFFICES ASSUME MachineInvariant, [ScreensNext]_screensVars PROVE MachineInvariant' OBVIOUS
  <2>1. CASE MachineNext BY <2>1, MachineStep
  <2>2. CASE UNCHANGED machineVars
    BY <2>2 DEF machineVars, MachineInvariant, MachineTypeOK, NumberIsShown, ListHasNumber,
                PagesFollowNews, Settled
  <2> QED BY <2>1, <2>2 DEF ScreensNext, screensVars
<1>3. MachineInvariant => MachineIsCurrent
  <2> SUFFICES ASSUME MachineInvariant PROVE MachineIsCurrent OBVIOUS
  <2>1. told /\ ~passed => ~FormShown BY DEF MachineInvariant, NumberIsShown, FormShown
  <2>2. told /\ Settled("machines") => cached["machines"].number = number
    BY DEF MachineInvariant, ListHasNumber, Settled
  <2>3. \A q \in Pages : Settled(q) /\ ~passed => cached[q].work >= news
    BY DEF MachineInvariant, PagesFollowNews, Settled
  <2> QED BY <2>1, <2>2, <2>3 DEF MachineIsCurrent
<1> QED BY <1>1, <1>2, <1>3, PTL DEF ScreensSpec

-----------------------------------------------------------------------------
(***************************************************************************)
(* The catalog on the phone                                                *)
(***************************************************************************)

Offers == [Varieties -> [active: BOOLEAN, stock: 0 .. MaxStock]]

ProductTyped ==
  /\ offer \in Offers
  /\ product \in [known: BOOLEAN, failed: BOOLEAN, offer: Offers]
  /\ reading \in [stage: {"idle", "sent", "served"}, offer: Offers]
  /\ quantity \in Nat \ {0} /\ fell \in BOOLEAN

\* The number on the stepper is of the variety it was chosen for, and in stock.
QuantityIsOfItsSku ==
  /\ quantity > 1 => Sku # 0 /\ chosenFor = Sku
  /\ Sku # 0 => quantity <= Maximum \/ fell

ProductInvariant == ProductTyped /\ QuantityIsOfItsSku

\* A variety that can be bought is in stock.
LEMMA SkuIsInStock ==
  ASSUME NEW p \in [known: BOOLEAN, failed: BOOLEAN, offer: Offers], NEW choice
  PROVE  SkuOf(p, choice) # 0 =>
           /\ SkuOf(p, choice) \in Varieties
           /\ p.offer[SkuOf(p, choice)].stock \in Nat \ {0}
<1> DEFINE sku == SkuOf(p, choice)
<1>1. sku # 0 => sku \in Sellable(p.offer)
  BY DEF SkuOf
<1>2. \A v \in Sellable(p.offer) : v \in Varieties /\ p.offer[v].stock > 0
  BY DEF Sellable, Active
<1>3. \A v \in Varieties : p.offer[v].stock \in Nat
  BY CatalogAssumption DEF Offers
<1> HIDE DEF sku
<1>4. sku # 0 => sku \in Varieties /\ p.offer[sku].stock \in Nat \ {0}
  BY <1>1, <1>2, <1>3
<1> QED
  BY <1>4 DEF sku

\* Another variety starts at one, and one is in stock.
LEMMA QuantityAtOne ==
  ASSUME ProductTyped, quantity = 1 PROVE QuantityIsOfItsSku
<1>1. Sku # 0 => 1 <= Maximum
  BY SkuIsInStock DEF ProductTyped, Sku, Maximum
<1> QED
  BY <1>1 DEF QuantityIsOfItsSku

LEMMA QuantityFollowsStep ==
  ASSUME ProductInvariant, ProductTyped', QuantityFollows, UNCHANGED chosenFor,
         SkuOf(product', picked') = Sku /\ Sku # 0 => quantity <= Maximum' \/ fell'
  PROVE  ProductInvariant'
<1>1. Sku' = SkuOf(product', picked')
  BY DEF Sku
<1>2. CASE Sku' # Sku
  <2>1. quantity' = 1
    BY <1>1, <1>2 DEF QuantityFollows
  <2>2. Sku' # 0 => 1 <= Maximum'
    <3>1. SkuOf(product', picked') # 0 =>
            /\ SkuOf(product', picked') \in Varieties
            /\ product'.offer[SkuOf(product', picked')].stock \in Nat \ {0}
      <4>1. product' \in [known: BOOLEAN, failed: BOOLEAN, offer: Offers]
        BY DEF ProductTyped, Offers
      <4> QED
        BY <4>1, SkuIsInStock
    <3>2. Sku' # 0 => Maximum' = product'.offer[Sku'].stock
      BY DEF Maximum
    <3> QED
      BY <1>1, <3>1, <3>2
  <2> QED
    BY <2>1, <2>2 DEF ProductInvariant, QuantityIsOfItsSku
<1>3. CASE Sku' = Sku
  <2>1. quantity' = quantity
    BY <1>1, <1>3 DEF QuantityFollows
  <2> QED
    BY <1>1, <1>3, <2>1 DEF ProductInvariant, QuantityIsOfItsSku
<1> QED
  BY <1>2, <1>3

LEMMA ProductStepKeeps == ProductInvariant /\ ProductStep => ProductInvariant'
<1> SUFFICES ASSUME ProductInvariant, ProductStep PROVE ProductInvariant'
  OBVIOUS
<1>0. ProductTyped /\ QuantityIsOfItsSku
  BY DEF ProductInvariant
<1>1. ASSUME UNCHANGED <<picked, quantity, chosenFor, fell>>, ProductTyped',
             product'.known = product.known, product'.offer = product.offer
      PROVE  ProductInvariant'
  <2>1. Sku' = Sku /\ Maximum' = Maximum
    BY <1>1 DEF Sku, SkuOf, DisplayOf, Maximum
  <2> QED
    BY <1>0, <1>1, <2>1 DEF ProductInvariant, QuantityIsOfItsSku
<1>2. CASE AskProduct \/ ServeProduct \/ ProductFails \/ AddToCart \/ Added
           \/ \E v \in Varieties : OfferChanges(v)
  <2>1. UNCHANGED <<picked, quantity, chosenFor, fell>>
    BY <1>2 DEF AskProduct, ServeProduct, ProductFails, AddToCart, Added, OfferChanges
  <2>2. product' \in [known: BOOLEAN, failed: BOOLEAN, offer: Offers]
        /\ product'.known = product.known /\ product'.offer = product.offer
    BY <1>0, <1>2 DEF AskProduct, ServeProduct, ProductFails, AddToCart, Added, OfferChanges,
         ProductTyped
  <2>3. offer' \in Offers
    <3>1. CASE \E v \in Varieties : OfferChanges(v)
      <4>1. PICK v \in Varieties, active \in BOOLEAN, stock \in 0 .. MaxStock :
              offer' = [offer EXCEPT ![v] = [active |-> active, stock |-> stock]]
        BY <3>1 DEF OfferChanges
      <4>2. [active |-> active, stock |-> stock] \in [active: BOOLEAN, stock: 0 .. MaxStock]
        OBVIOUS
      <4> QED
        BY <1>0, <4>1, <4>2 DEF ProductTyped, Offers
    <3>2. CASE UNCHANGED offer
      BY <1>0, <3>2 DEF ProductTyped
    <3> QED
      BY <1>2, <3>1, <3>2 DEF AskProduct, ServeProduct, ProductFails, AddToCart, Added
  <2>4. reading' \in [stage: {"idle", "sent", "served"}, offer: Offers]
    BY <1>0, <1>2 DEF AskProduct, ServeProduct, ProductFails, AddToCart, Added, OfferChanges,
         ProductTyped
  <2>5. ProductTyped'
    BY <1>0, <2>1, <2>2, <2>3, <2>4 DEF ProductTyped, Offers
  <2> QED
    BY <1>1, <2>1, <2>2, <2>5
<1>3. CASE ProductShown
  <2>1. /\ product' = [known |-> TRUE, failed |-> FALSE, offer |-> reading.offer]
        /\ reading' = [reading EXCEPT !.stage = "idle"]
        /\ fell' = (SkuOf(product', picked) = Sku /\ Sku # 0 /\ product'.offer[Sku].stock < quantity)
        /\ QuantityFollows /\ UNCHANGED <<picked, offer, chosenFor>>
    BY <1>3 DEF ProductShown
  <2>2. quantity' \in Nat \ {0}
    BY <1>0, <2>1 DEF QuantityFollows, ProductTyped
  <2>3. fell' \in BOOLEAN
    BY <2>1
  <2>4. /\ product' \in [known: BOOLEAN, failed: BOOLEAN, offer: Offers]
        /\ reading' \in [stage: {"idle", "sent", "served"}, offer: Offers]
    BY <1>0, <2>1 DEF ProductTyped
  <2>5. ProductTyped'
    BY <1>0, <2>1, <2>2, <2>3, <2>4 DEF ProductTyped, Offers
  <2>6. ASSUME SkuOf(product', picked') = Sku, Sku # 0
        PROVE  quantity <= Maximum' \/ fell'
    <3>1. Sku' = Sku /\ Maximum' = product'.offer[Sku].stock
      BY <2>6 DEF Sku, Maximum
    <3>2. product'.offer[Sku].stock \in Nat
      BY <2>1, <2>4, <2>6, SkuIsInStock
    <3>3. fell' = (product'.offer[Sku].stock < quantity)
      BY <2>1, <2>6
    <3>4. quantity \in Nat
      BY <1>0 DEF ProductTyped
    <3>5. CASE product'.offer[Sku].stock < quantity
      BY <3>3, <3>5
    <3>6. CASE ~(product'.offer[Sku].stock < quantity)
      BY <3>1, <3>2, <3>4, <3>6
    <3> QED
      BY <3>5, <3>6
  <2> QED
    BY <2>1, <2>5, <2>6, QuantityFollowsStep
<1>4. ASSUME NEW v \in Varieties, Pick(v)
      PROVE  ProductInvariant'
  <2>1. /\ UNCHANGED <<product, offer, reading, chosenFor>> /\ QuantityFollows
        /\ picked' = v /\ fell' = (fell /\ SkuOf(product, v) = Sku)
    BY <1>4 DEF Pick
  <2>2. quantity' \in Nat \ {0}
    BY <1>0, <2>1 DEF QuantityFollows, ProductTyped
  <2>3. fell' \in BOOLEAN
    BY <1>0, <2>1 DEF ProductTyped
  <2>4. ProductTyped'
    BY <1>0, <2>1, <2>2, <2>3 DEF ProductTyped, Offers
  <2>5. ASSUME SkuOf(product', picked') = Sku, Sku # 0
        PROVE  quantity <= Maximum' \/ fell'
    <3>1. Sku' = Sku /\ Maximum' = Maximum
      BY <2>1, <2>5 DEF Sku, Maximum
    <3>2. fell' = fell
      BY <1>0, <2>1, <2>5 DEF ProductTyped
    <3> QED
      BY <1>0, <2>5, <3>1, <3>2 DEF QuantityIsOfItsSku
  <2> QED
    BY <2>1, <2>4, <2>5, QuantityFollowsStep
<1>5. CASE StepQuantity
  <2>1. /\ Sku # 0 /\ UNCHANGED <<product, picked, offer, reading>>
        /\ chosenFor' = Sku /\ fell' = (fell /\ quantity' > Maximum)
        /\ \/ quantity < Maximum /\ quantity' = quantity + 1
           \/ quantity > 1 /\ quantity' = IF quantity - 1 > Maximum THEN Maximum ELSE quantity - 1
    BY <1>5 DEF StepQuantity
  <2>2. Maximum \in Nat \ {0} /\ quantity \in Nat \ {0}
    BY <1>0, <2>1, SkuIsInStock DEF ProductTyped, Sku, Maximum
  <2>3. quantity' \in Nat \ {0} /\ quantity' <= Maximum
    BY <2>1, <2>2
  <2>4. Sku' = Sku /\ Maximum' = Maximum
    BY <2>1 DEF Sku, Maximum
  <2>5. fell' \in BOOLEAN
    BY <1>0, <2>1 DEF ProductTyped
  <2>6. ProductTyped'
    BY <1>0, <2>1, <2>3, <2>5 DEF ProductTyped, Offers
  <2> QED
    BY <2>1, <2>3, <2>4, <2>6 DEF ProductInvariant, QuantityIsOfItsSku
<1> QED
  BY <1>2, <1>3, <1>4, <1>5 DEF ProductStep

LEMMA ProductStutters == ProductInvariant /\ UNCHANGED productVars => ProductInvariant'
BY DEF ProductInvariant, ProductTyped, QuantityIsOfItsSku, productVars, Offers, Sku, Maximum

LEMMA ProductStarts == CatalogInit => ProductInvariant
<1> SUFFICES ASSUME CatalogInit PROVE ProductInvariant
  OBVIOUS
<1>1. MaxStock \in 0 .. MaxStock
  BY CatalogAssumption
<1>2. [v \in Varieties |-> [active |-> TRUE, stock |-> MaxStock]] \in Offers
  BY <1>1 DEF Offers
<1>3. NoProduct \in [known: BOOLEAN, failed: BOOLEAN, offer: Offers] /\ ~NoProduct.known
      /\ NoProduct.offer \in Offers
  BY <1>2 DEF NoProduct
<1>4. ProductTyped
  <2>1. [stage |-> "idle", offer |-> NoProduct.offer] \in
          [stage: {"idle", "sent", "served"}, offer: Offers]
    BY <1>3
  <2>2. /\ offer = [v \in Varieties |-> [active |-> TRUE, stock |-> MaxStock]]
        /\ product = NoProduct /\ reading = [stage |-> "idle", offer |-> NoProduct.offer]
        /\ quantity = 1 /\ fell = FALSE
    BY DEF CatalogInit
  <2>3. /\ offer \in Offers
        /\ reading \in [stage: {"idle", "sent", "served"}, offer: Offers]
        /\ product \in [known: BOOLEAN, failed: BOOLEAN, offer: Offers]
    BY <1>2, <1>3, <2>1, <2>2
  <2>4. quantity \in Nat \ {0}
    BY <2>2
  <2>5. fell \in BOOLEAN
    BY <2>2
  <2> QED
    BY <2>3, <2>4, <2>5 DEF ProductTyped
<1>5. quantity = 1
  BY DEF CatalogInit
<1> QED
  BY <1>4, <1>5, QuantityAtOne DEF ProductInvariant

\* The places of what is chosen from a list are all the places of the filtered
\* list, one each.
LEMMA PlacesFill ==
  ASSUME NEW n \in Nat, NEW chosen \in SUBSET (1 .. n)
  PROVE  LET place(i) == Cardinality({j \in chosen : j < i}) + 1 IN
         /\ Cardinality(chosen) \in Nat
         /\ \A i \in chosen : place(i) \in 1 .. Cardinality(chosen)
         /\ \A k \in 1 .. Cardinality(chosen) : \E i \in chosen : place(i) = k
<1> DEFINE lower(i) == {j \in chosen : j < i}
           place(i) == Cardinality(lower(i)) + 1
           size == Cardinality(chosen)
<1>1. IsFiniteSet(chosen) /\ size \in Nat
  <2>1. IsFiniteSet(1 .. n)
    BY FS_Interval
  <2> QED
    BY <2>1, FS_Subset, FS_CardinalityType
<1>2. \A i \in chosen : IsFiniteSet(lower(i)) /\ Cardinality(lower(i)) \in Nat
  <2> TAKE i \in chosen
  <2>1. lower(i) \in SUBSET chosen
    OBVIOUS
  <2> HIDE DEF lower
  <2> QED
    BY <1>1, <2>1, FS_Subset, FS_CardinalityType
<1>3. \A i \in chosen : Cardinality(lower(i)) < size
  <2> TAKE i \in chosen
  <2>1. lower(i) \in SUBSET chosen /\ i \notin lower(i)
    OBVIOUS
  <2> HIDE DEF lower
  <2>2. Cardinality(lower(i)) <= size /\ (size = Cardinality(lower(i)) => chosen = lower(i))
    BY <1>1, <2>1, FS_Subset
  <2> QED
    BY <1>1, <1>2, <2>1, <2>2
<1>4. ASSUME NEW i \in chosen, NEW j \in chosen, i < j
      PROVE  Cardinality(lower(i)) < Cardinality(lower(j))
  <2>1. lower(i) \in SUBSET lower(j) /\ i \in lower(j) /\ i \notin lower(i)
    <3>1. \A k \in chosen : k \in Nat
      OBVIOUS
    <3>2. \A k \in chosen : k < i => k < j
      BY <1>4, <3>1
    <3>3. ~(i < i)
      BY <3>1
    <3> QED
      BY <1>4, <3>2, <3>3
  <2>2. IsFiniteSet(lower(j)) /\ Cardinality(lower(i)) \in Nat /\ Cardinality(lower(j)) \in Nat
    BY <1>2
  <2> HIDE DEF lower
  <2>3. /\ Cardinality(lower(i)) <= Cardinality(lower(j))
        /\ Cardinality(lower(j)) = Cardinality(lower(i)) => lower(j) = lower(i)
    BY <2>1, <2>2, FS_Subset
  <2> QED
    BY <2>1, <2>2, <2>3
<1>5. \A i \in chosen : place(i) \in 1 .. size
  BY <1>1, <1>2, <1>3
<1>6. \A i, j \in chosen : place(i) = place(j) => i = j
  <2> SUFFICES ASSUME NEW i \in chosen, NEW j \in chosen, place(i) = place(j)
               PROVE  i = j
    OBVIOUS
  <2>1. Cardinality(lower(i)) = Cardinality(lower(j))
    BY <1>2
  <2>2. i \in Nat /\ j \in Nat
    OBVIOUS
  <2> HIDE DEF lower
  <2> QED
    BY <1>2, <1>4, <2>1, <2>2
<1>7. \A k \in 1 .. size : \E i \in chosen : place(i) = k
  <2> DEFINE places == [i \in chosen |-> place(i)]
  <2> HIDE DEF lower
  <2>1. places \in Injection(chosen, 1 .. size)
    <3>1. places \in [chosen -> 1 .. size]
      BY <1>5
    <3>2. \A i, j \in chosen : places[i] = places[j] => i = j
      BY <1>6
    <3> QED
      BY <3>1, <3>2 DEF Injection, IsInjective
  <2>2. IsFiniteSet(1 .. size) /\ Cardinality(1 .. size) = size
    BY <1>1, FS_Interval
  <2>3. places \in Surjection(chosen, 1 .. size)
    BY <2>1, <2>2, FS_Injection
  <2> QED
    BY <2>3 DEF Surjection
<1> QED
  BY <1>1, <1>5, <1>7

\* A filtered list has what it was filtered for.
LEMMA FilteredList ==
  ASSUME NEW S, NEW T, NEW list \in Seq(S)
  PROVE  Filtered(list, T) \in Seq(S \intersect T)
<1> DEFINE chosen == {i \in DOMAIN list : list[i] \in T}
           size == Cardinality(chosen)
           place(i) == Cardinality({j \in chosen : j < i}) + 1
           source(k) == CHOOSE i \in chosen : place(i) = k
           short == [k \in 1 .. size |-> list[source(k)]]
<1>1. DOMAIN list = 1 .. Len(list) /\ Len(list) \in Nat /\ \A i \in DOMAIN list : list[i] \in S
  OBVIOUS
<1>2. size \in Nat /\ \A k \in 1 .. size : \E i \in chosen : place(i) = k
  <2>1. chosen \in SUBSET (1 .. Len(list))
    BY <1>1
  <2> HIDE DEF chosen
  <2> QED
    BY <1>1, <2>1, PlacesFill
<1>3. Filtered(list, T) = short
  BY DEF Filtered
<1> HIDE DEF place
<1>4. \A k \in 1 .. size : source(k) \in chosen
  BY <1>2
<1>5. \A k \in 1 .. size : list[source(k)] \in S \intersect T
  BY <1>1, <1>4
<1> HIDE DEF source, size
<1>6. short \in Seq(S \intersect T)
  BY <1>2, <1>5
<1> QED
  BY <1>3, <1>6

LEMMA Products ==
  ASSUME NEW a \in Nat, NEW b \in Nat, NEW c \in Nat, a <= b
  PROVE  a * c <= b * c
OBVIOUS

LEMMA OneMore ==
  ASSUME NEW a \in Nat \ {0}, NEW c \in Nat
  PROVE  (a - 1) * c \in Nat /\ a * c \in Nat /\ a * c = (a - 1) * c + c
OBVIOUS

\* Where the k-th row is on pages of `size' rows.
LEMMA PageOfPlace ==
  ASSUME NEW size \in Nat \ {0}, NEW k \in Nat \ {0}
  PROVE  \E n \in Nat \ {0}, m \in 1 .. size : k = (n - 1) * size + m
<1> DEFINE n == ((k - 1) \div size) + 1
           m == ((k - 1) % size) + 1
<1>1. k - 1 \in Nat /\ (k - 1) \div size \in Nat /\ (k - 1) % size \in 0 .. size - 1
  OBVIOUS
<1>2. k - 1 = ((k - 1) \div size) * size + ((k - 1) % size)
  OBVIOUS
<1>3. n \in Nat \ {0} /\ m \in 1 .. size /\ n - 1 = (k - 1) \div size
  BY <1>1
<1>4. k = (n - 1) * size + m
  BY <1>1, <1>2, <1>3
<1> QED
  BY <1>3, <1>4

\* Row b of page a is before row d of page c exactly when its place is.
InOrder(size, a, b, c, d) ==
  /\ (a - 1) * size + b < (c - 1) * size + d <=> a < c \/ (a = c /\ b < d)
  /\ (a - 1) * size + b = (c - 1) * size + d => a = c /\ b = d

LEMMA PlacesOrdered ==
  ASSUME NEW size \in Nat \ {0}, NEW a \in Nat \ {0}, NEW b \in 1 .. size,
         NEW c \in Nat \ {0}, NEW d \in 1 .. size
  PROVE  InOrder(size, a, b, c, d)
<1>1. ASSUME NEW x \in Nat \ {0}, NEW y \in Nat \ {0}, x < y
      PROVE  (x - 1) * size + size <= (y - 1) * size
  <2>1. y - 1 \in Nat /\ x \in Nat /\ x <= y - 1
    BY <1>1
  <2>2. x * size <= (y - 1) * size
    BY <2>1, Products
  <2>3. x * size = (x - 1) * size + size
    BY OneMore
  <2> QED
    BY <2>2, <2>3
<1>2. (a - 1) * size \in Nat /\ (c - 1) * size \in Nat
  BY OneMore
<1> DEFINE e == (a - 1) * size
           f == (c - 1) * size
<1>3. (a < c => e + size <= f) /\ (c < a => f + size <= e) /\ (a = c => e = f)
  BY <1>1
<1>4. e \in Nat /\ f \in Nat
  BY <1>2
<1> HIDE DEF e, f
<1>5. /\ e + b < f + d <=> a < c \/ (a = c /\ b < d)
      /\ e + b = f + d => a = c /\ b = d
  BY <1>3, <1>4
<1> QED
  BY <1>5 DEF InOrder, e, f

\* Every page but the last is full.
Full(list) ==
  \A n \in DOMAIN list :
    /\ Len(list[n].rows) <= PerPage
    /\ n < Len(list) => Len(list[n].rows) = PerPage

\* As many things as there are numbers that stand for one each.
LEMMA Numbered ==
  ASSUME NEW n \in Nat, NEW S, NEW f \in [1 .. n -> S],
         \A k, m \in 1 .. n : f[k] = f[m] => k = m,
         \A s \in S : \E k \in 1 .. n : f[k] = s
  PROVE  IsFiniteSet(S) /\ Cardinality(S) = n
<1>1. f \in Bijection(1 .. n, S)
  BY DEF Bijection, Injection, IsInjective, Surjection
<1>2. ExistsBijection(1 .. n, S)
  BY <1>1 DEF ExistsBijection
<1>3. IsFiniteSet(1 .. n) /\ Cardinality(1 .. n) = n
  BY FS_Interval
<1> QED
  BY <1>2, <1>3, FS_Bijection

\* When every page but the last is full, row m of page n is the one after the rows
\* of n - 1 full pages and m - 1 more.
LEMMA RowsInOrder ==
  ASSUME NEW S, NEW list \in Seq([rows: Seq(S), total: Nat, at: Nat]), list # <<>>, Full(list)
  PROVE  LET size == (Len(list) - 1) * PerPage + Len(list[Len(list)].rows) IN
         /\ size \in Nat /\ DOMAIN Rows(list) = 1 .. size /\ Rows(list) \in Seq(S)
         /\ \A k \in 1 .. size : \E n \in DOMAIN list : \E m \in DOMAIN list[n].rows :
              k = (n - 1) * PerPage + m /\ Rows(list)[k] = list[n].rows[m]
<1> DEFINE last == Len(list)
           full == (last - 1) * PerPage
           size == full + Len(list[last].rows)
           spots == RowSpots(list)
           placeAt(s) == (s[1] - 1) * PerPage + s[2]
<1>1. /\ PerPage \in Nat \ {0} /\ last \in Nat \ {0} /\ DOMAIN list = 1 .. last
      /\ \A n \in 1 .. last : list[n].rows \in Seq(S)
  <2>1. Len(list) \in Nat /\ Len(list) # 0 /\ DOMAIN list = 1 .. Len(list)
    OBVIOUS
  <2>2. \A n \in 1 .. Len(list) : list[n] \in [rows: Seq(S), total: Nat, at: Nat]
    <3> DEFINE pageSet == [rows: Seq(S), total: Nat, at: Nat]
    <3>1. list \in Seq(pageSet)
      OBVIOUS
    <3> HIDE DEF pageSet
    <3>2. \A n \in 1 .. Len(list) : list[n] \in pageSet
      BY <3>1
    <3> QED
      BY <3>2 DEF pageSet
  <2>3. \A n \in 1 .. Len(list) : list[n].rows \in Seq(S)
    BY <2>2
  <2> QED
    BY <2>1, <2>3, CatalogAssumption
<1> HIDE DEF last
<1>2. \A n \in 1 .. last : /\ DOMAIN list[n].rows = 1 .. Len(list[n].rows)
                           /\ Len(list[n].rows) \in Nat
  BY <1>1
<1>3. \A t : t \in spots <=> \E n \in 1 .. last : \E m \in DOMAIN list[n].rows : t = <<n, m>>
  BY <1>1 DEF RowSpots
<1>4. full \in Nat /\ size \in Nat /\ full <= size
  <2>2. full \in Nat
    BY <1>1, OneMore
  <2>3. Len(list[last].rows) \in Nat
    BY <1>1, <1>2
  <2> QED
    BY <2>2, <2>3
<1>5. \A n \in 1 .. last : /\ Len(list[n].rows) <= PerPage
                           /\ n < last => Len(list[n].rows) = PerPage
  <2>1. \A n \in DOMAIN list : /\ Len(list[n].rows) <= PerPage
                               /\ n < Len(list) => Len(list[n].rows) = PerPage
    BY DEF Full
  <2> QED
    BY <1>1, <2>1 DEF last
<1>6. ASSUME NEW s \in spots
      PROVE  /\ s[1] \in Nat \ {0} /\ s[2] \in 1 .. PerPage /\ placeAt(s) \in 1 .. size
             /\ s[1] \in 1 .. last /\ s[2] \in DOMAIN list[s[1]].rows
  <2>1. PICK n \in 1 .. last : \E m \in DOMAIN list[n].rows : s = <<n, m>>
    BY <1>3
  <2>2. PICK m \in DOMAIN list[n].rows : s = <<n, m>>
    BY <2>1
  <2>3. n \in Nat \ {0} /\ n <= last /\ m \in Nat \ {0} /\ m <= Len(list[n].rows)
    BY <1>1, <1>2
  <2>4. m \in 1 .. PerPage
    BY <1>1, <1>2, <1>5, <2>3
  <2>5. n - 1 \in Nat /\ (n - 1) * PerPage \in Nat
    BY <1>1, <2>3, OneMore
  <2> DEFINE start == (n - 1) * PerPage
  <2>6. start + m \in 1 .. size
    <3>1. CASE n = last
      <4>1. start = full /\ m <= Len(list[last].rows)
        BY <2>3, <3>1
      <4> HIDE DEF start, full
      <4> QED
        BY <1>1, <1>2, <1>4, <2>3, <2>5, <4>1 DEF start
    <3>2. CASE n # last
      <4>1. n \in Nat /\ last - 1 \in Nat /\ n <= last - 1
        BY <1>1, <2>3, <3>2
      <4>5. PerPage \in Nat
        BY <1>1
      <4>2. n * PerPage <= full
        BY <4>1, <4>5, Products
      <4>4. n * PerPage = start + PerPage
        BY <2>3, <4>5, OneMore
      <4> HIDE DEF start, full, size
      <4>3. start + PerPage <= size /\ start \in Nat
        BY <1>1, <1>4, <2>5, <4>2, <4>4 DEF start
      <4> QED
        BY <1>1, <1>4, <2>3, <2>4, <4>3
    <3> QED
      BY <3>1, <3>2
  <2>7. placeAt(s) = start + m /\ s[1] = n /\ s[2] = m
    BY <2>2
  <2> QED
    BY <2>3, <2>4, <2>6, <2>7
<1>7. ASSUME NEW k \in 1 .. size
      PROVE  \E s \in spots : placeAt(s) = k
  <2>1. k \in Nat \ {0}
    BY <1>4
  <2>2. PICK n \in Nat \ {0}, m \in 1 .. PerPage : k = (n - 1) * PerPage + m
    BY <1>1, <2>1, PageOfPlace
  <2>3. n <= last
    <3> SUFFICES ASSUME n > last
                 PROVE  FALSE
      BY <1>1
    <3>1. last \in Nat /\ n - 1 \in Nat /\ last <= n - 1 /\ PerPage \in Nat
      BY <1>1
    <3>6. last * PerPage <= (n - 1) * PerPage
      BY <3>1, Products
    <3>7. last * PerPage = full + PerPage /\ (n - 1) * PerPage \in Nat
      BY <1>1, <3>1, OneMore
    <3>2. full + PerPage <= (n - 1) * PerPage /\ (n - 1) * PerPage \in Nat
      BY <3>6, <3>7
    <3>3. Len(list[last].rows) <= PerPage /\ Len(list[last].rows) \in Nat
      BY <1>1, <1>2, <1>5
    <3> DEFINE start == (n - 1) * PerPage
    <3>4. k = start + m /\ full + PerPage <= start /\ start \in Nat
      BY <2>2, <3>2
    <3>5. k <= full + Len(list[last].rows)
      BY <1>4
    <3> HIDE DEF start, full, size
    <3> QED
      BY <1>1, <1>4, <3>3, <3>4, <3>5
  <2>4. n \in 1 .. last
    BY <1>1, <2>3
  <2>5. m <= Len(list[n].rows)
    <3>1. CASE n = last
      <4>1. k <= full + Len(list[last].rows) /\ k = full + m
        BY <1>4, <2>2, <3>1
      <4> HIDE DEF full, size
      <4> QED
        BY <1>1, <1>2, <1>4, <3>1, <4>1
    <3>2. CASE n # last
      <4>1. n < last
        BY <1>1, <2>4, <3>2
      <4>2. Len(list[n].rows) = PerPage
        BY <1>5, <2>4, <4>1
      <4> QED
        BY <1>1, <4>2
    <3> QED
      BY <3>1, <3>2
  <2>6. m \in DOMAIN list[n].rows
    BY <1>1, <1>2, <2>4, <2>5
  <2>7. <<n, m>> \in spots /\ placeAt(<<n, m>>) = k
    BY <1>3, <2>2, <2>4, <2>6
  <2> QED
    BY <2>7
<1>8. \A s, t \in spots : /\ placeAt(t) < placeAt(s) <=> t[1] < s[1] \/ (t[1] = s[1] /\ t[2] < s[2])
                          /\ placeAt(t) = placeAt(s) => t = s
  <2> SUFFICES ASSUME NEW s \in spots, NEW t \in spots
               PROVE  /\ placeAt(t) < placeAt(s) <=> t[1] < s[1] \/ (t[1] = s[1] /\ t[2] < s[2])
                      /\ placeAt(t) = placeAt(s) => t = s
    OBVIOUS
  <2>1. /\ s[1] \in Nat \ {0} /\ s[2] \in 1 .. PerPage
        /\ t[1] \in Nat \ {0} /\ t[2] \in 1 .. PerPage
    BY <1>6
  <2>2. t[1] = s[1] /\ t[2] = s[2] => t = s
    <3>1. s = <<s[1], s[2]>> /\ t = <<t[1], t[2]>>
      BY <1>3
    <3> QED
      BY <3>1
  <2>3. /\ (t[1] - 1) * PerPage + t[2] < (s[1] - 1) * PerPage + s[2]
              <=> t[1] < s[1] \/ (t[1] = s[1] /\ t[2] < s[2])
        /\ (t[1] - 1) * PerPage + t[2] = (s[1] - 1) * PerPage + s[2]
              => t[1] = s[1] /\ t[2] = s[2]
    <3> DEFINE a == t[1]  b == t[2]  c == s[1]  d == s[2]
    <3>1. PerPage \in Nat \ {0} /\ a \in Nat \ {0} /\ b \in 1 .. PerPage
          /\ c \in Nat \ {0} /\ d \in 1 .. PerPage
      BY <1>1, <2>1
    <3> HIDE DEF a, b, c, d
    <3>2. InOrder(PerPage, a, b, c, d)
      BY <3>1, PlacesOrdered
    <3> QED
      BY <3>2 DEF InOrder, a, b, c, d
  <2> QED
    BY <2>2, <2>3
<1> HIDE DEF spots, placeAt, size
<1> DEFINE f == [k \in 1 .. size |-> CHOOSE s \in spots : placeAt(s) = k]
<1>9. f \in [1 .. size -> spots] /\ \A k \in 1 .. size : placeAt(f[k]) = k
  BY <1>7
<1>10. \A s \in spots : placeAt(s) \in 1 .. size /\ f[placeAt(s)] = s
  <2> SUFFICES ASSUME NEW s \in spots
               PROVE  placeAt(s) \in 1 .. size /\ f[placeAt(s)] = s
    OBVIOUS
  <2>1. placeAt(s) \in 1 .. size
    BY <1>6
  <2>2. f[placeAt(s)] \in spots /\ placeAt(f[placeAt(s)]) = placeAt(s)
    BY <1>9, <2>1
  <2> QED
    BY <1>8, <2>1, <2>2
<1> HIDE DEF f
<1>11. Cardinality(spots) = size
  <2>1. \A k, m \in 1 .. size : f[k] = f[m] => k = m
    BY <1>9
  <2>2. \A s \in spots : \E k \in 1 .. size : f[k] = s
    BY <1>10
  <2> QED
    BY <1>4, <1>9, <2>1, <2>2, Numbered
<1>12. ASSUME NEW s \in spots
       PROVE  Cardinality(SpotsAbove(list, s)) = placeAt(s) - 1
  <2> DEFINE g == [k \in 1 .. placeAt(s) - 1 |-> f[k]]
             above == SpotsAbove(list, s)
  <2>1. placeAt(s) \in Nat /\ placeAt(s) - 1 \in Nat /\ 1 .. placeAt(s) - 1 \subseteq 1 .. size
    BY <1>4, <1>10
  <2>2. \A t : t \in above <=> t \in spots /\ placeAt(t) < placeAt(s)
    BY <1>8 DEF SpotsAbove, spots
  <2>3. g \in [1 .. placeAt(s) - 1 -> above]
    <3> SUFFICES ASSUME NEW k \in 1 .. placeAt(s) - 1
                 PROVE  f[k] \in above
      OBVIOUS
    <3>1. k \in 1 .. size /\ k < placeAt(s)
      BY <2>1
    <3>2. f[k] \in spots /\ placeAt(f[k]) = k
      BY <1>9, <3>1
    <3> QED
      BY <2>2, <3>1, <3>2
  <2>4. \A k, m \in 1 .. placeAt(s) - 1 : g[k] = g[m] => k = m
    BY <1>9, <2>1
  <2>5. ASSUME NEW t \in above
        PROVE  \E k \in 1 .. placeAt(s) - 1 : g[k] = t
    <3>1. t \in spots /\ placeAt(t) < placeAt(s) /\ placeAt(t) \in 1 .. size /\ f[placeAt(t)] = t
      BY <1>10, <2>2
    <3>2. placeAt(t) \in 1 .. placeAt(s) - 1
      BY <1>4, <2>1, <3>1
    <3> QED
      BY <3>1, <3>2
  <2> HIDE DEF g, above
  <2>6. Cardinality(above) = placeAt(s) - 1
    BY <2>1, <2>3, <2>4, <2>5, Numbered
  <2> QED
    BY <2>6 DEF above
<1>13. ASSUME NEW k \in 1 .. size
       PROVE  (CHOOSE s \in spots : Cardinality(SpotsAbove(list, s)) = k - 1) = f[k]
  <2>1. \A s \in spots : Cardinality(SpotsAbove(list, s)) = k - 1 <=> s = f[k]
    <3> SUFFICES ASSUME NEW s \in spots
                 PROVE  Cardinality(SpotsAbove(list, s)) = k - 1 <=> s = f[k]
      OBVIOUS
    <3>1. placeAt(s) \in Nat /\ k \in Nat /\ f[k] \in spots /\ placeAt(f[k]) = k
      BY <1>4, <1>9, <1>10
    <3>2. placeAt(s) - 1 = k - 1 <=> placeAt(s) = k
      BY <3>1
    <3>3. placeAt(s) = k <=> s = f[k]
      BY <1>8, <3>1
    <3> QED
      BY <1>12, <3>2, <3>3
  <2>2. f[k] \in spots
    BY <1>9
  <2> QED
    BY <2>1, <2>2
<1> DEFINE rowsOf == [k \in 1 .. size |-> list[f[k][1]].rows[f[k][2]]]
<1>14. Rows(list) = rowsOf
  <2>1. Rows(list) = [k \in 1 .. Cardinality(spots) |->
          list[(CHOOSE s \in spots : Cardinality(SpotsAbove(list, s)) = k - 1)[1]].rows
            [(CHOOSE s \in spots : Cardinality(SpotsAbove(list, s)) = k - 1)[2]]]
    BY DEF Rows, spots
  <2> QED
    BY <1>11, <1>13, <2>1
<1>15. ASSUME NEW k \in 1 .. size
       PROVE  /\ rowsOf[k] \in S
              /\ \E n \in DOMAIN list : \E m \in DOMAIN list[n].rows :
                   k = (n - 1) * PerPage + m /\ rowsOf[k] = list[n].rows[m]
  <2>1. f[k] \in spots /\ placeAt(f[k]) = k
    BY <1>9
  <2>2. f[k][1] \in DOMAIN list /\ f[k][2] \in DOMAIN list[f[k][1]].rows
    BY <1>1, <1>6, <2>1
  <2>3. k = (f[k][1] - 1) * PerPage + f[k][2]
    BY <2>1 DEF placeAt
  <2>4. rowsOf[k] = list[f[k][1]].rows[f[k][2]]
    OBVIOUS
  <2>5. rowsOf[k] \in S
    <3>1. \A n \in DOMAIN list : \A m \in DOMAIN list[n].rows : list[n].rows[m] \in S
      BY <1>1
    <3> QED
      BY <2>2, <2>4, <3>1
  <2> QED
    BY <2>2, <2>3, <2>4, <2>5
<1>16. DOMAIN rowsOf = 1 .. size /\ rowsOf \in Seq(S)
  <2>1. DOMAIN rowsOf = 1 .. size /\ \A k \in 1 .. size : rowsOf[k] \in S
    BY <1>15
  <2> HIDE DEF rowsOf
  <2>2. rowsOf = [k \in 1 .. size |-> rowsOf[k]]
    BY DEF rowsOf
  <2>3. [k \in 1 .. size |-> rowsOf[k]] \in Seq(S)
    BY <1>4, <2>1
  <2> QED
    BY <2>1, <2>2, <2>3
<1> HIDE DEF rowsOf
<1>17. size = (Len(list) - 1) * PerPage + Len(list[Len(list)].rows)
  BY DEF size, last
<1>18. /\ size \in Nat /\ DOMAIN Rows(list) = 1 .. size /\ Rows(list) \in Seq(S)
       /\ \A k \in 1 .. size : \E n \in DOMAIN list : \E m \in DOMAIN list[n].rows :
            k = (n - 1) * PerPage + m /\ Rows(list)[k] = list[n].rows[m]
  BY <1>4, <1>14, <1>15, <1>16
<1> HIDE DEF size
<1> QED
  BY <1>17, <1>18

Page == [rows: Seq(Nat), total: Nat, at: Nat]

\* Page n of the products `all', read at change v of the catalog.
PageIn(all, v, n) ==
  [rows |-> SubSeq(all, (n - 1) * PerPage + 1, IF n * PerPage > Len(all) THEN Len(all) ELSE n * PerPage),
   total |-> Len(all), at |-> v]

\* Page n has products of `finds', and is full if there are as many.
PageFits(finds, n, page) ==
  /\ \A m \in DOMAIN page.rows : page.rows[m] \in finds
  /\ Len(page.rows) <= PerPage
  /\ n * PerPage <= page.total => Len(page.rows) = PerPage

\* The pages of one search: what was read of the catalog as it is now is what is
\* there, and a page was asked for after another only when that one said so.
PagesOk(finds, all, v, list) ==
  /\ list \in Seq(Page)
  /\ \A n \in DOMAIN list :
       /\ PageFits(finds, n, list[n])
       /\ list[n].at <= v
       /\ list[n].at = v => list[n] = PageIn(all, v, n)
       /\ n < Len(list) => n * PerPage < list[n].total

\* A piece of a list.
LEMMA Cut ==
  ASSUME NEW S, NEW list \in Seq(S), NEW a \in Nat \ {0}, NEW b \in Nat, b <= Len(list)
  PROVE  /\ SubSeq(list, a, b) \in Seq(S)
         /\ Len(SubSeq(list, a, b)) = IF a <= b THEN b - a + 1 ELSE 0
         /\ \A i \in 1 .. Len(SubSeq(list, a, b)) : SubSeq(list, a, b)[i] = list[a + i - 1]
<1>1. SubSeq(list, a, b) \in Seq(S)
  OBVIOUS
<1>2. CASE a <= b
  <2>1. Len(SubSeq(list, a, b)) = b - a + 1
    BY <1>2
  <2>2. \A i \in 1 .. Len(SubSeq(list, a, b)) : SubSeq(list, a, b)[i] = list[a + i - 1]
    BY <1>2
  <2> QED
    BY <1>1, <1>2, <2>1, <2>2
<1>3. CASE a > b
  <2>1. Len(SubSeq(list, a, b)) = 0
    BY <1>3
  <2> QED
    BY <1>1, <1>3, <2>1
<1> QED
  BY <1>2, <1>3

\* Row m of page n is the product in its place.
LEMMA PageHasItsRows ==
  ASSUME NEW all \in Seq(Nat), NEW v \in Nat, NEW n \in Nat \ {0}
  PROVE  /\ PageIn(all, v, n) \in Page
         /\ PageIn(all, v, n).total = Len(all) /\ PageIn(all, v, n).at = v
         /\ Len(PageIn(all, v, n).rows) <= PerPage
         /\ n * PerPage <= Len(all) => Len(PageIn(all, v, n).rows) = PerPage
         /\ (n - 1) * PerPage <= Len(all) /\ Len(all) < n * PerPage =>
              (n - 1) * PerPage + Len(PageIn(all, v, n).rows) = Len(all)
         /\ \A m \in DOMAIN PageIn(all, v, n).rows :
              /\ (n - 1) * PerPage + m \in DOMAIN all
              /\ PageIn(all, v, n).rows[m] = all[(n - 1) * PerPage + m]
<1> DEFINE start == (n - 1) * PerPage
           stop == IF n * PerPage > Len(all) THEN Len(all) ELSE n * PerPage
           rows == SubSeq(all, start + 1, stop)
           page == PageIn(all, v, n)
<1>1. PerPage \in Nat \ {0} /\ start \in Nat /\ n * PerPage \in Nat /\ n * PerPage = start + PerPage
  BY OneMore, CatalogAssumption
<1>2. Len(all) \in Nat /\ DOMAIN all = 1 .. Len(all)
  OBVIOUS
<1> DEFINE end == n * PerPage
<1>0. page = [rows |-> rows, total |-> Len(all), at |-> v]
  BY DEF PageIn
<1>3. stop = (IF end > Len(all) THEN Len(all) ELSE end) /\ end \in Nat /\ end = start + PerPage
  BY <1>1
<1> HIDE DEF start, stop, end, page
<1>4. stop \in Nat /\ stop <= Len(all) /\ start + 1 \in Nat \ {0}
  BY <1>1, <1>2, <1>3
<1>5. /\ rows \in Seq(Nat)
      /\ Len(rows) = IF start + 1 <= stop THEN stop - (start + 1) + 1 ELSE 0
      /\ \A i \in 1 .. Len(rows) : rows[i] = all[start + 1 + i - 1]
  BY <1>4, Cut
<1> HIDE DEF rows
<1>6. Len(rows) = IF start < stop THEN stop - start ELSE 0
  BY <1>1, <1>4, <1>5
<1>7. /\ Len(rows) <= PerPage
      /\ end <= Len(all) => Len(rows) = PerPage
      /\ start <= Len(all) /\ Len(all) < end => start + Len(rows) = Len(all)
  <2>1. PerPage \in Nat /\ start \in Nat /\ end \in Nat /\ end = start + PerPage
    BY <1>1, <1>3
  <2> DEFINE size == Len(all)
             length == Len(rows)
  <2>2. /\ size \in Nat /\ stop = (IF end > size THEN size ELSE end)
        /\ length = IF start < stop THEN stop - start ELSE 0
    BY <1>2, <1>3, <1>6
  <2> HIDE DEF size, length
  <2>3. /\ length <= PerPage
        /\ end <= size => length = PerPage
        /\ start <= size /\ size < end => start + length = size
    BY <2>1, <2>2, CatalogAssumption
  <2> QED
    BY <2>3 DEF size, length
<1>8. \A m \in DOMAIN rows : start + m \in DOMAIN all /\ rows[m] = all[start + m]
  <2> SUFFICES ASSUME NEW m \in DOMAIN rows
               PROVE  start + m \in DOMAIN all /\ rows[m] = all[start + m]
    OBVIOUS
  <2>1. m \in 1 .. Len(rows) /\ Len(rows) \in Nat
    BY <1>5
  <2>2. start + m \in DOMAIN all /\ start + 1 + m - 1 = start + m
    BY <1>1, <1>2, <1>4, <1>6, <2>1
  <2> QED
    BY <1>5, <2>1, <2>2
<1>9. page \in Page
  BY <1>0, <1>2, <1>5 DEF Page
<1>10. page.rows = rows /\ page.total = Len(all) /\ page.at = v
  BY <1>0
<1>11. /\ page \in Page
       /\ page.total = Len(all) /\ page.at = v
       /\ Len(page.rows) <= PerPage
       /\ end <= Len(all) => Len(page.rows) = PerPage
       /\ start <= Len(all) /\ Len(all) < end => start + Len(page.rows) = Len(all)
       /\ \A m \in DOMAIN page.rows : start + m \in DOMAIN all /\ page.rows[m] = all[start + m]
  BY <1>7, <1>8, <1>9, <1>10
<1> QED
  BY <1>11 DEF start, end, page

LEMMA NoPagesAreOk ==
  ASSUME NEW finds, NEW all, NEW v PROVE PagesOk(finds, all, v, <<>>)
BY DEF PagesOk

\* A change of the catalog leaves nothing that was read of it as it is.
LEMMA PagesAge ==
  ASSUME NEW finds, NEW all, NEW other, NEW v \in Nat, NEW list, PagesOk(finds, all, v, list)
  PROVE  PagesOk(finds, other, v + 1, list)
<1>1. list \in Seq(Page) /\ \A n \in DOMAIN list : list[n] \in Page
  BY DEF PagesOk
<1>2. \A n \in DOMAIN list : list[n].at \in Nat
  BY <1>1 DEF Page
<1> SUFFICES ASSUME NEW n \in DOMAIN list
             PROVE  /\ PageFits(finds, n, list[n])
                    /\ list[n].at <= v + 1
                    /\ list[n].at = v + 1 => list[n] = PageIn(other, v + 1, n)
                    /\ n < Len(list) => n * PerPage < list[n].total
  BY <1>1 DEF PagesOk
<1>3. /\ PageFits(finds, n, list[n]) /\ list[n].at <= v
      /\ n < Len(list) => n * PerPage < list[n].total
  BY DEF PagesOk
<1>4. list[n].at <= v + 1 /\ list[n].at # v + 1
  BY <1>2, <1>3
<1> QED
  BY <1>3, <1>4

\* The next page of the catalog as it is.
LEMMA PageIsAdded ==
  ASSUME NEW finds, NEW all \in Seq(Nat), NEW v \in Nat, NEW list, PagesOk(finds, all, v, list),
         \A i \in DOMAIN all : all[i] \in finds,
         list # <<>> => HasNext(list)
  PROVE  /\ PagesOk(finds, all, v, Append(list, PageIn(all, v, Len(list) + 1)))
         /\ Append(list, PageIn(all, v, Len(list) + 1)) # <<>>
<1> DEFINE last == Len(list)
           page == PageIn(all, v, last + 1)
           longer == Append(list, page)
<1>1. list \in Seq(Page) /\ last \in Nat /\ DOMAIN list = 1 .. last
  BY DEF PagesOk
<1>2. /\ page \in Page /\ page.total = Len(all) /\ page.at = v
      /\ Len(page.rows) <= PerPage
      /\ (last + 1) * PerPage <= Len(all) => Len(page.rows) = PerPage
  BY <1>1, PageHasItsRows
<1>3. \A m \in DOMAIN page.rows : page.rows[m] \in finds
  <2>1. last + 1 \in Nat \ {0}
    BY <1>1
  <2>2. \A m \in DOMAIN page.rows :
          (last + 1 - 1) * PerPage + m \in DOMAIN all /\ page.rows[m] = all[(last + 1 - 1) * PerPage + m]
    BY <2>1, PageHasItsRows
  <2> QED
    BY <2>2
<1>4. PageFits(finds, last + 1, page)
  BY <1>2, <1>3 DEF PageFits
<1>5. page = PageIn(all, v, last + 1)
  OBVIOUS
<1> HIDE DEF page
<1>6. /\ longer \in Seq(Page) /\ Len(longer) = last + 1 /\ DOMAIN longer = 1 .. last + 1
      /\ longer[last + 1] = page /\ \A n \in 1 .. last : longer[n] = list[n]
  BY <1>1, <1>2
<1>7. last # 0 => last * PerPage < list[last].total
  BY <1>1 DEF HasNext
<1>8. \A n \in 1 .. last : /\ PageFits(finds, n, list[n])
                           /\ list[n].at <= v
                           /\ list[n].at = v => list[n] = PageIn(all, v, n)
                           /\ n < last => n * PerPage < list[n].total
  BY <1>1 DEF PagesOk
<1> HIDE DEF last, longer
<1>9. ASSUME NEW n \in DOMAIN longer
      PROVE  /\ PageFits(finds, n, longer[n])
             /\ longer[n].at <= v
             /\ longer[n].at = v => longer[n] = PageIn(all, v, n)
             /\ n < Len(longer) => n * PerPage < longer[n].total
  <2>1. CASE n = last + 1
    <3>1. v <= v /\ ~(n < Len(longer))
      BY <1>1, <1>6, <2>1
    <3> QED
      BY <1>2, <1>4, <1>5, <1>6, <2>1, <3>1
  <2>2. CASE n # last + 1
    <3>1. n \in 1 .. last /\ longer[n] = list[n]
      BY <1>1, <1>6, <2>2
    <3>2. n < last \/ (n = last /\ last # 0)
      BY <1>1, <3>1
    <3>3. n * PerPage < longer[n].total
      BY <1>7, <1>8, <3>1, <3>2
    <3> QED
      BY <1>8, <3>1, <3>3
  <2> QED
    BY <2>1, <2>2
<1>10. longer # <<>>
  BY <1>1, <1>6
<1>11. PagesOk(finds, all, v, longer)
  BY <1>6, <1>9 DEF PagesOk
<1> QED
  BY <1>5, <1>10, <1>11 DEF longer, last

LEMMA PagesAreFull ==
  ASSUME NEW finds, NEW all, NEW v, NEW list, PagesOk(finds, all, v, list)
  PROVE  Full(list)
<1>1. list \in Seq(Page) /\ DOMAIN list = 1 .. Len(list) /\ \A n \in DOMAIN list : list[n].total \in Nat
  <2>1. list \in Seq(Page)
    BY DEF PagesOk
  <2>2. DOMAIN list = 1 .. Len(list) /\ \A n \in DOMAIN list : list[n] \in Page
    BY <2>1
  <2> QED
    BY <2>1, <2>2 DEF Page
<1> SUFFICES ASSUME NEW n \in DOMAIN list
             PROVE  /\ Len(list[n].rows) <= PerPage
                    /\ n < Len(list) => Len(list[n].rows) = PerPage
  BY DEF Full
<1>2. /\ Len(list[n].rows) <= PerPage
      /\ n * PerPage <= list[n].total => Len(list[n].rows) = PerPage
      /\ n < Len(list) => n * PerPage < list[n].total
  BY DEF PagesOk, PageFits
<1>3. n \in Nat \ {0} /\ list[n].total \in Nat /\ n * PerPage \in Nat
  BY <1>1, OneMore, CatalogAssumption
<1>4. n * PerPage < list[n].total => n * PerPage <= list[n].total
  BY <1>3
<1> QED
  BY <1>2, <1>4

\* Pages that were all read of the catalog as it is have its products from the
\* first on, and the last of them says whether there are more.
LEMMA PagesFollowTheCatalog ==
  ASSUME NEW finds, NEW all \in Seq(Nat), NEW v \in Nat, NEW list, PagesOk(finds, all, v, list),
         list # <<>>, \A n \in DOMAIN list : list[n].at = v
  PROVE  /\ Rows(list) = SubSeq(all, 1, Len(Rows(list)))
         /\ HasNext(list) /\ Len(Rows(list)) < list[Len(list)].total <=> Len(Rows(list)) < Len(all)
<1> DEFINE last == Len(list)
           many == Len(all)
           start == (last - 1) * PerPage
           end == last * PerPage
           short == Len(list[last].rows)
           size == start + short
           rows == Rows(list)
<1>1. list \in Seq(Page) /\ last \in Nat \ {0} /\ DOMAIN list = 1 .. last
  <2>1. list \in Seq(Page)
    BY DEF PagesOk
  <2> QED
    BY <2>1
<1>2. \A n \in 1 .. last : list[n] = PageIn(all, v, n) /\ (n < last => n * PerPage < list[n].total)
  BY <1>1 DEF PagesOk
<1>3. many \in Nat /\ PerPage \in Nat \ {0}
  BY CatalogAssumption
<1>4. start \in Nat /\ end \in Nat /\ end = start + PerPage
  BY <1>1, <1>3, OneMore
<1>5. /\ list[last].total = many
      /\ end <= many => short = PerPage
      /\ start <= many /\ many < end => start + short = many
  <2>1. list[last] = PageIn(all, v, last) /\ last \in Nat \ {0}
    <3>1. last \in Nat \ {0} /\ \A n \in 1 .. last : list[n] = PageIn(all, v, n)
      BY <1>1, <1>2
    <3> HIDE DEF last
    <3>2. last \in 1 .. last
      BY <3>1
    <3> QED
      BY <3>1, <3>2, ZenonT(40)
  <2>2. /\ PageIn(all, v, last).total = Len(all)
        /\ last * PerPage <= Len(all) => Len(PageIn(all, v, last).rows) = PerPage
        /\ (last - 1) * PerPage <= Len(all) /\ Len(all) < last * PerPage =>
             (last - 1) * PerPage + Len(PageIn(all, v, last).rows) = Len(all)
    <3> HIDE DEF last
    <3> QED
      BY <2>1, PageHasItsRows
  <2> QED
    BY <2>1, <2>2
<1>6. start <= many
  <2>1. CASE last = 1
    BY <1>3, <2>1
  <2>2. CASE last # 1
    <3>1. last - 1 \in Nat \ {0} /\ last - 1 \in 1 .. last /\ last - 1 < last
      BY <1>1, <2>2
    <3>2. (last - 1) * PerPage < list[last - 1].total
      BY <1>2, <3>1
    <3>3. list[last - 1].total = many
      <4>1. list[last - 1] = PageIn(all, v, last - 1)
        BY <1>2, <3>1
      <4> HIDE DEF last
      <4>2. PageIn(all, v, last - 1).total = Len(all)
        BY <3>1, PageHasItsRows
      <4> QED
        BY <4>1, <4>2
    <3> QED
      BY <1>3, <1>4, <3>2, <3>3
  <2> QED
    BY <2>1, <2>2
<1>7. /\ size \in Nat /\ DOMAIN rows = 1 .. size /\ rows \in Seq(Nat)
      /\ \A k \in 1 .. size : \E n \in DOMAIN list : \E m \in DOMAIN list[n].rows :
           k = (n - 1) * PerPage + m /\ rows[k] = list[n].rows[m]
  <2>1. Full(list)
    BY PagesAreFull
  <2>2. list \in Seq([rows: Seq(Nat), total: Nat, at: Nat])
    BY <1>1 DEF Page
  <2> QED
    BY <2>1, <2>2, RowsInOrder
<1>8. HasNext(list) <=> end < many
  BY <1>5 DEF HasNext
<1>9. \A k \in 1 .. size : rows[k] = all[k]
  <2> SUFFICES ASSUME NEW k \in 1 .. size
               PROVE  rows[k] = all[k]
    OBVIOUS
  <2>1. PICK n \in DOMAIN list : \E m \in DOMAIN list[n].rows :
          k = (n - 1) * PerPage + m /\ rows[k] = list[n].rows[m]
    BY <1>7
  <2>2. PICK m \in DOMAIN list[n].rows : k = (n - 1) * PerPage + m /\ rows[k] = list[n].rows[m]
    BY <2>1
  <2>3. n \in Nat \ {0} /\ list[n] = PageIn(all, v, n)
    BY <1>1, <1>2
  <2>4. list[n].rows[m] = all[(n - 1) * PerPage + m]
    BY <2>3, PageHasItsRows
  <2> QED
    BY <2>2, <2>4
<1>10. short \in Nat
  <2>1. list[last] \in Page
    BY <1>1
  <2> QED
    BY <2>1 DEF Page
<1>11. size = start + short
  OBVIOUS
<1> HIDE DEF many, start, end, short, size
<1>12. size <= many /\ (end < many /\ size < many <=> size < many)
  BY <1>3, <1>4, <1>5, <1>6, <1>10, <1>11
<1> HIDE DEF rows
<1>13. Len(rows) = size
  BY <1>7
<1>14. rows = SubSeq(all, 1, size)
  <2>1. /\ SubSeq(all, 1, size) \in Seq(Nat)
        /\ Len(SubSeq(all, 1, size)) = IF 1 <= size THEN size - 1 + 1 ELSE 0
        /\ \A i \in 1 .. Len(SubSeq(all, 1, size)) : SubSeq(all, 1, size)[i] = all[1 + i - 1]
    BY <1>7, <1>12, Cut DEF many
  <2> DEFINE cut == SubSeq(all, 1, size)
  <2>2. Len(cut) = size
    BY <1>7, <2>1
  <2>3. \A i \in 1 .. size : cut[i] = all[i]
    BY <1>7, <2>1, <2>2
  <2>4. cut \in Seq(Nat)
    BY <2>1
  <2> HIDE DEF cut
  <2>5. \A i \in 1 .. size : rows[i] = cut[i]
    BY <1>9, <2>3
  <2>6. rows = cut
    BY <1>7, <1>13, <2>2, <2>4, <2>5
  <2> QED
    BY <2>6 DEF cut
<1>15. /\ rows = SubSeq(all, 1, Len(rows))
       /\ HasNext(list) /\ Len(rows) < list[last].total <=> Len(rows) < many
  BY <1>5, <1>8, <1>12, <1>13, <1>14
<1> QED
  BY <1>15 DEF rows, last, many

\* What is listed was found.
LEMMA RowsAreFound ==
  ASSUME NEW finds, NEW all, NEW v, NEW list, PagesOk(finds, all, v, list), list # <<>>
  PROVE  \A i \in DOMAIN Rows(list) : Rows(list)[i] \in finds
<1>1. list \in Seq(Page)
  BY DEF PagesOk
<1>2. Full(list) /\ list \in Seq([rows: Seq(Nat), total: Nat, at: Nat])
  BY <1>1, PagesAreFull DEF Page
<1> DEFINE size == (Len(list) - 1) * PerPage + Len(list[Len(list)].rows)
<1>3. /\ size \in Nat /\ DOMAIN Rows(list) = 1 .. size /\ Rows(list) \in Seq(Nat)
      /\ \A k \in 1 .. size : \E n \in DOMAIN list : \E m \in DOMAIN list[n].rows :
           k = (n - 1) * PerPage + m /\ Rows(list)[k] = list[n].rows[m]
  BY <1>2, RowsInOrder
<1>4. \A n \in DOMAIN list : \A m \in DOMAIN list[n].rows : list[n].rows[m] \in finds
  BY DEF PagesOk, PageFits
<1> HIDE DEF size
<1> QED
  BY <1>3, <1>4

ListTyped ==
  /\ catalog \in Seq(Nat) /\ version \in Nat
  /\ typed \in Searches \cup {Nothing} /\ query \in Searches \cup {Nothing}
  /\ typed = Nothing => query = Nothing
  /\ found \in [Searches -> [known: BOOLEAN, failed: BOOLEAN, pages: Seq(Page)]]
  /\ fetching \in [Searches -> [kind: {"none", "all", "next"}, pages: Seq(Page), goal: Nat]]

\* The pages of a search, those in the cache and those of its request, are right;
\* what is known has a page, and a request goes on only after a page with a next one.
SearchOk(finds, all, v, had, request) ==
  /\ PagesOk(finds, all, v, had.pages)
  /\ PagesOk(finds, all, v, request.pages)
  /\ had.known => had.pages # <<>>
  /\ request.kind # "none" /\ request.pages # <<>> => HasNext(request.pages)

SearchesAreRight ==
  \A t \in Searches : SearchOk(Finds[t], Matching(t), version, found[t], fetching[t])

ListInvariant == ListTyped /\ SearchesAreRight

LEMMA MatchingIsFound ==
  ASSUME NEW t, ListTyped
  PROVE  /\ Matching(t) \in Seq(Nat)
         /\ \A i \in DOMAIN Matching(t) : Matching(t)[i] \in Finds[t]
<1>1. catalog \in Seq(Nat)
  BY DEF ListTyped
<1>2. Filtered(catalog, Finds[t]) \in Seq(Nat \intersect Finds[t])
  BY <1>1, FilteredList
<1> DEFINE all == Filtered(catalog, Finds[t])
<1> HIDE DEF all
<1>3. all \in Seq(Nat \intersect Finds[t])
  BY <1>2 DEF all
<1>4. all \in Seq(Nat) /\ \A i \in DOMAIN all : all[i] \in Finds[t]
  BY <1>3
<1> QED
  BY <1>4 DEF all, Matching

LEMMA PageOfIs ==
  ASSUME NEW t, NEW n PROVE PageOf(t, n) = PageIn(Matching(t), version, n)
BY DEF PageOf, PageIn

\* The request of one search is another, or its cached pages are.
LEMMA SearchMoves ==
  ASSUME ListInvariant, UNCHANGED <<catalog, version, typed, query>>,
         NEW t \in Searches, NEW c \in [known: BOOLEAN, failed: BOOLEAN, pages: Seq(Page)],
         NEW r \in [kind: {"none", "all", "next"}, pages: Seq(Page), goal: Nat],
         found' = [found EXCEPT ![t] = c], fetching' = [fetching EXCEPT ![t] = r],
         SearchOk(Finds[t], Matching(t), version, c, r)
  PROVE  ListInvariant'
<1>1. ListTyped /\ SearchesAreRight
  BY DEF ListInvariant
<1>2. /\ found' \in [Searches -> [known: BOOLEAN, failed: BOOLEAN, pages: Seq(Page)]]
      /\ fetching' \in [Searches -> [kind: {"none", "all", "next"}, pages: Seq(Page), goal: Nat]]
  BY <1>1 DEF ListTyped
<1>3. /\ found'[t] = c /\ fetching'[t] = r
      /\ \A s \in Searches \ {t} : found'[s] = found[s] /\ fetching'[s] = fetching[s]
  BY <1>1 DEF ListTyped
<1>4. \A s : Matching(s)' = Matching(s)
  BY DEF Matching, Filtered
<1>5. ListTyped'
  BY <1>1, <1>2 DEF ListTyped
<1>6. ASSUME NEW s \in Searches
      PROVE  SearchOk(Finds[s], Matching(s), version, found'[s], fetching'[s])
  <2>1. CASE s = t
    BY <1>3, <2>1
  <2>2. CASE s # t
    BY <1>1, <1>3, <2>2 DEF SearchesAreRight
  <2> QED
    BY <2>1, <2>2
<1>7. \A s \in Searches : SearchOk(Finds[s], Matching(s)', version', found'[s], fetching'[s])
  BY <1>4, <1>6
<1>8. SearchesAreRight'
  BY <1>7 DEF SearchesAreRight
<1> QED
  BY <1>5, <1>8 DEF ListInvariant

\* A search that is typed, its request begun anew.
LEMMA FetchAllKeeps ==
  ASSUME ListInvariant, NEW t \in Searches, FetchAll(t)
  PROVE  /\ fetching' \in [Searches -> [kind: {"none", "all", "next"}, pages: Seq(Page), goal: Nat]]
         /\ \A s \in Searches : SearchOk(Finds[s], Matching(s), version, found[s], fetching'[s])
<1>1. ListTyped /\ SearchesAreRight
  BY DEF ListInvariant
<1>2. CASE UNCHANGED fetching
  BY <1>1, <1>2 DEF ListTyped, SearchesAreRight
<1> DEFINE r == [kind |-> "all", pages |-> <<>>,
                 goal |-> IF found[t].pages = <<>> THEN 1 ELSE Len(found[t].pages)]
<1>3. CASE fetching' = [fetching EXCEPT ![t] = r]
  <2>1. found[t].pages \in Seq(Page)
    BY <1>1 DEF ListTyped
  <2>2. r \in [kind: {"none", "all", "next"}, pages: Seq(Page), goal: Nat]
    BY <2>1
  <2>3. r.pages = <<>>
    OBVIOUS
  <2> HIDE DEF r
  <2>4. /\ fetching' \in [Searches -> [kind: {"none", "all", "next"}, pages: Seq(Page), goal: Nat]]
        /\ fetching'[t] = r /\ \A s \in Searches \ {t} : fetching'[s] = fetching[s]
    BY <1>1, <1>3, <2>2 DEF ListTyped
  <2>5. SearchOk(Finds[t], Matching(t), version, found[t], r)
    BY <1>1, <2>3, NoPagesAreOk DEF SearchesAreRight, SearchOk
  <2>6. \A s \in Searches : SearchOk(Finds[s], Matching(s), version, found[s], fetching'[s])
    BY <1>1, <2>4, <2>5 DEF SearchesAreRight
  <2> QED
    BY <2>4, <2>6
<1> QED
  BY <1>2, <1>3 DEF FetchAll, SearchKey

LEMMA SearchStepKeeps ==
  ASSUME ListInvariant, UNCHANGED <<catalog, version, found>>,
         typed' \in Searches \cup {Nothing}, query' \in Searches \cup {Nothing},
         typed' = Nothing => query' = Nothing,
         UNCHANGED fetching \/ \E t \in Searches : FetchAll(t)
  PROVE  ListInvariant'
<1>1. ListTyped /\ SearchesAreRight
  BY DEF ListInvariant
<1>2. /\ fetching' \in [Searches -> [kind: {"none", "all", "next"}, pages: Seq(Page), goal: Nat]]
      /\ \A s \in Searches : SearchOk(Finds[s], Matching(s), version, found[s], fetching'[s])
  <2>1. CASE UNCHANGED fetching
    BY <1>1, <2>1 DEF ListTyped, SearchesAreRight
  <2>2. CASE \E t \in Searches : FetchAll(t)
    BY <2>2, FetchAllKeeps
  <2> QED
    BY <2>1, <2>2
<1>3. \A s : Matching(s)' = Matching(s)
  BY DEF Matching, Filtered
<1>4. ListTyped'
  BY <1>1, <1>2 DEF ListTyped
<1>5. SearchesAreRight'
  BY <1>2, <1>3 DEF SearchesAreRight
<1> QED
  BY <1>4, <1>5 DEF ListInvariant

LEMMA CatalogStepKeeps == ListInvariant /\ CatalogStep => ListInvariant'
<1> SUFFICES ASSUME ListInvariant, CatalogStep PROVE ListInvariant'
  OBVIOUS
<1>0. ListTyped /\ SearchesAreRight
  BY DEF ListInvariant
<1>1. CASE CatalogMoves
  <2>1. version' = version + 1 /\ UNCHANGED <<typed, query, found, fetching>>
    BY <1>1 DEF CatalogMoves
  <2>2. catalog' \in Seq(Nat)
    <3>1. catalog \in Seq(Nat)
      BY <1>0 DEF ListTyped
    <3>2. CASE \E p \in Ids : catalog' = <<p>> \o catalog
      <4>1. PICK p \in Ids : catalog' = <<p>> \o catalog
        BY <3>2
      <4>2. p \in Nat
        BY CatalogAssumption DEF Ids
      <4>3. <<p>> \in Seq(Nat)
        BY <4>2
      <4> QED
        BY <3>1, <4>1, <4>3
    <3>3. CASE \E p \in InCatalog : catalog' = Filtered(catalog, InCatalog \ {p})
      <4>1. PICK p \in InCatalog : catalog' = Filtered(catalog, InCatalog \ {p})
        BY <3>3
      <4> DEFINE rest == Nat \intersect (InCatalog \ {p})
      <4>2. catalog' \in Seq(rest)
        BY <3>1, <4>1, FilteredList
      <4>3. \A q \in rest : q \in Nat
        OBVIOUS
      <4> HIDE DEF rest
      <4> QED
        BY <4>2, <4>3
    <3> QED
      BY <1>1, <3>2, <3>3 DEF CatalogMoves
  <2>3. ListTyped'
    BY <1>0, <2>1, <2>2 DEF ListTyped
  <2>4. version \in Nat
    BY <1>0 DEF ListTyped
  <2>5. ASSUME NEW t \in Searches, NEW all
        PROVE  SearchOk(Finds[t], all, version + 1, found[t], fetching[t])
    <3>1. SearchOk(Finds[t], Matching(t), version, found[t], fetching[t])
      BY <1>0 DEF SearchesAreRight
    <3>2. /\ PagesOk(Finds[t], Matching(t), version, found[t].pages)
          /\ PagesOk(Finds[t], Matching(t), version, fetching[t].pages)
      BY <3>1 DEF SearchOk
    <3>3. PagesOk(Finds[t], all, version + 1, found[t].pages)
      BY <2>4, <3>2, PagesAge
    <3>4. PagesOk(Finds[t], all, version + 1, fetching[t].pages)
      BY <2>4, <3>2, PagesAge
    <3> QED
      BY <3>1, <3>3, <3>4 DEF SearchOk
  <2>6. SearchesAreRight'
    BY <2>1, <2>5 DEF SearchesAreRight
  <2> QED
    BY <2>3, <2>6 DEF ListInvariant
<1>2. CASE \E t \in Searches \cup {Nothing} : Type(t)
  <2>1. PICK t \in Searches \cup {Nothing} : Type(t)
    BY <1>2
  <2>2. /\ typed' = t /\ query' = (IF t = Nothing THEN Nothing ELSE query)
        /\ UNCHANGED <<catalog, version, found, fetching>>
    BY <2>1 DEF Type
  <2>3. query' \in Searches \cup {Nothing} /\ typed' \in Searches \cup {Nothing}
        /\ (typed' = Nothing => query' = Nothing)
    BY <1>0, <2>2 DEF ListTyped
  <2> QED
    BY <2>2, <2>3, SearchStepKeeps
<1>3. CASE Search
  <2>1. /\ typed \notin {Nothing, query} /\ query' = typed
        /\ UNCHANGED <<catalog, version, typed, found>>
        /\ UNCHANGED fetching \/ FetchAll(typed)
    BY <1>3 DEF Search
  <2>2. typed \in Searches
    BY <1>0, <2>1 DEF ListTyped
  <2>3. query' \in Searches \cup {Nothing} /\ typed' \in Searches \cup {Nothing}
        /\ (typed' = Nothing => query' = Nothing)
    BY <2>1, <2>2
  <2> QED
    BY <2>1, <2>2, <2>3, SearchStepKeeps
<1>4. CASE RefreshList
  <2>1. query # Nothing /\ FetchAll(query) /\ UNCHANGED <<catalog, version, typed, query, found>>
    BY <1>4 DEF RefreshList
  <2>2. query \in Searches
    BY <1>0, <2>1 DEF ListTyped
  <2>3. query' \in Searches \cup {Nothing} /\ typed' \in Searches \cup {Nothing}
        /\ (typed' = Nothing => query' = Nothing)
    BY <1>0, <2>1 DEF ListTyped
  <2> QED
    BY <2>1, <2>2, <2>3, SearchStepKeeps
<1>5. CASE LoadMore
  <2> DEFINE r == [kind |-> "next", pages |-> found[query].pages,
                   goal |-> Len(found[query].pages) + 1]
             c == found[query]
  <2>1. /\ query # Nothing /\ found[query].known /\ HasNext(found[query].pages)
        /\ fetching' = [fetching EXCEPT ![query] = r]
        /\ UNCHANGED <<catalog, version, typed, query, found>>
    BY <1>5 DEF LoadMore, ListShown, CanLoadMore, Shown, SearchKey
  <2>2. query \in Searches
    BY <1>0, <2>1 DEF ListTyped
  <2>3. c \in [known: BOOLEAN, failed: BOOLEAN, pages: Seq(Page)] /\ found' = [found EXCEPT ![query] = c]
    BY <1>0, <2>1, <2>2 DEF ListTyped
  <2>4. r \in [kind: {"none", "all", "next"}, pages: Seq(Page), goal: Nat]
    BY <2>3
  <2>5. SearchOk(Finds[query], Matching(query), version, c, r)
    BY <1>0, <2>1, <2>2 DEF SearchesAreRight, SearchOk
  <2> HIDE DEF r, c
  <2> QED
    BY <2>1, <2>2, <2>3, <2>4, <2>5, SearchMoves
<1>6. ASSUME NEW t \in Searches, FetchPage(t)
      PROVE  ListInvariant'
  <2> DEFINE f == fetching[t]
             all == Matching(t)
             page == PageIn(all, version, Len(f.pages) + 1)
             longer == Append(f.pages, page)
  <2>1. /\ f.kind # "none" /\ UNCHANGED <<catalog, version, typed, query>>
        /\ \/ /\ HasNext(longer) /\ UNCHANGED found
              /\ fetching' = [fetching EXCEPT ![t].pages = longer]
           \/ /\ fetching' = [fetching EXCEPT ![t] = NotFetching]
              /\ found' = [found EXCEPT ![t] = [known |-> TRUE, failed |-> FALSE, pages |-> longer]]
    BY <1>6, PageOfIs DEF FetchPage
  <2>2. SearchOk(Finds[t], all, version, found[t], f)
    BY <1>0 DEF SearchesAreRight
  <2>3. all \in Seq(Nat) /\ \A i \in DOMAIN all : all[i] \in Finds[t]
    BY <1>0, MatchingIsFound
  <2>4. version \in Nat
    BY <1>0 DEF ListTyped
  <2>5. f \in [kind: {"none", "all", "next"}, pages: Seq(Page), goal: Nat]
        /\ found[t] \in [known: BOOLEAN, failed: BOOLEAN, pages: Seq(Page)]
    BY <1>0 DEF ListTyped
  <2>6. PagesOk(Finds[t], all, version, longer) /\ longer # <<>>
    <3>1. PagesOk(Finds[t], all, version, f.pages) /\ (f.pages # <<>> => HasNext(f.pages))
      BY <2>1, <2>2 DEF SearchOk
    <3> HIDE DEF f, all
    <3> QED
      BY <2>3, <2>4, <3>1, PageIsAdded
  <2> HIDE DEF longer
  <2>7. longer \in Seq(Page)
    BY <2>6 DEF PagesOk
  <2>8. CASE HasNext(longer) /\ UNCHANGED found /\ fetching' = [fetching EXCEPT ![t].pages = longer]
    <3> DEFINE r == [f EXCEPT !.pages = longer]
    <3>1. fetching' = [fetching EXCEPT ![t] = r] /\ found' = [found EXCEPT ![t] = found[t]]
      BY <1>0, <2>8 DEF ListTyped
    <3>2. r \in [kind: {"none", "all", "next"}, pages: Seq(Page), goal: Nat] /\ r.pages = longer
      BY <2>5, <2>7
    <3> HIDE DEF r
    <3>3. SearchOk(Finds[t], all, version, found[t], r)
      BY <2>2, <2>6, <2>8, <3>2 DEF SearchOk
    <3> HIDE DEF all, f
    <3> QED
      BY <2>1, <2>5, <3>1, <3>2, <3>3, SearchMoves DEF all
  <2>9. CASE /\ fetching' = [fetching EXCEPT ![t] = NotFetching]
             /\ found' = [found EXCEPT ![t] = [known |-> TRUE, failed |-> FALSE, pages |-> longer]]
    <3> DEFINE c == [known |-> TRUE, failed |-> FALSE, pages |-> longer]
    <3>1. c \in [known: BOOLEAN, failed: BOOLEAN, pages: Seq(Page)] /\ c.pages = longer
      BY <2>7
    <3>2. /\ NotFetching \in [kind: {"none", "all", "next"}, pages: Seq(Page), goal: Nat]
          /\ NotFetching.pages = <<>>
      BY DEF NotFetching
    <3>3. fetching' = [fetching EXCEPT ![t] = NotFetching] /\ found' = [found EXCEPT ![t] = c]
      BY <2>9
    <3> HIDE DEF c
    <3>4. SearchOk(Finds[t], all, version, c, NotFetching)
      BY <2>6, <3>1, <3>2, NoPagesAreOk DEF SearchOk
    <3> HIDE DEF all, f
    <3> QED
      BY <2>1, <3>1, <3>2, <3>3, <3>4, SearchMoves DEF all
  <2> QED
    BY <2>1, <2>8, <2>9
<1>7. ASSUME NEW t \in Searches, FetchFails(t)
      PROVE  ListInvariant'
  <2> DEFINE c == [found[t] EXCEPT !.failed = TRUE]
  <2>1. /\ UNCHANGED <<catalog, version, typed, query>>
        /\ fetching' = [fetching EXCEPT ![t] = NotFetching]
        /\ found' = [found EXCEPT ![t].failed = TRUE]
    BY <1>7 DEF FetchFails
  <2>2. found[t] \in [known: BOOLEAN, failed: BOOLEAN, pages: Seq(Page)]
    BY <1>0 DEF ListTyped
  <2>3. c \in [known: BOOLEAN, failed: BOOLEAN, pages: Seq(Page)]
        /\ c.pages = found[t].pages /\ c.known = found[t].known
    BY <2>2
  <2>4. found' = [found EXCEPT ![t] = c]
    BY <1>0, <2>1 DEF ListTyped
  <2>5. /\ NotFetching \in [kind: {"none", "all", "next"}, pages: Seq(Page), goal: Nat]
        /\ NotFetching.pages = <<>>
    BY DEF NotFetching
  <2> HIDE DEF c
  <2>6. SearchOk(Finds[t], Matching(t), version, c, NotFetching)
    BY <1>0, <2>3, <2>5, NoPagesAreOk DEF SearchOk, SearchesAreRight
  <2> QED
    BY <2>1, <2>3, <2>4, <2>5, <2>6, SearchMoves
<1> QED
  BY <1>1, <1>2, <1>3, <1>4, <1>5, <1>6, <1>7 DEF CatalogStep

LEMMA ListStutters == ListInvariant /\ UNCHANGED listVars => ListInvariant'
<1> SUFFICES ASSUME ListInvariant, UNCHANGED listVars PROVE ListInvariant'
  OBVIOUS
<1>1. UNCHANGED <<catalog, version, typed, query, found, fetching>>
  BY DEF listVars
<1>2. ListTyped
  BY DEF ListInvariant
<1> QED
  BY <1>1, <1>2, SearchStepKeeps DEF ListTyped

LEMMA ListStarts == CatalogInit => ListInvariant
<1> SUFFICES ASSUME CatalogInit PROVE ListInvariant
  OBVIOUS
<1>1. /\ NoPages \in [known: BOOLEAN, failed: BOOLEAN, pages: Seq(Page)]
      /\ NoPages.pages = <<>> /\ ~NoPages.known
      /\ NotFetching \in [kind: {"none", "all", "next"}, pages: Seq(Page), goal: Nat]
      /\ NotFetching.pages = <<>>
  BY DEF NoPages, NotFetching
<1>2. /\ catalog = <<2, 1>> /\ version = 0 /\ typed = Nothing /\ query = Nothing
      /\ found = [t \in Searches |-> NoPages] /\ fetching = [t \in Searches |-> NotFetching]
  BY DEF CatalogInit
<1>3. ListTyped
  BY <1>1, <1>2 DEF ListTyped
<1>4. SearchesAreRight
  BY <1>1, <1>2, NoPagesAreOk DEF SearchesAreRight, SearchOk
<1> QED
  BY <1>3, <1>4 DEF ListInvariant

\* The invariant says what the screens show.
LEMMA ListIsFollowed == ListInvariant /\ ProductInvariant => CatalogIsFollowed
<1> SUFFICES ASSUME ListInvariant, ProductInvariant PROVE CatalogIsFollowed
  OBVIOUS
<1>1. ListTyped /\ SearchesAreRight
  BY DEF ListInvariant
<1>2. ASSUME ListShown
      PROVE  /\ query \in Searches /\ Shown # <<>>
             /\ PagesOk(Finds[query], Matching(query), version, Shown)
  <2>1. query # Nothing /\ found[query].known /\ Shown = found[query].pages
    BY <1>2 DEF ListShown, Shown, SearchKey
  <2>2. query \in Searches
    BY <1>1, <2>1 DEF ListTyped
  <2> QED
    BY <1>1, <2>1, <2>2 DEF SearchesAreRight, SearchOk
<1>3. ResultsAreTheSearch
  <2>1. ListShown => \A i \in DOMAIN Rows(Shown) : Rows(Shown)[i] \in Finds[query]
    BY <1>2, RowsAreFound
  <2> QED
    BY <1>1, <2>1 DEF ResultsAreTheSearch, ListTyped
<1>4. PagesTile
  <2> SUFFICES ASSUME ListShown, \A n \in DOMAIN Shown : Shown[n].at = version
               PROVE  /\ Rows(Shown) = SubSeq(Matching(query), 1, Len(Rows(Shown)))
                      /\ CanLoadMore <=> Len(Rows(Shown)) < Len(Matching(query))
    BY DEF PagesTile
  <2>1. Matching(query) \in Seq(Nat) /\ version \in Nat
    BY <1>1, MatchingIsFound DEF ListTyped
  <2>2. /\ Rows(Shown) = SubSeq(Matching(query), 1, Len(Rows(Shown)))
        /\ HasNext(Shown) /\ Len(Rows(Shown)) < Shown[Len(Shown)].total
             <=> Len(Rows(Shown)) < Len(Matching(query))
    BY <1>2, <2>1, PagesFollowTheCatalog
  <2> QED
    BY <2>2 DEF CanLoadMore
<1>5. QuantityHolds
  BY DEF ProductInvariant, QuantityIsOfItsSku, QuantityHolds
<1> QED
  BY <1>3, <1>4, <1>5 DEF CatalogIsFollowed

\* For any catalog, page size and searches, whatever order pages are answered in: the
\* list shows what was found for the text searched for last, has the matching
\* products from the newest on, each once, when its pages were read of one catalog,
\* and offers more exactly when there are more; and the product page's quantity is of
\* the variety it is added of, and in stock (catalog/queries.ts, products/[categoryId].tsx).
THEOREM TheCatalogIsFollowed == ScreensSpec => []CatalogIsFollowed
<1> DEFINE CatalogInvariant == ListInvariant /\ ProductInvariant
<1>1. ScreensInit => CatalogInvariant
  BY ListStarts, ProductStarts DEF ScreensInit
<1>2. CatalogInvariant /\ [ScreensNext]_screensVars => CatalogInvariant'
  <2> SUFFICES ASSUME CatalogInvariant, [ScreensNext]_screensVars PROVE CatalogInvariant'
    OBVIOUS
  <2>1. CASE CatalogStep
    <3>1. UNCHANGED productVars
      BY <2>1 DEF CatalogStep, CatalogMoves, Type, Search, RefreshList, LoadMore, FetchPage,
         FetchFails
    <3> QED
      BY <2>1, <3>1, CatalogStepKeeps, ProductStutters
  <2>2. CASE ProductStep
    <3>1. UNCHANGED listVars
      BY <2>2 DEF ProductStep, AskProduct, ServeProduct, ProductShown, ProductFails,
         OfferChanges,
           Pick, StepQuantity, AddToCart, Added
    <3> QED
      BY <2>2, <3>1, ProductStepKeeps, ListStutters
  <2>3. CASE UNCHANGED catalogVars
    <3>1. UNCHANGED listVars /\ UNCHANGED productVars
      BY <2>3 DEF catalogVars
    <3> QED
      BY <3>1, ListStutters, ProductStutters
  <2> QED
    BY <2>1, <2>2, <2>3 DEF ScreensNext, screensVars
<1>3. CatalogInvariant => CatalogIsFollowed
  BY ListIsFollowed
<1> QED
  BY <1>1, <1>2, <1>3, PTL DEF ScreensSpec
=============================================================================
