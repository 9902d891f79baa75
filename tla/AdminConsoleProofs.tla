-------------------------- MODULE AdminConsoleProofs --------------------------
(***************************************************************************)
(* Theorems about the dashboard, for any staff, records, pictures and      *)
(* bounds, proved with TLAPS.  Each desk of AdminConsole is a              *)
(* specification of its own, and a step of the console is a step of one of *)
(* them, so a desk's theorems hold of the console: ConsoleIsItsDesks.      *)
(***************************************************************************)
EXTENDS AdminConsole, FiniteSetTheorems, TLAPS

-----------------------------------------------------------------------------
(***************************************************************************)
(* Access and bookings (StaffRaces)                                        *)
(***************************************************************************)
OneLocker ==
  /\ \A s, t \in Transactions, u \in Users : LocksAccount(s, u) /\ LocksAccount(t, u) => s = t
  /\ \A s, t \in Transactions, j \in Jobs : LocksJob(s, j) /\ LocksJob(t, j) => s = t

\* What a booking found out under its locks.
BookingHolds ==
  \A t \in Transactions :
    /\ txn[t].at \in {"looking", "booked"} => Technician(txn[t].user)
    /\ txn[t].at = "booked" =>
         Overlaps(txn[t].job, txn[t].user, txn[t].window) = {} \/ txn[t].allow

\* Nobody is about to take his own access away.
NoneQuits ==
  \A t \in Transactions :
    txn[t].at \in {"access", "counting", "writing"} /\ txn[t].actor = txn[t].user
      => ~TakesAdminAway(txn[t].change)

IInv == TypeOK /\ OneLocker /\ BookingHolds /\ NoneQuits /\ OverlapsWereAllowed

-----------------------------------------------------------------------------
LEMMA Initially == Init => IInv
  BY StaffAssumption DEF Init, IInv, TypeOK, OneLocker, BookingHolds, NoneQuits,
     OverlapsWereAllowed, Clash, Unbooked, Idle, LocksAccount, LocksJob

\* What a transaction record's stage says about its other fields.
LEMMA Stages ==
  ASSUME TypeOK, NEW t \in Transactions
  PROVE  /\ txn[t].at \in {"booking", "looking", "booked"} => txn[t] \in Bookings
         /\ txn[t].at \in {"access", "counting", "writing"} => txn[t] \in AccessChanges
  BY DEF TypeOK, Bookings, AccessChanges, Idle

-----------------------------------------------------------------------------
LEMMA TypeStep == TypeOK /\ [Next]_vars => TypeOK'
<1> SUFFICES ASSUME TypeOK, [Next]_vars
             PROVE  TypeOK'
  OBVIOUS
<1>1. CASE UNCHANGED vars
  BY <1>1 DEF vars, TypeOK
<1>2. ASSUME NEW t \in Transactions, NEW actor \in Users, NEW u \in Users,
             NEW change \in Changes, BeginAccess(t, actor, u, change)
      PROVE  TypeOK'
  BY <1>2 DEF TypeOK, BeginAccess, AccessChanges
<1>3. ASSUME NEW t \in Transactions, NEW actor \in Users, NEW u \in Users, NEW j \in Jobs,
             NEW w \in Windows, NEW allow \in BOOLEAN, BeginBooking(t, actor, j, u, w, allow)
      PROVE  TypeOK'
  BY <1>3 DEF TypeOK, BeginBooking, Bookings
<1>4. ASSUME NEW t \in Transactions, LockTechnician(t) \/ LookForOverlaps(t)
      PROVE  TypeOK'
  BY <1>4, Stages DEF TypeOK, LockTechnician, LookForOverlaps, Goes, Bookings
<1>5. ASSUME NEW t \in Transactions, LockAccount(t) \/ CountAdmins(t)
      PROVE  TypeOK'
  BY SMTT(30), <1>5, Stages DEF TypeOK, LockAccount, CountAdmins, Goes, AccessChanges
<1>6. ASSUME NEW t \in Transactions, CommitBooking(t)
      PROVE  TypeOK'
  BY <1>6, Stages DEF TypeOK, CommitBooking, Ends, Bookings
<1>7. ASSUME NEW t \in Transactions, CommitAccess(t)
      PROVE  TypeOK'
  BY <1>7, Stages, StaffAssumption DEF TypeOK, CommitAccess, Ends, AccessChanges
<1>8. ASSUME NEW t \in Transactions, Rollback(t)
      PROVE  TypeOK'
  BY <1>8 DEF TypeOK, Rollback, Ends
<1>9. ASSUME NEW j \in Jobs, CloseJob(j)
      PROVE  TypeOK'
  BY <1>9 DEF TypeOK, CloseJob
<1> QED
  BY <1>1, <1>2, <1>3, <1>4, <1>5, <1>6, <1>7, <1>8, <1>9 DEF Next, Begin

-----------------------------------------------------------------------------
LEMMA LockStep == TypeOK /\ OneLocker /\ [Next]_vars => OneLocker'
<1> SUFFICES ASSUME TypeOK, OneLocker, [Next]_vars
             PROVE  OneLocker'
  OBVIOUS
<1>1. CASE UNCHANGED txn
  BY <1>1 DEF OneLocker, LocksAccount, LocksJob
<1>2. ASSUME NEW t \in Transactions, NEW actor \in Users, NEW u \in Users,
             NEW change \in Changes, BeginAccess(t, actor, u, change)
      PROVE  OneLocker'
  BY <1>2 DEF TypeOK, OneLocker, BeginAccess, LocksAccount, LocksJob
<1>3. ASSUME NEW t \in Transactions, NEW actor \in Users, NEW u \in Users, NEW j \in Jobs,
             NEW w \in Windows, NEW allow \in BOOLEAN, BeginBooking(t, actor, j, u, w, allow)
      PROVE  OneLocker'
  BY <1>3 DEF TypeOK, OneLocker, BeginBooking, LocksAccount, LocksJob, Idle
<1>4. ASSUME NEW t \in Transactions, LockTechnician(t)
      PROVE  OneLocker'
  BY <1>4, Stages DEF TypeOK, OneLocker, LockTechnician, FreeAccount, Goes, LocksAccount,
     LocksJob, Bookings
<1>5. ASSUME NEW t \in Transactions, LookForOverlaps(t)
      PROVE  OneLocker'
  BY <1>5, Stages DEF TypeOK, OneLocker, LookForOverlaps, Goes, LocksAccount, LocksJob, Bookings
<1>6. ASSUME NEW t \in Transactions, LockAccount(t)
      PROVE  OneLocker'
  BY <1>6, Stages DEF TypeOK, OneLocker, LockAccount, FreeAccount, Goes, LocksAccount,
     LocksJob, AccessChanges
<1>7. ASSUME NEW t \in Transactions, CountAdmins(t)
      PROVE  OneLocker'
  BY <1>7, Stages DEF TypeOK, OneLocker, CountAdmins, Goes, LocksAccount, LocksJob,
     AccessChanges
<1>8. ASSUME NEW t \in Transactions, CommitBooking(t) \/ CommitAccess(t) \/ Rollback(t)
      PROVE  OneLocker'
  <2>1. \A s \in Transactions \ {t} : txn'[s] = txn[s]
    BY <1>8 DEF TypeOK, CommitBooking, CommitAccess, Rollback, Ends
  <2>2. txn'[t].at = "idle"
    BY <1>8 DEF TypeOK, CommitBooking, CommitAccess, Rollback, Ends, Idle
  <2> QED
    BY <2>1, <2>2 DEF OneLocker, LocksAccount, LocksJob
<1> QED
  BY <1>1, <1>2, <1>3, <1>4, <1>5, <1>6, <1>7, <1>8 DEF Next, Begin, CloseJob, vars

-----------------------------------------------------------------------------
LEMMA BookingStep == IInv /\ [Next]_vars => BookingHolds'
<1> SUFFICES ASSUME IInv, [Next]_vars
             PROVE  BookingHolds'
  OBVIOUS
<1> USE DEF IInv
<1>1. CASE UNCHANGED vars
  BY <1>1 DEF vars, BookingHolds, Technician, Overlaps
<1>2. ASSUME NEW t \in Transactions, NEW actor \in Users, NEW u \in Users,
             NEW change \in Changes, BeginAccess(t, actor, u, change)
      PROVE  BookingHolds'
  BY <1>2 DEF TypeOK, BookingHolds, BeginAccess, Technician, Overlaps
<1>3. ASSUME NEW t \in Transactions, NEW actor \in Users, NEW u \in Users, NEW j \in Jobs,
             NEW w \in Windows, NEW allow \in BOOLEAN, BeginBooking(t, actor, j, u, w, allow)
      PROVE  BookingHolds'
  BY <1>3 DEF TypeOK, BookingHolds, BeginBooking, Technician, Overlaps
<1>4. ASSUME NEW t \in Transactions, LockTechnician(t) \/ LookForOverlaps(t)
      PROVE  BookingHolds'
  BY SMTT(30), <1>4, Stages DEF TypeOK, BookingHolds, LockTechnician, LookForOverlaps, Goes, Technician,
     Overlaps, Bookings
<1>5. ASSUME NEW t \in Transactions, LockAccount(t) \/ CountAdmins(t)
      PROVE  BookingHolds'
  BY <1>5, Stages DEF TypeOK, BookingHolds, LockAccount, CountAdmins, Goes, Technician,
     Overlaps, AccessChanges
<1>6. ASSUME NEW t \in Transactions, CommitBooking(t)
      PROVE  BookingHolds'
  <2>1. txn[t] \in Bookings /\ txn[t].at = "booked"
    BY <1>6, Stages DEF CommitBooking
  <2>2. ASSUME NEW s \in Transactions, txn'[s].at \in {"looking", "booked"}
        PROVE  /\ s # t /\ txn'[s] = txn[s] /\ txn[s] \in Bookings
               /\ txn[s].user # txn[t].user
    <3>1. s # t /\ txn'[s] = txn[s]
      BY <1>6, <2>2 DEF CommitBooking, Ends, TypeOK, Idle
    <3> QED
      BY <2>1, <2>2, <3>1, Stages DEF OneLocker, LocksAccount, Bookings
  <2>3. ASSUME NEW s \in Transactions, txn'[s].at \in {"looking", "booked"}
        PROVE  Overlaps(txn[s].job, txn[s].user, txn[s].window)'
                 \subseteq Overlaps(txn[s].job, txn[s].user, txn[s].window)
    BY <1>6, <2>1, <2>2, <2>3 DEF CommitBooking, TypeOK, Overlaps, Bookings
  <2> QED
    BY <1>6, <2>2, <2>3 DEF CommitBooking, BookingHolds, Technician
<1>7. ASSUME NEW t \in Transactions, CommitAccess(t)
      PROVE  BookingHolds'
  <2>1. txn[t] \in AccessChanges /\ txn[t].at = "writing"
    BY <1>7, Stages DEF CommitAccess
  <2>2. ASSUME NEW s \in Transactions, txn'[s].at \in {"looking", "booked"}
        PROVE  /\ txn'[s] = txn[s] /\ txn[s] \in Bookings
               /\ account'[txn[s].user] = account[txn[s].user]
    <3>1. s # t /\ txn'[s] = txn[s]
      BY <1>7, <2>2 DEF CommitAccess, Ends, TypeOK, Idle
    <3>2. txn[s].user # txn[t].user /\ txn[s] \in Bookings
      BY <2>1, <2>2, <3>1, Stages DEF OneLocker, LocksAccount, Bookings
    <3> QED
      BY <1>7, <3>1, <3>2 DEF CommitAccess, TypeOK, Bookings
  <2> QED
    BY <1>7, <2>2 DEF CommitAccess, BookingHolds, Technician, Overlaps
<1>8. ASSUME NEW t \in Transactions, Rollback(t)
      PROVE  BookingHolds'
  BY <1>8 DEF TypeOK, BookingHolds, Rollback, Ends, Idle, Technician, Overlaps
<1>9. ASSUME NEW j \in Jobs, CloseJob(j)
      PROVE  BookingHolds'
  <2>1. ASSUME NEW k \in Jobs, NEW u, NEW w
        PROVE  Overlaps(k, u, w)' \subseteq Overlaps(k, u, w)
    BY <1>9 DEF CloseJob, TypeOK, Overlaps
  <2>2. ASSUME NEW s \in Transactions, txn[s].at = "booked"
        PROVE  txn[s].job \in Jobs
    BY <2>2, Stages DEF Bookings
  <2> QED
    BY <1>9, <2>1, <2>2 DEF CloseJob, BookingHolds, Technician
<1> QED
  BY <1>1, <1>2, <1>3, <1>4, <1>5, <1>6, <1>7, <1>8, <1>9 DEF Next, Begin

-----------------------------------------------------------------------------
LEMMA QuitStep == TypeOK /\ NoneQuits /\ [Next]_vars => NoneQuits'
<1> SUFFICES ASSUME TypeOK, NoneQuits, [Next]_vars
             PROVE  NoneQuits'
  OBVIOUS
<1>1. CASE UNCHANGED txn
  BY <1>1 DEF NoneQuits
<1>2. ASSUME NEW t \in Transactions, NEW actor \in Users, NEW u \in Users,
             NEW change \in Changes, BeginAccess(t, actor, u, change)
      PROVE  NoneQuits'
  BY <1>2 DEF TypeOK, NoneQuits, BeginAccess
<1>3. ASSUME NEW t \in Transactions, NEW actor \in Users, NEW u \in Users, NEW j \in Jobs,
             NEW w \in Windows, NEW allow \in BOOLEAN, BeginBooking(t, actor, j, u, w, allow)
      PROVE  NoneQuits'
  BY <1>3 DEF TypeOK, NoneQuits, BeginBooking
<1>4. ASSUME NEW t \in Transactions, LockTechnician(t) \/ LookForOverlaps(t)
      PROVE  NoneQuits'
  BY <1>4, Stages DEF TypeOK, NoneQuits, LockTechnician, LookForOverlaps, Goes, Bookings
<1>5. ASSUME NEW t \in Transactions, LockAccount(t) \/ CountAdmins(t)
      PROVE  NoneQuits'
  BY <1>5, Stages DEF TypeOK, NoneQuits, LockAccount, CountAdmins, Goes, AccessChanges
<1>6. ASSUME NEW t \in Transactions, CommitBooking(t) \/ CommitAccess(t) \/ Rollback(t)
      PROVE  NoneQuits'
  BY <1>6 DEF TypeOK, NoneQuits, CommitBooking, CommitAccess, Rollback, Ends, Idle
<1> QED
  BY <1>1, <1>2, <1>3, <1>4, <1>5, <1>6 DEF Next, Begin, CloseJob, vars

-----------------------------------------------------------------------------
LEMMA ClashStep == IInv /\ [Next]_vars => OverlapsWereAllowed'
<1> SUFFICES ASSUME IInv, [Next]_vars
             PROVE  OverlapsWereAllowed'
  OBVIOUS
<1> USE DEF IInv
<1>1. CASE UNCHANGED job
  BY <1>1 DEF OverlapsWereAllowed, Clash
<1>2. ASSUME NEW t \in Transactions, CommitBooking(t)
      PROVE  OverlapsWereAllowed'
  <2>1. txn[t] \in Bookings /\ txn[t].at = "booked"
    BY <1>2, Stages DEF CommitBooking
  <2> PICK j \in Jobs : j = txn[t].job
    BY <2>1 DEF Bookings
  <2>2. /\ job'[j].technician = txn[t].user /\ job'[j].window = txn[t].window
        /\ job'[j].allowed = txn[t].allow
        /\ \A k \in Jobs \ {j} : job'[k] = job[k]
    BY <1>2, <2>1 DEF CommitBooking, TypeOK
  <2>3. ASSUME NEW k \in Jobs \ {j}, Clash(j, k)' \/ Clash(k, j)'
        PROVE  job'[j].allowed
    <3>1. job'[k] = job[k]
      BY <2>2, <2>3
    <3>2. /\ job[k].open /\ job[k].technician = txn[t].user
          /\ Overlap(txn[t].window, job[k].window) \/ Overlap(job[k].window, txn[t].window)
      BY <2>2, <2>3, <3>1 DEF Clash
    <3>3. k \in Overlaps(j, txn[t].user, txn[t].window)
      BY <2>3, <3>2 DEF Overlaps, Overlap
    <3> QED
      BY <2>1, <2>2, <3>3 DEF BookingHolds
  <2>4. ASSUME NEW k \in Jobs, NEW l \in Jobs, Clash(k, l)'
        PROVE  job'[k].allowed \/ job'[l].allowed
    <3>1. k # l
      BY <2>4 DEF Clash
    <3>2. CASE k = j \/ l = j
      BY <2>3, <2>4, <3>1, <3>2
    <3>3. CASE k # j /\ l # j
      <4>1. job'[k] = job[k] /\ job'[l] = job[l]
        BY <2>2, <3>3
      <4>2. Clash(k, l)
        BY <2>4, <4>1 DEF Clash
      <4> QED
        BY <4>1, <4>2 DEF OverlapsWereAllowed
    <3> QED
      BY <3>2, <3>3
  <2> QED
    BY <2>4 DEF OverlapsWereAllowed
<1>3. ASSUME NEW j \in Jobs, CloseJob(j)
      PROVE  OverlapsWereAllowed'
  BY <1>3 DEF CloseJob, TypeOK, OverlapsWereAllowed, Clash
<1> QED
  BY <1>1, <1>2, <1>3 DEF Next, Begin, BeginAccess, BeginBooking, LockTechnician,
     LookForOverlaps, LockAccount, CountAdmins, CommitAccess, Rollback, vars

LEMMA Inductive == IInv /\ [Next]_vars => IInv'
  BY TypeStep, LockStep, BookingStep, QuitStep, ClashStep DEF IInv

LEMMA Invariance == Spec => []IInv
  BY Initially, Inductive, PTL DEF Spec

-----------------------------------------------------------------------------
\* Every variable keeps its shape, for any accounts, jobs and transactions.
THEOREM Typing == Spec => []TypeOK
<1>1. IInv => TypeOK
  BY DEF IInv
<1> QED
  BY Invariance, <1>1, PTL

\* No two bookings overlap unless the later one saw the warning.
THEOREM NoSilentOverlap == Spec => []OverlapsWereAllowed
<1>1. IInv => OverlapsWereAllowed
  BY DEF IInv
<1> QED
  BY Invariance, <1>1, PTL

\* Whoever is given a job is an active technician at that moment.
THEOREM JobsGoToTechnicians == Spec => GivenToTechnicians
<1>1. ASSUME IInv, [Next]_vars, NEW j \in Jobs, job'[j].technician # job[j].technician
      PROVE  Technician(job'[j].technician)
  <2>1. ASSUME NEW t \in Transactions, CommitBooking(t)
        PROVE  Technician(job'[j].technician)
    <3>1. txn[t] \in Bookings /\ txn[t].at = "booked" /\ Technician(txn[t].user)
      BY <1>1, <2>1, Stages DEF CommitBooking, IInv, BookingHolds
    <3> QED
      BY <1>1, <2>1, <3>1 DEF CommitBooking, IInv, TypeOK, Bookings
  <2>2. ASSUME NEW k \in Jobs, CloseJob(k)
        PROVE  FALSE
    BY <1>1, <2>2 DEF CloseJob, IInv, TypeOK
  <2>3. UNCHANGED job => FALSE
    BY <1>1
  <2> QED
    BY <1>1, <2>1, <2>2, <2>3 DEF Next, Begin, BeginAccess, BeginBooking, LockTechnician,
       LookForOverlaps, LockAccount, CountAdmins, CommitAccess, Rollback, vars
<1>2. IInv /\ [Next]_vars =>
        [\A j \in Jobs : job'[j].technician # job[j].technician
           => Technician(job'[j].technician)]_vars
  BY <1>1
<1> QED
  BY Invariance, <1>2, PTL DEF Spec, GivenToTechnicians

\* Both promises of a booking hold, for any accounts, jobs and dispatchers.
THEOREM SoundBookings == Spec => BookingsAreSound
  BY NoSilentOverlap, JobsGoToTechnicians, PTL DEF BookingsAreSound

\* Only an author who has lost his own access can remove the last administrator.
THEOREM LastRemovalIsOvertaken == Spec => OnlyOvertakenRemoveTheLast
<1>1. ASSUME IInv, [Next]_vars, ActiveAdmins # {}, ActiveAdmins' = {}
      PROVE  \E t \in Transactions : Commits(t) /\ txn[t].actor \notin ActiveAdmins
  <2>1. account' # account
    BY <1>1 DEF ActiveAdmins
  <2>2. PICK t \in Transactions : CommitAccess(t)
    BY ZenonT(30), <1>1, <2>1 DEF Next, Begin, BeginAccess, BeginBooking, LockTechnician, LookForOverlaps,
       CommitBooking, LockAccount, CountAdmins, Rollback, CloseJob, vars
  <2>3. txn[t] \in AccessChanges /\ txn[t].at = "writing"
    BY <1>1, <2>2, Stages DEF CommitAccess, IInv
  <2>4. Commits(t)
    BY <1>1, <2>1, <2>2, <2>3 DEF CommitAccess, Commits, Ends, IInv, TypeOK
  <2>5. txn[t].actor # txn[t].user
    BY <1>1, <2>1, <2>2, <2>3 DEF CommitAccess, Unchanged, IInv, NoneQuits
  <2>6. txn[t].actor \notin ActiveAdmins
    BY <1>1, <2>2, <2>3, <2>5 DEF CommitAccess, ActiveAdmins, IInv, TypeOK, AccessChanges
  <2> QED
    BY <2>4, <2>6
<1>2. IInv /\ [Next]_vars =>
        [ActiveAdmins # {} /\ ActiveAdmins' = {}
           => \E t \in Transactions : Commits(t) /\ txn[t].actor \notin ActiveAdmins]_vars
  BY <1>1
<1> QED
  BY Invariance, <1>2, PTL DEF Spec, OnlyOvertakenRemoveTheLast

-----------------------------------------------------------------------------
(***************************************************************************)
(* The order's page and the assignment form (AdminDesk)                    *)
(***************************************************************************)
-----------------------------------------------------------------------------
(***************************************************************************)
(* The refund of an order.  Every key asked for is a page's, and the       *)
(* provider has as many as there is a refund and commits failed.           *)
(***************************************************************************)
SaleStates == {"pending_payment", "paid", "processing", "shipped", "delivered", "cancelled", "refunded"}
RefundStates == {"none", "pending", "confirmed", "failed"}
PageKeys == Nat \X {0}

SaleRows == [state: SaleStates, refund: RefundStates, key: PageKeys]
PageRows == [mount: Nat, state: SaleStates \union {"none"}, refund: BOOLEAN]
RefundRows == [stage: {"idle", "sent", "accepted", "failed"}, key: PageKeys]

OrderTypeOK ==
  /\ sale \in SaleRows /\ mounts \in Nat
  /\ page \in [Pages -> PageRows] /\ refund \in [Pages -> RefundRows]
  /\ broken \in [all: Nat, unsaved: Nat]

KeysAreCounted ==
  /\ provider \subseteq PageKeys /\ IsFiniteSet(provider)
  /\ Cardinality(provider) <= broken.unsaved + IF sale.refund = "none" THEN 0 ELSE 1

OrderInvariant == OrderTypeOK /\ KeysAreCounted

LEMMA OrderStarts == DeskInit => OrderInvariant
<1> SUFFICES ASSUME DeskInit PROVE OrderInvariant
  OBVIOUS
<1>1. <<0, 0>> \in PageKeys
  BY DEF PageKeys
<1>2. sale \in SaleRows /\ Left \in PageRows /\ NoAsk \in RefundRows
  BY <1>1 DEF DeskInit, SaleRows, PageRows, RefundRows, SaleStates, RefundStates, Left, NoAsk
<1>3. OrderTypeOK
  BY <1>2 DEF DeskInit, OrderTypeOK
<1>4. KeysAreCounted
  BY FS_EmptySet DEF DeskInit, KeysAreCounted
<1> QED
  BY <1>3, <1>4 DEF OrderInvariant

\* What a page is refreshed to, and what its request becomes.
LEMMA RowsMade ==
  ASSUME OrderTypeOK, NEW p \in Pages
  PROVE  /\ Left \in PageRows /\ NoAsk \in RefundRows /\ Fresh(p) \in PageRows
         /\ [Fresh(p) EXCEPT !.refund = TRUE] \in PageRows
         /\ \A n \in Nat : [Left EXCEPT !.mount = n, !.state = sale.state,
                                        !.refund = sale.refund # "none"] \in PageRows
         /\ \A stage \in {"accepted", "failed"} : [refund[p] EXCEPT !.stage = stage] \in RefundRows
         /\ [stage |-> "sent", key |-> KeyOf(p)] \in RefundRows
<1>1. page[p] \in PageRows /\ refund[p] \in RefundRows /\ sale.state \in SaleStates
  BY DEF OrderTypeOK, SaleRows
<1>2. Left \in PageRows /\ NoAsk \in RefundRows
  BY DEF Left, NoAsk, PageRows, RefundRows, PageKeys
<1>3. Fresh(p) \in PageRows /\ [Fresh(p) EXCEPT !.refund = TRUE] \in PageRows
  BY <1>1 DEF Fresh, PageRows
<1>4. ASSUME NEW n \in Nat
      PROVE  [Left EXCEPT !.mount = n, !.state = sale.state, !.refund = sale.refund # "none"] \in PageRows
  BY <1>1 DEF Left, PageRows
<1>5. \A stage \in {"accepted", "failed"} : [refund[p] EXCEPT !.stage = stage] \in RefundRows
  BY <1>1 DEF RefundRows
<1>6. [stage |-> "sent", key |-> KeyOf(p)] \in RefundRows
  BY <1>1 DEF RefundRows, PageRows, KeyOf, PageKeys
<1> QED
  BY <1>2, <1>3, <1>4, <1>5, <1>6

LEMMA PageStep ==
  ASSUME OrderInvariant, NEW p \in Pages,
         OpenOrder(p) \/ PollOrder(p) \/ LeaveOrder(p)
  PROVE  OrderInvariant'
<1> USE DEF OrderInvariant
<1>1. UNCHANGED <<sale, provider, refund, broken>> /\ mounts' \in Nat
  BY DEF OpenOrder, PollOrder, LeaveOrder, OrderTypeOK
<1>2. \E new \in PageRows : page' = [page EXCEPT ![p] = new]
  BY <1>1, RowsMade DEF OpenOrder, PollOrder, LeaveOrder
<1>3. page' \in [Pages -> PageRows]
  BY <1>2 DEF OrderTypeOK
<1> QED
  BY <1>1, <1>3 DEF OrderTypeOK, KeysAreCounted

LEMMA CommandStep ==
  ASSUME OrderInvariant, NEW p \in Pages, NEW from \in SaleStates, NEW to \in SaleStates,
         Command(p, from, to)
  PROVE  OrderInvariant'
<1> USE DEF OrderInvariant
<1>1. sale' \in SaleRows /\ sale'.refund = sale.refund
  BY DEF Command, OrderTypeOK, SaleRows
<1>2. [page[p] EXCEPT !.state = sale'.state] \in PageRows
  BY <1>1 DEF OrderTypeOK, SaleRows, PageRows
<1>3. page' = [page EXCEPT ![p] = [page[p] EXCEPT !.state = sale'.state]]
      /\ UNCHANGED <<provider, mounts, refund, broken>>
  BY DEF Command
<1>4. page' \in [Pages -> PageRows]
  BY <1>2, <1>3 DEF OrderTypeOK
<1> QED
  BY <1>1, <1>3, <1>4 DEF OrderTypeOK, KeysAreCounted

LEMMA RefundStep ==
  ASSUME OrderInvariant, NEW p \in Pages,
         AskRefund(p) \/ ServeRefundAgain(p) \/ RefundAccepted(p) \/ RefundNotAccepted(p)
  PROVE  OrderInvariant'
<1> USE DEF OrderInvariant
<1>1. UNCHANGED <<sale, provider, mounts>>
  BY DEF AskRefund, ServeRefundAgain, RefundAccepted, RefundNotAccepted
<1>2. broken' \in [all: Nat, unsaved: Nat] /\ broken'.unsaved = broken.unsaved
  BY DEF AskRefund, ServeRefundAgain, RefundAccepted, RefundNotAccepted, OrderTypeOK
<1>3. \E new \in RefundRows : refund' = [refund EXCEPT ![p] = new]
  BY RowsMade DEF AskRefund, ServeRefundAgain, RefundAccepted, RefundNotAccepted, Answer
<1>4. page' = page \/ \E new \in PageRows : page' = [page EXCEPT ![p] = new]
  BY RowsMade DEF AskRefund, ServeRefundAgain, RefundAccepted, RefundNotAccepted
<1>5. refund' \in [Pages -> RefundRows] /\ page' \in [Pages -> PageRows]
  BY <1>3, <1>4 DEF OrderTypeOK
<1> QED
  BY <1>1, <1>2, <1>5 DEF OrderTypeOK, KeysAreCounted

\* The provider is asked while there is no refund: there will be one, or one
\* more commit has failed.
LEMMA ServeRefundStep ==
  ASSUME OrderInvariant, NEW p \in Pages, ServeRefund(p)
  PROVE  OrderInvariant'
<1> USE DEF OrderInvariant
<1>1. /\ provider' = provider \union {refund[p].key} /\ UNCHANGED <<mounts, page>>
      /\ sale.refund = "none" /\ refund[p].key \in PageKeys
      /\ \E new \in RefundRows : refund' = [refund EXCEPT ![p] = new]
  BY RowsMade DEF ServeRefund, Answer, OrderTypeOK, RefundRows
<1>2. \/ sale' = [sale EXCEPT !.refund = "pending", !.key = refund[p].key] /\ broken' = broken
      \/ sale' = sale /\ broken' = [all |-> broken.all + 1, unsaved |-> broken.unsaved + 1]
  BY DEF ServeRefund
<1>3. /\ sale' \in SaleRows /\ broken' \in [all: Nat, unsaved: Nat]
      /\ \/ sale'.refund = "pending" /\ broken' = broken
         \/ sale'.refund = "none" /\ broken'.unsaved = broken.unsaved + 1
  <2>1. CASE sale' = [sale EXCEPT !.refund = "pending", !.key = refund[p].key] /\ broken' = broken
    BY <1>1, <2>1 DEF OrderTypeOK, SaleRows, RefundStates
  <2>2. CASE sale' = sale /\ broken' = [all |-> broken.all + 1, unsaved |-> broken.unsaved + 1]
    BY <1>1, <2>2 DEF OrderTypeOK
  <2> QED
    BY <1>2, <2>1, <2>2
<1>4. refund' \in [Pages -> RefundRows]
  BY <1>1 DEF OrderTypeOK
<1>5. IsFiniteSet(provider) /\ Cardinality(provider) \in Nat
  BY FS_CardinalityType DEF KeysAreCounted
<1>6. IsFiniteSet(provider') /\ Cardinality(provider') \in Nat /\ Cardinality(provider') <= Cardinality(provider) + 1
  <2>1. IsFiniteSet(provider')
    BY <1>1, <1>5, FS_AddElement
  <2>2. Cardinality(provider') = Cardinality(provider) \/ Cardinality(provider') = Cardinality(provider) + 1
    BY <1>1, <1>5, FS_AddElement
  <2> QED
    BY <1>5, <2>1, <2>2
<1>7. KeysAreCounted'
  <2>1. provider' \subseteq PageKeys
    BY <1>1 DEF KeysAreCounted
  <2>2. Cardinality(provider) <= broken.unsaved /\ broken.unsaved \in Nat
    BY <1>1, <1>5 DEF KeysAreCounted, OrderTypeOK
  <2> QED
    BY <1>3, <1>5, <1>6, <2>1, <2>2 DEF KeysAreCounted
<1> QED
  BY <1>1, <1>3, <1>4, <1>7 DEF OrderTypeOK

LEMMA OrderKeeps == OrderInvariant /\ [OrderNext \/ AssignmentNext]_deskVars => OrderInvariant'
<1> SUFFICES ASSUME OrderInvariant, [OrderNext \/ AssignmentNext]_deskVars PROVE OrderInvariant'
  OBVIOUS
<1> USE DEF OrderInvariant
<1>1. CASE UNCHANGED orderVars
  BY <1>1 DEF orderVars, OrderTypeOK, KeysAreCounted
<1>2. ASSUME NEW p \in Pages, Process(p) \/ Ship(p) \/ Deliver(p) \/ CancelUnpaid(p)
      PROVE  OrderInvariant'
  BY <1>2, CommandStep DEF Process, Ship, Deliver, CancelUnpaid, SaleStates
<1>3. CASE PaymentConfirmed \/ ProviderAnswers
  <2>1. sale' \in SaleRows /\ (sale'.refund = "none" <=> sale.refund = "none")
    BY <1>3 DEF PaymentConfirmed, ProviderAnswers, OrderTypeOK, SaleRows, SaleStates,
       RefundStates
  <2> QED
    BY <1>3, <2>1 DEF PaymentConfirmed, ProviderAnswers, OrderTypeOK, KeysAreCounted
<1>4. CASE AssignmentFails
  BY <1>4 DEF AssignmentFails, OrderTypeOK, KeysAreCounted
<1>5. \/ UNCHANGED orderVars \/ PaymentConfirmed \/ ProviderAnswers \/ AssignmentFails
      \/ \E p \in Pages : \/ OpenOrder(p) \/ PollOrder(p) \/ LeaveOrder(p)
                          \/ Process(p) \/ Ship(p) \/ Deliver(p) \/ CancelUnpaid(p)
                          \/ AskRefund(p) \/ ServeRefund(p) \/ ServeRefundAgain(p)
                          \/ RefundAccepted(p) \/ RefundNotAccepted(p)
  BY DEF OrderNext, AssignmentNext, deskVars, RivalAssigns, RivalBooks, ReviewAssignment,
     PollService,
         AllowOverlap, ConfirmAssignment, ServeAssignment, AssignmentEnds
<1> QED
  BY <1>1, <1>2, <1>3, <1>4, <1>5, PageStep, RefundStep, ServeRefundStep

\* A step of the dashboard is one of the pages that poll, or leaves them alone.
LEMMA DeskSteps == [ConsoleNext]_consoleVars => [OrderNext \/ AssignmentNext]_deskVars
  BY DEF ConsoleNext, StaffStep, RecordsStep, CreationStep, OrdersStep, AssignmentStep, At,
     consoleVars

(***************************************************************************)
(* The provider is asked for the refund of an order once, by any number of *)
(* pages, mounts, confirmations and lost answers: once more only for a     *)
(* commit that failed after the provider's answer, and never twice by one  *)
(* page.                                                                   *)
(***************************************************************************)
THEOREM RefundsAreAskedOnce == ConsoleSpec => []RefundIsAskedOnce
<1>1. ConsoleInit => OrderInvariant
  BY OrderStarts DEF ConsoleInit
<1>2. OrderInvariant => RefundIsAskedOnce
  <2> SUFFICES ASSUME OrderInvariant PROVE RefundIsAskedOnce
    OBVIOUS
  <2>1. \A k, l \in provider : k[1] = l[1] => k = l
    BY DEF OrderInvariant, KeysAreCounted, PageKeys
  <2>2. Cardinality(provider) \in Nat /\ broken.unsaved \in Nat
    BY FS_CardinalityType DEF OrderInvariant, KeysAreCounted, OrderTypeOK
  <2> QED
    BY <2>1, <2>2 DEF OrderInvariant, KeysAreCounted, RefundIsAskedOnce
<1> QED
  BY <1>1, <1>2, OrderKeeps, DeskSteps, PTL DEF ConsoleSpec

-----------------------------------------------------------------------------
(***************************************************************************)
(* The assignment form.  The technician shown is the one reviewed unless a *)
(* poll came in between, and a tick is of the technician it was set for.   *)
(***************************************************************************)
DeskTypeOK ==
  /\ desk \in [shown: Staff, chosen: Staff \union {"none"}, reviewed: Staff \union {"none"},
               stage: {"form", "draft", "sent", "done"}, expected: Staff \union {"none"},
               warned: BOOLEAN, allow: BOOLEAN, acked: Staff \union {"none"}, polled: BOOLEAN]
  /\ request \in [technician: Staff, booked: SUBSET Staff, moves: Nat]

DeskInvariant ==
  /\ DeskTypeOK /\ unseen = {}
  /\ desk.stage # "form" => desk.chosen \in Staff /\ (desk.shown = desk.reviewed \/ desk.polled)
  /\ desk.stage = "sent" => desk.expected = desk.reviewed \/ desk.polled
  /\ desk.allow => desk.acked = desk.chosen

LEMMA DeskKeeps == DeskInvariant /\ [OrderNext \/ AssignmentNext]_deskVars => DeskInvariant'
<1> SUFFICES ASSUME DeskInvariant, [OrderNext \/ AssignmentNext]_deskVars PROVE DeskInvariant'
  OBVIOUS
<1> USE DEF DeskInvariant
<1>1. CASE UNCHANGED assignmentVars
  BY <1>1 DEF assignmentVars, DeskTypeOK
<1>2. ASSUME NEW t \in Staff, RivalAssigns(t) \/ RivalBooks(t) PROVE DeskInvariant'
  <2>1. UNCHANGED <<desk, unseen>>
    BY <1>2 DEF RivalAssigns, RivalBooks
  <2>2. request' \in [technician: Staff, booked: SUBSET Staff, moves: Nat]
    <3>1. request.technician \in Staff /\ request.booked \subseteq Staff /\ request.moves + 1 \in Nat
      BY DEF DeskTypeOK
    <3>2. \/ request' = [technician |-> t, booked |-> request.booked, moves |-> request.moves + 1]
          \/ request' = [technician |-> request.technician, booked |-> request.booked \union {t},
                         moves |-> request.moves + 1]
      BY <1>2 DEF RivalAssigns, RivalBooks, DeskTypeOK
    <3>3. request.booked \union {t} \in SUBSET Staff /\ request.booked \in SUBSET Staff
      BY <3>1
    <3> QED
      BY <3>1, <3>2, <3>3
  <2> QED
    BY <2>1, <2>2 DEF DeskTypeOK
<1>3. ASSUME NEW t \in Staff, ReviewAssignment(t) PROVE DeskInvariant'
  <2>1. desk' = [desk EXCEPT !.chosen = t, !.reviewed = desk.shown, !.stage = "draft",
                             !.warned = t \in request.booked, !.polled = FALSE, !.allow = Tick(t)]
        /\ UNCHANGED <<request, unseen>>
    BY <1>3 DEF ReviewAssignment
  <2>2. (t \in request.booked) \in BOOLEAN /\ Tick(t) \in BOOLEAN /\ (Tick(t) => desk.allow /\ desk.acked = t)
    BY DEF Tick, DeskTypeOK
  <2>3. DeskTypeOK'
    BY <2>1, <2>2 DEF DeskTypeOK
  <2>4. /\ desk'.shown = desk'.reviewed /\ desk'.chosen = t /\ desk'.stage = "draft"
        /\ desk'.allow = Tick(t) /\ desk'.acked = desk.acked
    BY <2>1 DEF DeskTypeOK
  <2> QED
    BY <2>1, <2>2, <2>3, <2>4
<1>4. CASE PollService
  BY <1>4 DEF PollService, DeskTypeOK
<1>5. CASE AllowOverlap
  BY <1>5 DEF AllowOverlap, DeskTypeOK
<1>6. CASE ConfirmAssignment
  BY <1>6 DEF ConfirmAssignment, Expected, DeskTypeOK
<1>7. CASE ServeAssignment
  <2>1. Surprises = {}
    BY <1>7 DEF ServeAssignment, Assignable, Surprises
  <2>2. DeskTypeOK'
    <3>1. desk.chosen \in Staff
      BY <1>7 DEF ServeAssignment, DeskTypeOK
    <3> QED
      BY <1>7, <3>1 DEF ServeAssignment, DeskTypeOK
  <2> QED
    BY <1>7, <2>1, <2>2 DEF ServeAssignment, DeskTypeOK
<1>8. CASE AssignmentEnds
  BY <1>8 DEF AssignmentEnds, NoDraft, DeskTypeOK
<1>9. CASE AssignmentFails
  BY <1>9 DEF AssignmentFails, DeskTypeOK
<1>10. CASE OrderNext
  BY <1>1, <1>10 DEF OrderNext, OpenOrder, PollOrder, LeaveOrder, Process, Ship, Deliver,
     CancelUnpaid, Command,
         AskRefund, ServeRefund, ServeRefundAgain, RefundAccepted, RefundNotAccepted, PaymentConfirmed,
         ProviderAnswers
<1> QED
  BY <1>1, <1>2, <1>3, <1>4, <1>5, <1>6, <1>7, <1>8, <1>9, <1>10 DEF AssignmentNext, deskVars

(***************************************************************************)
(* A technician is replaced who was on the screen when the change was      *)
(* reviewed, or whom a poll has brought since, and an overlap is accepted  *)
(* for the technician it was shown for, whatever other administrators do.  *)
(***************************************************************************)
THEOREM AssignmentsAreReviewed == ConsoleSpec => []ReassignedAsReviewed
<1>1. ConsoleInit => DeskInvariant
  BY DEF ConsoleInit, DeskInit, DeskInvariant, DeskTypeOK, NoDraft
<1>2. DeskInvariant => ReassignedAsReviewed
  BY DEF DeskInvariant, ReassignedAsReviewed
<1> QED
  BY <1>1, <1>2, DeskKeeps, DeskSteps, PTL DEF ConsoleSpec

-----------------------------------------------------------------------------
(***************************************************************************)
(* The creation of records (AdminCreation)                                 *)
(***************************************************************************)
FormRows == [open: BOOLEAN, id: Nat, version: Nat, pictures: SUBSET Drafts, owned: SUBSET Drafts,
             refused: BOOLEAN]
RequestRows == [kind: {"none", "create", "update", "gallery"}, served: BOOLEAN, id: Nat, version: Nat,
                pictures: SUBSET Drafts, rest: SUBSET Drafts]
MadeRows == [version: Nat, pictures: SUBSET Drafts]

CreationTypeOK ==
  /\ creating \in NewKinds /\ creator \in FormRows /\ asked \in RequestRows
  /\ made \in Seq(MadeRows) /\ losses \in Nat /\ touches \in Nat

\* The open form owns what it has chosen and what its request names, all of it
\* in the store; nothing is discarded before it goes.
FormHolds ==
  /\ creator.open => /\ discards = {} /\ creator.owned \subseteq shelf
                     /\ creator.pictures \subseteq creator.owned
                     /\ asked.pictures \union asked.rest \subseteq creator.owned
  /\ ~creator.open => creator.owned = {} /\ ~creator.refused

\* Which request may be under way: of a category or a model one only.
RequestShape ==
  /\ asked.kind = "none" => asked = NoRequest
  /\ creating \in Single => creator.id = 0 /\ asked.rest = {} /\ asked.kind \in {"none", "create"}
  /\ creating \notin Single /\ asked.kind \in {"create", "update"} => asked.pictures = {}
  /\ creator.open /\ asked.kind \in {"update", "gallery"} => creator.id = asked.id
  /\ creator.open /\ asked.kind = "create" => creator.id = 0
  /\ creator.id = 0 => creator.version = 0
  /\ asked.kind = "create" => asked.version = 0

\* The request is about a record that was created.
Placed == asked.kind \in {"update", "gallery"} \/ (asked.kind = "create" /\ asked.served)

\* Nobody knows a version that is not there yet.
VersionsBehind ==
  /\ creator.open /\ creator.id # 0 => creator.id \in Ids /\ creator.version <= made[creator.id].version
  /\ Placed => asked.id \in Ids /\ asked.version <= made[asked.id].version
  /\ creator.open /\ asked.kind \in {"update", "gallery"} => creator.version <= asked.version

\* With every answer received the form has made what it knows of.
OnePerForm ==
  losses = 0 =>
    /\ Len(made) <= 1
    /\ asked.kind = "create" /\ ~asked.served => made = <<>>
    /\ creator.open /\ creator.id = 0 /\ asked.kind = "none" => made = <<>>

\* With nobody else at work either, it knows the version as well.
VersionsKnown ==
  losses = 0 /\ touches = 0 =>
    /\ ~creator.refused
    /\ Placed => made[asked.id].version = asked.version
    /\ creator.open /\ creator.id # 0 /\ asked.kind = "none" => made[creator.id].version = creator.version

\* A record's pictures are those of the request that was served last, and a
\* product that has pictures has moved on from every version that is known.
GalleriesHold ==
  /\ asked.served /\ asked.kind \in {"create", "gallery"} => made[asked.id].pictures = asked.pictures
  /\ asked.served /\ asked.kind = "update" => made[asked.id].pictures = {}
  /\ creating \notin Single =>
       \A i \in Ids : made[i].pictures # {} =>
         /\ creator.open /\ creator.id = i => creator.version < made[i].version
         /\ asked.kind \in {"update", "gallery"} /\ ~asked.served /\ asked.id = i =>
              asked.version < made[i].version

CreationInvariant ==
  /\ CreationTypeOK /\ FormHolds /\ RequestShape /\ VersionsBehind
  /\ OnePerForm /\ VersionsKnown /\ GalleriesHold /\ CreatedPicturesAreKept

LEMMA NothingAsked == NoRequest \in RequestRows /\ NewForm \in FormRows
                      /\ [NewForm EXCEPT !.open = FALSE] \in FormRows
  BY DEF NoRequest, RequestRows, NewForm, FormRows

LEMMA CreationStarts == CreationInit => CreationInvariant
<1> SUFFICES ASSUME CreationInit PROVE CreationInvariant
  OBVIOUS
<1> USE DEF CreationInit
<1>1. CreationTypeOK
  BY NothingAsked DEF CreationTypeOK
<1>2. FormHolds /\ RequestShape
  BY DEF FormHolds, RequestShape, NewForm, NoRequest
<1>3. VersionsBehind /\ OnePerForm /\ VersionsKnown
  BY DEF VersionsBehind, OnePerForm, VersionsKnown, NewForm, NoRequest, Placed
<1>4. GalleriesHold /\ CreatedPicturesAreKept
  BY DEF GalleriesHold, CreatedPicturesAreKept, NoRequest, Ids
<1> QED
  BY <1>1, <1>2, <1>3, <1>4 DEF CreationInvariant

\* A picture is chosen or taken from the form: nothing is asked of the records.
LEMMA PicturesKeep ==
  ASSUME CreationInvariant, NEW m \in Drafts, ChoosePicture(m) \/ DropPicture(m)
  PROVE  CreationInvariant'
<1> USE DEF CreationInvariant
<1>1. /\ UNCHANGED <<creating, asked, made, discards, losses, touches>>
      /\ creator.open /\ shelf \subseteq shelf'
  BY DEF ChoosePicture, DropPicture
<1>2. creator' \in FormRows
  <2>1. CASE ChoosePicture(m)
    <3>1. creator' = [creator EXCEPT !.owned = creator.owned \union {m},
                        !.pictures = IF creating \in Single THEN {m} ELSE creator.pictures \union {m}]
      BY <2>1 DEF ChoosePicture
    <3>2. creator.owned \union {m} \in SUBSET Drafts /\ creator.pictures \union {m} \in SUBSET Drafts /\ {m} \in SUBSET Drafts
      BY DEF CreationTypeOK, FormRows
    <3> QED
      BY <3>1, <3>2 DEF CreationTypeOK, FormRows
  <2>2. CASE DropPicture(m)
    <3>1. creator' = [creator EXCEPT !.pictures = creator.pictures \ {m}]
      BY <2>2 DEF DropPicture
    <3>2. creator.pictures \ {m} \in SUBSET Drafts
      BY DEF CreationTypeOK, FormRows
    <3> QED
      BY <3>1, <3>2 DEF CreationTypeOK, FormRows
  <2> QED
    BY <2>1, <2>2
<1>3. /\ creator'.open = creator.open /\ creator'.id = creator.id /\ creator'.version = creator.version
      /\ creator'.refused = creator.refused /\ creator.owned \subseteq creator'.owned
  BY DEF ChoosePicture, DropPicture, CreationTypeOK, FormRows
<1>4. FormHolds'
  <2>1. CASE ChoosePicture(m)
    BY <1>1, <2>1 DEF ChoosePicture, FormHolds, CreationTypeOK, FormRows
  <2>2. CASE DropPicture(m)
    BY <1>1, <2>2 DEF DropPicture, FormHolds, CreationTypeOK, FormRows
  <2> QED
    BY <2>1, <2>2
<1>5. RequestShape' /\ VersionsBehind' /\ OnePerForm' /\ VersionsKnown' /\ GalleriesHold'
  BY <1>1, <1>3 DEF RequestShape, VersionsBehind, OnePerForm, VersionsKnown, GalleriesHold,
     Placed, Ids
<1>6. CreatedPicturesAreKept'
  <2>1. \A x \in shelf' : x \in shelf \/ x \in creator'.owned
    BY DEF ChoosePicture, DropPicture, CreationTypeOK, FormRows
  <2> QED
    BY <1>1, <1>3, <2>1 DEF CreatedPicturesAreKept, Shown, Ids
<1> QED
  BY <1>1, <1>2, <1>4, <1>5, <1>6 DEF CreationTypeOK

LEMMA CreateKeeps ==
  ASSUME CreationInvariant, Create
  PROVE  CreationInvariant'
<1> USE DEF CreationInvariant
<1>1. UNCHANGED <<creating, creator, made, shelf, discards, losses, touches>> /\ creator.open /\ asked = NoRequest
  BY DEF Create
<1>2. /\ asked'.kind = (IF creator.id = 0 THEN "create" ELSE "update") /\ ~asked'.served
      /\ asked'.id = creator.id /\ asked'.version = creator.version
      /\ asked'.pictures = (IF creating \in Single THEN creator.pictures ELSE {})
      /\ asked'.rest = (IF creating = "product" THEN creator.pictures ELSE {})
      /\ asked' \in RequestRows
  BY DEF Create, NoRequest, RequestRows, CreationTypeOK, FormRows
<1>3. FormHolds'
  BY <1>1, <1>2 DEF FormHolds
<1>4. RequestShape'
  BY <1>1, <1>2 DEF RequestShape, Single
<1>5. VersionsBehind'
  BY <1>1, <1>2 DEF VersionsBehind, Placed, Ids, CreationTypeOK, FormRows
<1>6. OnePerForm' /\ VersionsKnown'
  BY <1>1, <1>2 DEF OnePerForm, VersionsKnown, Placed, NoRequest
<1>7. GalleriesHold' /\ CreatedPicturesAreKept'
  BY <1>1, <1>2 DEF GalleriesHold, CreatedPicturesAreKept, Shown, Ids
<1> QED
  BY <1>1, <1>2, <1>3, <1>4, <1>5, <1>6, <1>7 DEF CreationTypeOK

\* A record is created: the only one, as long as no answer was lost.
LEMMA RecordIsCreated ==
  ASSUME CreationInvariant, ServeCreation, asked.kind = "create"
  PROVE  CreationInvariant'
<1> USE DEF CreationInvariant
<1> DEFINE new == [version |-> 0, pictures |-> asked.pictures]
<1>1. /\ UNCHANGED <<creating, creator, shelf, discards, losses, touches>>
      /\ ~asked.served /\ asked.pictures \subseteq shelf /\ ~Exists
      /\ made' = Append(made, new) /\ asked' = [asked EXCEPT !.served = TRUE, !.id = Len(made')]
  BY DEF ServeCreation, Allowed
<1>2. new \in MadeRows /\ made \in Seq(MadeRows)
  BY DEF MadeRows, CreationTypeOK, RequestRows
<1>3. /\ made' \in Seq(MadeRows) /\ Len(made') = Len(made) + 1 /\ Len(made') \in Nat
      /\ DOMAIN made = 1 .. Len(made) /\ DOMAIN made' = 1 .. Len(made')
      /\ made'[Len(made')] = new /\ \A i \in DOMAIN made : made'[i] = made[i]
  BY <1>1, <1>2
<1>4. /\ asked' \in RequestRows /\ asked'.kind = "create" /\ asked'.served /\ asked'.id = Len(made')
      /\ asked'.version = asked.version /\ asked'.pictures = asked.pictures /\ asked'.rest = asked.rest
  BY <1>1, <1>3 DEF CreationTypeOK, RequestRows
<1>5. Len(made) \in Nat
  BY <1>2
<1>6. FormHolds' /\ RequestShape'
  BY <1>1, <1>4 DEF FormHolds, RequestShape
<1>7. VersionsBehind'
  <2>1. creator.open => creator.id = 0
    BY DEF RequestShape
  <2> QED
    BY <1>1, <1>3, <1>4, <1>5, <2>1 DEF VersionsBehind, RequestShape, Placed, Ids
<1>8. OnePerForm'
  <2>1. losses = 0 => Len(made') = 1
    BY <1>1, <1>3 DEF OnePerForm
  <2> QED
    BY <1>1, <1>4, <2>1 DEF OnePerForm
<1>9. VersionsKnown'
  BY <1>1, <1>3, <1>4 DEF VersionsKnown, RequestShape
<1>10. GalleriesHold'
  <2>1. creating \notin Single => new.pictures = {}
    BY DEF RequestShape
  <2>2. ASSUME creating \notin Single, NEW i \in DOMAIN made', made'[i].pictures # {}, creator.open, creator.id = i
        PROVE  creator.version < made'[i].version
    BY <1>3, <1>5, <2>2 DEF RequestShape
  <2> QED
    BY <1>1, <1>3, <1>4, <2>2 DEF GalleriesHold, Ids
<1>11. CreatedPicturesAreKept'
  <2>1. \A x \in Drafts : Shown(x) => Shown(x)'
    BY <1>3, <1>5 DEF Shown, Ids
  <2>2. \A i \in DOMAIN made' : made'[i].pictures \subseteq shelf
    BY <1>1, <1>3, <1>5 DEF CreatedPicturesAreKept, Ids
  <2>3. \A x \in shelf : Shown(x) => Shown(x)'
    BY <1>3, <1>5 DEF Shown, Ids
  <2> QED
    BY <1>1, <2>2, <2>3 DEF CreatedPicturesAreKept, Ids
<1> QED
  BY <1>1, <1>3, <1>4, <1>6, <1>7, <1>8, <1>9, <1>10, <1>11 DEF CreationTypeOK

\* A record is written again: its version was the request's.
LEMMA RecordIsWritten ==
  ASSUME CreationInvariant, ServeCreation, asked.kind # "create"
  PROVE  CreationInvariant'
<1> USE DEF CreationInvariant
<1> DEFINE n == asked.id
           old == made[n]
           pics == IF asked.kind = "gallery" THEN asked.pictures ELSE old.pictures
<1>1. /\ UNCHANGED <<creating, creator, shelf, discards, losses, touches>>
      /\ ~asked.served /\ asked.pictures \subseteq shelf /\ asked.kind # "none"
      /\ old.version = asked.version
      /\ made' = [made EXCEPT ![n] = [version |-> old.version + 1, pictures |-> pics]]
      /\ asked' = [asked EXCEPT !.served = TRUE, !.version = asked.version + 1]
  BY DEF ServeCreation, Allowed
<1>2. Placed /\ asked.kind \in {"update", "gallery"} /\ creating \notin Single
  BY <1>1 DEF Placed, CreationTypeOK, RequestRows, RequestShape
<1>3. n \in DOMAIN made /\ made \in Seq(MadeRows) /\ old \in MadeRows
  BY <1>2 DEF VersionsBehind, Ids, CreationTypeOK
<1>4. old.version \in Nat /\ pics \subseteq Drafts
  BY <1>3 DEF MadeRows, CreationTypeOK, RequestRows
<1>5. /\ made' \in Seq(MadeRows) /\ DOMAIN made' = DOMAIN made /\ Len(made') = Len(made)
      /\ made'[n].version = old.version + 1 /\ made'[n].pictures = pics
      /\ \A i \in DOMAIN made : i # n => made'[i] = made[i]
  <2>1. [version |-> old.version + 1, pictures |-> pics] \in MadeRows
    BY <1>4 DEF MadeRows
  <2> QED
    BY <1>1, <1>3, <2>1
<1>6. /\ asked' \in RequestRows /\ asked'.kind = asked.kind /\ asked'.served /\ asked'.id = n
      /\ asked'.version = old.version + 1 /\ asked'.pictures = asked.pictures /\ asked'.rest = asked.rest
  <2>1. asked' = [kind |-> asked.kind, served |-> TRUE, id |-> n, version |-> old.version + 1,
                  pictures |-> asked.pictures, rest |-> asked.rest]
    BY <1>1 DEF CreationTypeOK, RequestRows
  <2>2. asked.kind \in {"none", "create", "update", "gallery"} /\ n \in Nat /\ old.version + 1 \in Nat
        /\ asked.pictures \in SUBSET Drafts /\ asked.rest \in SUBSET Drafts
    BY <1>4 DEF CreationTypeOK, RequestRows
  <2>3. asked' \in RequestRows
    BY <2>1, <2>2 DEF RequestRows
  <2> QED
    BY <2>1, <2>3
\* The version was the request's, so there were no pictures yet.
<1>7. old.pictures = {}
  BY <1>1, <1>2, <1>3, <1>4 DEF GalleriesHold, Ids
<1>8. FormHolds' /\ RequestShape'
  BY <1>1, <1>2, <1>6 DEF FormHolds, RequestShape
<1>9. VersionsBehind'
  <2>1. \A i \in DOMAIN made : made[i].version \in Nat
    <3>1. \A i \in DOMAIN made : made[i] \in MadeRows
      BY <1>3
    <3> QED
      BY <3>1 DEF MadeRows
  <2>2. creator.version \in Nat
    BY DEF CreationTypeOK, FormRows
  <2>3. \A i \in DOMAIN made : made'[i].version >= made[i].version
    BY <1>4, <1>5, <2>1
  <2>4. creator.open /\ creator.id # 0 => creator.id \in DOMAIN made' /\ creator.version <= made'[creator.id].version
    BY <1>5, <2>1, <2>2, <2>3 DEF VersionsBehind, Ids
  <2>5. creator.open => creator.version <= asked'.version
    BY <1>1, <1>2, <1>4, <1>6, <2>2 DEF VersionsBehind
  <2> QED
    BY <1>1, <1>2, <1>3, <1>4, <1>5, <1>6, <2>4, <2>5 DEF VersionsBehind, Placed, Ids
<1>10. OnePerForm'
  BY <1>1, <1>2, <1>5, <1>6 DEF OnePerForm
<1>11. VersionsKnown'
  BY <1>1, <1>2, <1>5, <1>6 DEF VersionsKnown, Placed
<1>12. GalleriesHold'
  <2>1. ASSUME NEW i \in DOMAIN made, made'[i].pictures # {}, creator.open, creator.id = i
        PROVE  creator.version < made'[i].version
    <3>1. CASE i = n
      BY <1>1, <1>2, <1>4, <1>5, <2>1, <3>1 DEF VersionsBehind, CreationTypeOK, FormRows
    <3>2. CASE i # n
      BY <1>2, <1>5, <2>1, <3>2 DEF GalleriesHold, Ids
    <3> QED
      BY <3>1, <3>2
  <2> QED
    BY <1>1, <1>2, <1>5, <1>6, <1>7, <2>1 DEF GalleriesHold, Ids
<1>13. CreatedPicturesAreKept'
  <2>1. \A x \in shelf : Shown(x) => Shown(x)'
    BY <1>5, <1>7 DEF Shown, Ids
  <2>2. \A i \in DOMAIN made' : made'[i].pictures \subseteq shelf
    BY <1>1, <1>5, <1>7 DEF CreatedPicturesAreKept, Ids
  <2> QED
    BY <1>1, <2>1, <2>2 DEF CreatedPicturesAreKept, Ids
<1> QED
  BY <1>1, <1>5, <1>6, <1>8, <1>9, <1>10, <1>11, <1>12, <1>13 DEF CreationTypeOK

\* What the form made goes with it into the catalog, the rest to be discarded.
LEMMA FormGoes ==
  ASSUME CreationInvariant, NEW kept, Gone(kept), asked' = NoRequest \/ asked' = asked,
         UNCHANGED <<creating, made, shelf, losses, touches>>,
         \A x \in kept : Shown(x)
  PROVE  CreationInvariant'
<1> USE DEF CreationInvariant
<1>1. /\ creator' \in FormRows /\ ~creator'.open /\ creator'.owned = {} /\ ~creator'.refused
      /\ creator'.id = 0 /\ creator'.version = 0
  BY NothingAsked DEF Gone, NewForm
<1>2. asked' \in RequestRows
  BY NothingAsked DEF CreationTypeOK
<1>3. FormHolds' /\ RequestShape'
  BY <1>1 DEF FormHolds, RequestShape, NoRequest
<1>4. VersionsBehind' /\ OnePerForm' /\ VersionsKnown' /\ GalleriesHold'
  BY <1>1 DEF VersionsBehind, OnePerForm, VersionsKnown, GalleriesHold, Placed, Ids, NoRequest
<1>5. CreatedPicturesAreKept'
  <2>1. ASSUME NEW x \in shelf PROVE Shown(x) \/ x \in discards'
    BY DEF Gone, CreatedPicturesAreKept, FormHolds
  <2>2. \A x \in shelf : Shown(x) => Shown(x)'
    BY DEF Shown, Ids
  <2> QED
    BY <2>1, <2>2 DEF CreatedPicturesAreKept, Ids
<1> QED
  BY <1>1, <1>2, <1>3, <1>4, <1>5 DEF CreationTypeOK

LEMMA AnswersKeep ==
  ASSUME CreationInvariant, CreationAnswered \/ GalleryAnswered
  PROVE  CreationInvariant'
<1> USE DEF CreationInvariant
<1>1. asked.served /\ Placed /\ UNCHANGED <<creating, made, shelf, losses, touches>>
  BY DEF CreationAnswered, GalleryAnswered, Placed
<1>2. asked.id \in DOMAIN made /\ asked.version <= made[asked.id].version
  BY <1>1 DEF VersionsBehind, Ids
<1>3. CASE asked' = NoRequest /\ Gone(asked.pictures)
  <2>1. \A x \in asked.pictures : x \in made[asked.id].pictures
    BY <1>1 DEF GalleriesHold, CreationAnswered, GalleryAnswered, RequestShape
  <2>2. \A x \in asked.pictures : Shown(x)
    BY <1>2, <2>1 DEF Shown, Ids
  <2> QED
    BY <1>1, <1>3, <2>2, FormGoes
<1>4. CASE /\ asked.kind \in {"create", "update"} /\ asked.rest # {} /\ UNCHANGED discards
           /\ creator' = Known(asked.id, asked.version)
           /\ asked' = [asked EXCEPT !.kind = "gallery", !.served = FALSE, !.pictures = asked.rest]
  <2>1. /\ asked' \in RequestRows /\ asked'.kind = "gallery" /\ ~asked'.served /\ asked'.id = asked.id
        /\ asked'.version = asked.version /\ asked'.pictures = asked.rest /\ asked'.rest = asked.rest
    BY <1>4 DEF CreationTypeOK, RequestRows
  <2>2. creating \notin Single /\ made[asked.id].pictures = {}
    BY <1>1, <1>4 DEF RequestShape, GalleriesHold
  <2>3. creator' \in FormRows
    BY <1>4 DEF Known, CreationTypeOK, FormRows, RequestRows
  <2>4. /\ creator'.open = creator.open /\ creator'.owned = creator.owned /\ creator'.pictures = creator.pictures
        /\ creator.open => creator'.id = asked.id /\ creator'.version = asked.version /\ ~creator'.refused
        /\ ~creator.open => creator' = creator
    BY <1>4 DEF Known, CreationTypeOK, FormRows
  <2>5. asked.id \in Nat /\ asked.id # 0 /\ asked.version \in Nat
    BY <1>2 DEF CreationTypeOK, RequestRows
  <2>6. FormHolds'
    BY <1>1, <1>4, <2>1, <2>4 DEF FormHolds
  <2>7. RequestShape'
    BY <1>1, <2>1, <2>2, <2>4, <2>5 DEF RequestShape
  <2>8. VersionsBehind'
    BY <1>1, <1>2, <2>1, <2>4, <2>5 DEF VersionsBehind, Placed, Ids
  <2>9. OnePerForm' /\ VersionsKnown'
    BY <1>1, <2>1, <2>4, <2>5 DEF OnePerForm, VersionsKnown, Placed
  <2>10. GalleriesHold'
    BY <1>1, <2>1, <2>2, <2>4 DEF GalleriesHold, Ids
  <2>11. CreatedPicturesAreKept'
    BY <1>1, <1>4, <2>4 DEF CreatedPicturesAreKept, Shown, Ids
  <2> QED
    BY <1>1, <2>1, <2>3, <2>6, <2>7, <2>8, <2>9, <2>10, <2>11 DEF CreationTypeOK
<1> QED
  BY <1>3, <1>4 DEF CreationAnswered, GalleryAnswered

\* With every answer received and nobody else at work there is no refusal.
LEMMA RefusalKeeps ==
  ASSUME CreationInvariant, CreationRefused
  PROVE  CreationInvariant'
<1> USE DEF CreationInvariant
<1>1. /\ UNCHANGED <<creating, made, shelf, discards, losses, touches>> /\ asked' = NoRequest
      /\ ~asked.served /\ asked.kind # "none" /\ ~Allowed
  BY DEF CreationRefused
<1>2. /\ creator' \in FormRows /\ creator'.refused = creator.open /\ creator'.open = creator.open
      /\ creator'.id = creator.id /\ creator'.version = creator.version
      /\ creator'.owned = creator.owned /\ creator'.pictures = creator.pictures
  BY DEF CreationRefused, CreationTypeOK, FormRows
<1>3. ASSUME creator.open, losses = 0
      PROVE  touches # 0 /\ (asked.kind # "create" => creator.id # 0) /\ asked.kind # "create"
  <2>1. asked.pictures \subseteq shelf
    BY <1>3 DEF FormHolds
  <2>2. asked.kind # "create"
    BY <1>1, <1>3, <2>1 DEF OnePerForm, Allowed, Exists
  <2>3. Placed /\ asked.kind \in {"update", "gallery"}
    BY <1>1, <2>2 DEF Placed, CreationTypeOK, RequestRows
  <2>4. touches # 0
    BY <1>1, <1>3, <2>1, <2>2, <2>3 DEF VersionsKnown, Allowed
  <2>5. creator.id # 0
    BY <1>3, <2>3 DEF RequestShape, VersionsBehind, Ids, CreationTypeOK
  <2> QED
    BY <2>2, <2>4, <2>5
<1>4. FormHolds' /\ RequestShape'
  BY <1>1, <1>2 DEF FormHolds, RequestShape, NoRequest
<1>5. VersionsBehind' /\ GalleriesHold'
  BY <1>1, <1>2 DEF VersionsBehind, GalleriesHold, Placed, Ids, NoRequest
<1>6. OnePerForm'
  BY <1>1, <1>2, <1>3 DEF OnePerForm, NoRequest
<1>7. VersionsKnown'
  BY <1>1, <1>2, <1>3 DEF VersionsKnown, Placed, NoRequest, FormHolds
<1>8. CreatedPicturesAreKept'
  BY <1>1, <1>2 DEF CreatedPicturesAreKept, Shown, Ids
<1> QED
  BY <1>1, <1>2, <1>4, <1>5, <1>6, <1>7, <1>8, NothingAsked DEF CreationTypeOK

LEMMA LossKeeps ==
  ASSUME CreationInvariant, CreationLost
  PROVE  CreationInvariant'
<1> USE DEF CreationInvariant
<1>1. /\ UNCHANGED <<creating, creator, made, shelf, discards, touches>> /\ asked' = NoRequest
      /\ losses' = losses + 1 /\ losses' \in Nat /\ losses' # 0
  BY DEF CreationLost, CreationTypeOK
<1>2. FormHolds' /\ RequestShape'
  BY <1>1 DEF FormHolds, RequestShape, NoRequest
<1>3. VersionsBehind' /\ GalleriesHold' /\ OnePerForm' /\ VersionsKnown'
  BY <1>1 DEF VersionsBehind, GalleriesHold, OnePerForm, VersionsKnown, Placed, Ids, NoRequest
<1>4. CreatedPicturesAreKept'
  BY <1>1 DEF CreatedPicturesAreKept, Shown, Ids
<1> QED
  BY <1>1, <1>2, <1>3, <1>4, NothingAsked DEF CreationTypeOK

LEMMA TouchKeeps ==
  ASSUME CreationInvariant, NEW n \in 1 .. MaxRecords, Touch(n)
  PROVE  CreationInvariant'
<1> USE DEF CreationInvariant
<1>1. /\ UNCHANGED <<creating, creator, asked, shelf, discards, losses>>
      /\ touches' = touches + 1 /\ touches' \in Nat /\ touches' # 0
      /\ made' = [made EXCEPT ![n].version = made[n].version + 1] /\ n \in DOMAIN made
  BY DEF Touch, Ids, CreationTypeOK
<1>2. made \in Seq(MadeRows) /\ made[n] \in MadeRows
  BY <1>1 DEF CreationTypeOK
<1>3. made[n].version \in Nat /\ made[n].pictures \subseteq Drafts
  BY <1>2 DEF MadeRows
<1>4. /\ made' \in Seq(MadeRows) /\ DOMAIN made' = DOMAIN made /\ Len(made') = Len(made)
      /\ made'[n].version = made[n].version + 1 /\ made'[n].pictures = made[n].pictures
      /\ \A i \in DOMAIN made : i # n => made'[i] = made[i]
  <2> DEFINE row == [made[n] EXCEPT !.version = made[n].version + 1]
  <2>1. row \in MadeRows /\ row.version = made[n].version + 1 /\ row.pictures = made[n].pictures
    BY <1>2, <1>3 DEF MadeRows
  <2>2. made' = [made EXCEPT ![n] = row]
    BY <1>1
  <2> HIDE DEF row
  <2> QED
    BY SMTT(30), <1>1, <1>2, <2>1, <2>2
<1>5. ASSUME NEW i \in DOMAIN made
      PROVE  made[i].version \in Nat /\ made'[i].version >= made[i].version /\ made'[i].pictures = made[i].pictures
  <2>1. made[i] \in MadeRows
    BY <1>2
  <2>2. made[i].version \in Nat
    BY <2>1 DEF MadeRows
  <2> QED
    BY <1>3, <1>4, <2>2
<1>6. creator.version \in Nat /\ asked.version \in Nat
  BY DEF CreationTypeOK, FormRows, RequestRows
<1>7. FormHolds' /\ RequestShape'
  BY <1>1 DEF FormHolds, RequestShape
<1>8. VersionsBehind'
  BY <1>1, <1>4, <1>5, <1>6 DEF VersionsBehind, Placed, Ids
<1>9. OnePerForm' /\ VersionsKnown'
  BY <1>1, <1>2, <1>4 DEF OnePerForm, VersionsKnown
<1>10. GalleriesHold'
  <2>1. asked.served => asked.id \in DOMAIN made
    BY DEF VersionsBehind, Placed, Ids, CreationTypeOK, RequestRows, RequestShape, NoRequest
  <2> QED
    BY <1>1, <1>4, <1>5, <1>6, <2>1 DEF GalleriesHold, Ids
<1>11. CreatedPicturesAreKept'
  BY <1>1, <1>4, <1>5 DEF CreatedPicturesAreKept, Shown, Ids
<1> QED
  BY <1>1, <1>4, <1>7, <1>8, <1>9, <1>10, <1>11 DEF CreationTypeOK

LEMMA DiscardKeeps ==
  ASSUME CreationInvariant, NEW m \in Drafts, ServeDiscard(m)
  PROVE  CreationInvariant'
<1> USE DEF CreationInvariant
<1>1. /\ UNCHANGED <<creating, creator, asked, made, losses, touches>> /\ ~creator.open
      /\ discards' = discards \ {m} /\ shelf' = IF Shown(m) THEN shelf ELSE shelf \ {m}
  BY DEF ServeDiscard, FormHolds
<1>2. FormHolds' /\ RequestShape'
  BY <1>1 DEF FormHolds, RequestShape
<1>3. VersionsBehind' /\ GalleriesHold' /\ OnePerForm' /\ VersionsKnown'
  BY <1>1 DEF VersionsBehind, GalleriesHold, OnePerForm, VersionsKnown, Placed, Ids
<1>4. CreatedPicturesAreKept'
  BY <1>1 DEF CreatedPicturesAreKept, Shown, Ids
<1> QED
  BY <1>1, <1>2, <1>3, <1>4 DEF CreationTypeOK

LEMMA CreationKeeps == CreationInvariant /\ [CreationNext]_creationVars => CreationInvariant'
<1> SUFFICES ASSUME CreationInvariant, [CreationNext]_creationVars PROVE CreationInvariant'
  OBVIOUS
<1>1. CASE UNCHANGED creationVars
  BY <1>1 DEF creationVars, CreationInvariant, CreationTypeOK, FormHolds, RequestShape,
     VersionsBehind, OnePerForm,
              VersionsKnown, GalleriesHold, CreatedPicturesAreKept, Placed, Shown, Ids
<1>2. CASE LeaveForm
  BY <1>2, FormGoes DEF LeaveForm
<1> QED
  BY <1>1, <1>2, PicturesKeep, CreateKeeps, RecordIsCreated, RecordIsWritten, AnswersKeep,
     RefusalKeeps,
     LossKeeps, TouchKeeps, DiscardKeeps DEF CreationNext

(***************************************************************************)
(* However often a form is saved again it makes one record, whatever other *)
(* administrators write, unless an answer was lost.                        *)
(***************************************************************************)
THEOREM RecordsAreCreatedOnce == CreationSpec => []CreatedOnce
<1>1. CreationInvariant => CreatedOnce
  BY DEF CreationInvariant, OnePerForm, VersionsKnown, CreatedOnce, CreationTypeOK
<1> QED
  BY <1>1, CreationStarts, CreationKeeps, PTL DEF CreationSpec

-----------------------------------------------------------------------------
(***************************************************************************)
(* Forms of records (AdminRecords): the inductive invariants               *)
(***************************************************************************)
Pictures == Media \union {NoPicture}
RecordRows == [text: Nat, picture: Pictures, version: Nat]
LoadedRows == [text: Nat, token: Nat, picture: Pictures, ptoken: Nat]
EditorRows == [open: BOOLEAN, text: Nat, typed: BOOLEAN, token: Nat, reviewed: BOOLEAN, failed: BOOLEAN,
               picture: Pictures, ptoken: Nat, pfailed: BOOLEAN, mixed: BOOLEAN, chosen: Pictures,
               owned: SUBSET Media, retained: SUBSET Media]
SaveRows == [stage: {"idle", "sent", "done"}, mine: BOOLEAN, body: Pictures, token: Nat, base: Nat,
             mixed: BOOLEAN]
PictureRows == [stage: {"idle", "sent", "done"}, mine: BOOLEAN, body: Pictures, token: Nat, base: Pictures,
                mixed: BOOLEAN]
UploadRows == [stage: {"idle", "sending", "complete"}, mine: BOOLEAN, medium: Pictures]
TraceRows == [blind: SUBSET {"text", "picture"}, used: SUBSET Media, excused: SUBSET Media]

RowsTypeOK ==
  /\ kind \in Kinds /\ record \in RecordRows /\ loaded \in LoadedRows
  /\ editor \in EditorRows /\ save \in SaveRows /\ picture \in PictureRows /\ upload \in UploadRows
  /\ trace \in TraceRows /\ stored \subseteq Media /\ deletes \subseteq Media

\* A closed editor holds nothing, and no request is its own.
MineIsOpen ==
  /\ ~editor.open => editor = Closed /\ ~save.mine /\ ~picture.mine /\ ~upload.mine
  /\ IF upload.stage = "idle" THEN upload = NoUpload ELSE upload.medium \in Media
  /\ picture.stage # "idle" => kind \in Pictured

\* What was ever uploaded, but for the picture on its way.
Arrived == trace.used \ (IF upload.stage = "sending" THEN {upload.medium} ELSE {})
Named == {record.picture, loaded.picture, editor.picture, editor.chosen, picture.body}

PicturesArrived ==
  /\ stored \union deletes \union editor.owned \union editor.retained \union trace.excused \subseteq Arrived
  /\ Named \subseteq Arrived \union {NoPicture}
  /\ upload.medium \in trace.used \union {NoPicture}

\* Pictures that were on record and that the editor will not delete.
Recorded == {loaded.picture, editor.picture} \union editor.retained
              \union (IF picture.stage = "done" THEN {picture.body} ELSE {})

RecordedAreExcused == \A m \in stored \intersect Recorded : m = record.picture \/ m \in trace.excused

PictureInvariant == RowsTypeOK /\ MineIsOpen /\ PicturesArrived /\ RecordedAreExcused /\ PicturesAreAccountedFor

\* A token goes with the text, or the picture, the record had under it.
Versioned == kind \notin {"stock", "model"}

Knows(token, text) ==
  /\ kind = "stock" => token = text
  /\ Versioned => token <= record.version /\ (token = record.version => text = record.text)

KnowsPicture(token, shown) ==
  Versioned /\ kind \in Pictured => token <= record.version /\ (token = record.version => shown = record.picture)

\* Every token is of a version there has been.
TokensArePast ==
  /\ record.text <= record.version
  /\ Versioned => /\ loaded.token <= record.version /\ loaded.ptoken <= record.version
                  /\ editor.token <= record.version /\ editor.ptoken <= record.version
                  /\ save.token <= record.version /\ picture.token <= record.version

ListsKnow == Knows(loaded.token, loaded.text) /\ KnowsPicture(loaded.ptoken, loaded.picture)

EditorKnows ==
  editor.open /\ ~editor.mixed => Knows(editor.token, editor.text) /\ KnowsPicture(editor.ptoken, editor.picture)

RequestsKnow ==
  /\ (save.stage = "sent" /\ ~save.mixed) \/ save.stage = "done" => Knows(save.token, save.base)
  /\ picture.stage = "sent" /\ ~picture.mixed => KnowsPicture(picture.token, picture.base)
  /\ picture.stage = "done" => KnowsPicture(picture.token, picture.body)

\* Of the form's and the picture's request one is served at most, and what the
\* other shows is then still the record's.
OneIsServed ==
  Versioned /\ ~editor.mixed =>
    /\ save.mine /\ save.stage = "sent" => save.token <= editor.token
    /\ save.mine /\ save.stage = "done" => /\ editor.token < save.token /\ editor.ptoken < save.token
                                           /\ ~(picture.mine /\ picture.stage = "done")
                                           /\ editor.ptoken = editor.token => KnowsPicture(save.token, editor.picture)
    /\ picture.mine /\ picture.stage = "sent" => picture.token <= editor.ptoken
    /\ picture.mine /\ picture.stage = "done" => /\ editor.token < picture.token /\ editor.ptoken < picture.token
                                                 /\ editor.ptoken = editor.token => Knows(picture.token, editor.text)

BlindInvariant ==
  /\ TokensArePast /\ ListsKnow /\ EditorKnows /\ RequestsKnow /\ OneIsServed
  /\ trace.blind = {}

-----------------------------------------------------------------------------
(***************************************************************************)
(* Forms of records: types.  One lemma per action.                         *)
(***************************************************************************)
LEMMA TokenIsNumber ==
  ASSUME NEW r \in RecordRows
  PROVE  /\ Token(kind, r) \in Nat
         /\ Versioned => Token(kind, r) = r.version
         /\ kind = "stock" => Token(kind, r) = r.text
         /\ kind = "model" => Token(kind, r) = 0
  BY DEF Token, RecordRows, Versioned

LEMMA RecordSet ==
  ASSUME record \in RecordRows, NEW k \in Nat, NEW q \in Pictures
  PROVE  /\ [record EXCEPT !.text = k, !.version = k] \in RecordRows
         /\ [record EXCEPT !.text = k, !.version = k].text = k
         /\ [record EXCEPT !.text = k, !.version = k].version = k
         /\ [record EXCEPT !.text = k, !.version = k].picture = record.picture
         /\ [record EXCEPT !.picture = q, !.version = k] \in RecordRows
         /\ [record EXCEPT !.picture = q, !.version = k].text = record.text
         /\ [record EXCEPT !.picture = q, !.version = k].version = k
         /\ [record EXCEPT !.picture = q, !.version = k].picture = q
  BY DEF RecordRows

LEMMA RewrittenRow ==
  ASSUME record \in RecordRows
  PROVE  /\ Rewritten \in RecordRows /\ Token(kind, Rewritten) \in Nat
         /\ Rewritten.text = record.version + 1 /\ Rewritten.version = record.version + 1
         /\ Rewritten.picture = record.picture
<1>1. Rewritten = [record EXCEPT !.text = record.version + 1, !.version = record.version + 1]
  BY DEF Rewritten
<1>2. record.version + 1 \in Nat /\ record.picture \in Pictures
  BY DEF RecordRows
<1>3. Rewritten \in RecordRows /\ Rewritten.text = record.version + 1
      /\ Rewritten.version = record.version + 1 /\ Rewritten.picture = record.picture
  BY <1>1, <1>2, RecordSet
<1> QED
  BY <1>3, TokenIsNumber

\* What a save adds to the history is a part of it.
LEMMA TraceGrows ==
  ASSUME trace \in TraceRows, NEW U \in SUBSET Media, NEW X \in SUBSET Media,
         NEW B \in SUBSET {"text", "picture"}
  PROVE  /\ [trace EXCEPT !.used = trace.used \union U, !.excused = trace.excused \union X] \in TraceRows
         /\ [trace EXCEPT !.excused = trace.excused \union X, !.blind = trace.blind \union B] \in TraceRows
         /\ [trace EXCEPT !.blind = trace.blind \union B] \in TraceRows
         /\ [trace EXCEPT !.excused = trace.excused \union X] \in TraceRows
  BY DEF TraceRows

\* An upload whose editor goes.
LEMMA UploadLeft ==
  ASSUME upload \in UploadRows, IF upload.stage = "idle" THEN upload = NoUpload ELSE upload.medium \in Media
  PROVE  LET left == [upload EXCEPT !.mine = FALSE] IN
         IF left.stage = "idle" THEN left = NoUpload ELSE left.medium \in Media
<1> DEFINE left == [upload EXCEPT !.mine = FALSE]
<1>1. left.stage = upload.stage /\ left.medium = upload.medium
  BY DEF UploadRows
<1>2. upload.mine = FALSE => left = upload
  BY DEF UploadRows
<1>3. NoUpload.mine = FALSE
  BY DEF NoUpload
<1> QED
  BY <1>1, <1>2, <1>3

\* A form that opens, on the list's row or on a fresh one.
LEMMA EditorFills ==
  /\ Closed \in EditorRows
  /\ \A snapshot \in LoadedRows : Filled(snapshot) \in EditorRows
  BY DEF Closed, Filled, EditorRows, LoadedRows, Pictures

LEMMA RivalSaveRows ==
  ASSUME RowsTypeOK, MineIsOpen, RivalSave
  PROVE  RowsTypeOK' /\ MineIsOpen'
<1>1. kind' \in Kinds /\ record' \in RecordRows /\ loaded' \in LoadedRows /\ trace' \in TraceRows
  BY RewrittenRow DEF RivalSave, RowsTypeOK
<1>2. editor' \in EditorRows
  BY DEF RivalSave, Rewritten, form, gallery, RowsTypeOK, RecordRows, LoadedRows, EditorRows,
     SaveRows, PictureRows, UploadRows, TraceRows, Pictures
<1>3. save' \in SaveRows /\ picture' \in PictureRows /\ upload' \in UploadRows
  BY DEF RivalSave, Rewritten, form, gallery, RowsTypeOK, SaveRows, PictureRows, UploadRows,
     EditorRows, Pictures
<1>4. stored' \subseteq Media /\ deletes' \subseteq Media
  BY DEF RivalSave, Rewritten, form, gallery, RowsTypeOK, MineIsOpen, EditorRows, PictureRows,
     UploadRows, Pictures
<1>5. MineIsOpen'
  BY DEF RivalSave, Rewritten, form, gallery, RowsTypeOK, MineIsOpen, SaveRows, PictureRows,
     UploadRows, EditorRows, NoUpload
<1> QED
  BY <1>1, <1>2, <1>3, <1>4, <1>5 DEF RowsTypeOK

LEMMA RivalPictureRows ==
  ASSUME RowsTypeOK, MineIsOpen, NEW m \in Pictures, RivalPicture(m)
  PROVE  RowsTypeOK' /\ MineIsOpen'
<1>1. kind' \in Kinds /\ record' \in RecordRows /\ loaded' \in LoadedRows /\ trace' \in TraceRows
  <2>1. record' = [record EXCEPT !.picture = m, !.version = record.version + 1]
        /\ trace' = [trace EXCEPT !.used = trace.used \union ({m} \ {NoPicture}),
                                  !.excused = trace.excused \union ({record.picture} \ {NoPicture})]
        /\ UNCHANGED <<kind, loaded>>
    BY DEF RivalPicture
  <2>2. {m} \ {NoPicture} \subseteq Media /\ {record.picture} \ {NoPicture} \subseteq Media
    BY DEF RowsTypeOK, RecordRows, Pictures
  <2>3. record' \in RecordRows
    <3>1. m \in Pictures /\ record.version + 1 \in Nat
      BY DEF RowsTypeOK, RecordRows
    <3> QED
      BY <2>1, <3>1, RecordSet DEF RowsTypeOK
  <2> QED
    BY <2>1, <2>2, <2>3, TraceGrows DEF RowsTypeOK
<1>2. editor' \in EditorRows
  BY DEF RivalPicture, NoPicture, Pictured, form, gallery, RowsTypeOK, RecordRows, LoadedRows,
     EditorRows, SaveRows, PictureRows, UploadRows, TraceRows, Pictures
<1>3. save' \in SaveRows /\ picture' \in PictureRows /\ upload' \in UploadRows
  BY DEF RivalPicture, NoPicture, Pictured, form, gallery, RowsTypeOK, SaveRows, PictureRows,
     UploadRows, EditorRows, Pictures
<1>4. stored' \subseteq Media /\ deletes' \subseteq Media
  BY DEF RivalPicture, NoPicture, Pictured, form, gallery, RowsTypeOK, MineIsOpen, EditorRows,
     PictureRows, UploadRows, Pictures
<1>5. MineIsOpen'
  BY DEF RivalPicture, NoPicture, Pictured, form, gallery, RowsTypeOK, MineIsOpen, SaveRows,
     PictureRows, UploadRows, EditorRows, NoUpload
<1> QED
  BY <1>1, <1>2, <1>3, <1>4, <1>5 DEF RowsTypeOK

LEMMA LoadRecordRows ==
  ASSUME RowsTypeOK, MineIsOpen, LoadRecord
  PROVE  RowsTypeOK' /\ MineIsOpen'
<1>1. kind' \in Kinds /\ record' \in RecordRows /\ loaded' \in LoadedRows /\ trace' \in TraceRows
  BY DEF LoadRecord, Token, Snapshot, form, gallery, RowsTypeOK, RecordRows, LoadedRows,
     TraceRows, Pictures
<1>2. editor' \in EditorRows
  BY DEF LoadRecord, Token, Snapshot, form, gallery, RowsTypeOK, RecordRows, LoadedRows,
     EditorRows, SaveRows, PictureRows, UploadRows, TraceRows, Pictures
<1>3. save' \in SaveRows /\ picture' \in PictureRows /\ upload' \in UploadRows
  BY DEF LoadRecord, Token, Snapshot, form, gallery, RowsTypeOK, SaveRows, PictureRows,
     UploadRows, EditorRows, Pictures
<1>4. stored' \subseteq Media /\ deletes' \subseteq Media
  BY DEF LoadRecord, Token, Snapshot, form, gallery, RowsTypeOK, MineIsOpen, EditorRows,
     PictureRows, UploadRows, Pictures
<1>5. MineIsOpen'
  BY DEF LoadRecord, Token, Snapshot, form, gallery, RowsTypeOK, MineIsOpen, SaveRows,
     PictureRows, UploadRows, EditorRows, NoUpload
<1> QED
  BY <1>1, <1>2, <1>3, <1>4, <1>5 DEF RowsTypeOK

LEMMA LoadGalleryRows ==
  ASSUME RowsTypeOK, MineIsOpen, LoadGallery
  PROVE  RowsTypeOK' /\ MineIsOpen'
<1>1. kind' \in Kinds /\ record' \in RecordRows /\ loaded' \in LoadedRows /\ trace' \in TraceRows
  BY DEF LoadGallery, form, gallery, RowsTypeOK, RecordRows, LoadedRows, TraceRows, Pictures
<1>2. editor' \in EditorRows
  BY DEF LoadGallery, form, gallery, RowsTypeOK, RecordRows, LoadedRows, EditorRows, SaveRows,
     PictureRows, UploadRows, TraceRows, Pictures
<1>3. save' \in SaveRows /\ picture' \in PictureRows /\ upload' \in UploadRows
  BY DEF LoadGallery, form, gallery, RowsTypeOK, SaveRows, PictureRows, UploadRows,
     EditorRows, Pictures
<1>4. stored' \subseteq Media /\ deletes' \subseteq Media
  BY DEF LoadGallery, form, gallery, RowsTypeOK, MineIsOpen, EditorRows, PictureRows,
     UploadRows, Pictures
<1>5. MineIsOpen'
  BY DEF LoadGallery, form, gallery, RowsTypeOK, MineIsOpen, SaveRows, PictureRows,
     UploadRows, EditorRows, NoUpload
<1> QED
  BY <1>1, <1>2, <1>3, <1>4, <1>5 DEF RowsTypeOK

LEMMA OpenEditorRows ==
  ASSUME RowsTypeOK, MineIsOpen, OpenEditor
  PROVE  RowsTypeOK' /\ MineIsOpen'
<1>1. kind' \in Kinds /\ record' \in RecordRows /\ loaded' \in LoadedRows /\ trace' \in TraceRows
  BY DEF OpenEditor, NoPicture, Closed, Filled, gallery, RowsTypeOK, RecordRows, LoadedRows,
     TraceRows, Pictures, form
<1>2. editor' \in EditorRows
  BY DEF OpenEditor, NoPicture, Closed, Filled, gallery, RowsTypeOK, RecordRows, LoadedRows,
     EditorRows, SaveRows, PictureRows, UploadRows, TraceRows, Pictures, form
<1>3. save' \in SaveRows /\ picture' \in PictureRows /\ upload' \in UploadRows
  BY DEF OpenEditor, NoPicture, Closed, Filled, gallery, RowsTypeOK, SaveRows, PictureRows,
     UploadRows, EditorRows, Pictures, form
<1>4. stored' \subseteq Media /\ deletes' \subseteq Media
  BY DEF OpenEditor, NoPicture, Closed, Filled, gallery, RowsTypeOK, MineIsOpen, EditorRows,
     PictureRows, UploadRows, Pictures, form
<1>5. MineIsOpen'
  BY DEF OpenEditor, NoPicture, Closed, Filled, gallery, RowsTypeOK, MineIsOpen, SaveRows,
     PictureRows, UploadRows, EditorRows, form, NoUpload
<1> QED
  BY <1>1, <1>2, <1>3, <1>4, <1>5 DEF RowsTypeOK

LEMMA CloseEditorRows ==
  ASSUME RowsTypeOK, MineIsOpen, CloseEditor
  PROVE  RowsTypeOK' /\ MineIsOpen'
<1>1. kind' \in Kinds /\ record' \in RecordRows /\ loaded' \in LoadedRows /\ trace' \in TraceRows
  BY DEF CloseEditor, NoPicture, Closed, Discarded, Unmounted, RowsTypeOK, RecordRows,
     LoadedRows, TraceRows, Pictures, form, gallery
<1>2. editor' \in EditorRows
  BY DEF CloseEditor, NoPicture, Closed, Discarded, Unmounted, RowsTypeOK, RecordRows,
     LoadedRows, EditorRows, SaveRows, PictureRows, UploadRows, TraceRows, Pictures, form,
     gallery
<1>3. save' \in SaveRows /\ picture' \in PictureRows /\ upload' \in UploadRows
  BY DEF CloseEditor, NoPicture, Closed, Discarded, Unmounted, RowsTypeOK, SaveRows,
     PictureRows, UploadRows, EditorRows, Pictures, form, gallery
<1>4. stored' \subseteq Media /\ deletes' \subseteq Media
  BY DEF CloseEditor, NoPicture, Closed, Discarded, Unmounted, RowsTypeOK, MineIsOpen,
     EditorRows, PictureRows, UploadRows, Pictures, form, gallery
<1>5. MineIsOpen'
  <2>1. editor' = Closed
    BY DEF CloseEditor
  <2>2. save'.mine = FALSE /\ picture'.mine = FALSE /\ upload'.mine = FALSE
    BY DEF CloseEditor, Unmounted, RowsTypeOK, SaveRows, PictureRows, UploadRows
  <2>3. IF upload'.stage = "idle" THEN upload' = NoUpload ELSE upload'.medium \in Media
    BY UploadLeft DEF CloseEditor, Unmounted, RowsTypeOK, MineIsOpen
  <2>4. picture'.stage # "idle" => kind' \in Pictured
    BY DEF CloseEditor, Unmounted, RowsTypeOK, MineIsOpen, PictureRows
  <2> QED
    BY <2>1, <2>2, <2>3, <2>4 DEF MineIsOpen
<1> QED
  BY <1>1, <1>2, <1>3, <1>4, <1>5 DEF RowsTypeOK

LEMMA ReloadRecordRows ==
  ASSUME RowsTypeOK, MineIsOpen, ReloadRecord
  PROVE  RowsTypeOK' /\ MineIsOpen'
<1>1. kind' \in Kinds /\ record' \in RecordRows /\ loaded' \in LoadedRows /\ trace' \in TraceRows
  BY DEF ReloadRecord, NoPicture, StaysOpen, Token, Closed, Snapshot, Saving, Filled,
     Discarded, Unmounted, RowsTypeOK, RecordRows, LoadedRows, TraceRows, Pictures, form,
     gallery
<1>2. editor' \in EditorRows
  BY <1>1, EditorFills DEF ReloadRecord
<1>3. save' \in SaveRows /\ picture' \in PictureRows /\ upload' \in UploadRows
  BY DEF ReloadRecord, NoPicture, StaysOpen, Token, Closed, Snapshot, Saving, Filled,
     Discarded, Unmounted, RowsTypeOK, SaveRows, PictureRows, UploadRows, EditorRows,
     Pictures, form, gallery
<1>4. stored' \subseteq Media /\ deletes' \subseteq Media
  BY DEF ReloadRecord, NoPicture, StaysOpen, Token, Closed, Snapshot, Saving, Filled,
     Discarded, Unmounted, RowsTypeOK, MineIsOpen, EditorRows, PictureRows, UploadRows,
     Pictures, form, gallery
<1>5. MineIsOpen'
  <2>1. editor' = Closed \/ editor'.open
    BY DEF ReloadRecord, Filled, Closed
  <2>2. save'.mine = FALSE /\ picture'.mine = FALSE /\ upload'.mine = FALSE
    BY DEF ReloadRecord, Unmounted, RowsTypeOK, SaveRows, PictureRows, UploadRows
  <2>3. IF upload'.stage = "idle" THEN upload' = NoUpload ELSE upload'.medium \in Media
    BY UploadLeft DEF ReloadRecord, Unmounted, RowsTypeOK, MineIsOpen
  <2>4. picture'.stage # "idle" => kind' \in Pictured
    BY DEF ReloadRecord, Unmounted, RowsTypeOK, MineIsOpen, PictureRows
  <2> QED
    BY <2>1, <2>2, <2>3, <2>4 DEF MineIsOpen
<1> QED
  BY <1>1, <1>2, <1>3, <1>4, <1>5 DEF RowsTypeOK

LEMMA EditFormRows ==
  ASSUME RowsTypeOK, MineIsOpen, EditForm
  PROVE  RowsTypeOK' /\ MineIsOpen'
<1>1. kind' \in Kinds /\ record' \in RecordRows /\ loaded' \in LoadedRows /\ trace' \in TraceRows
  BY DEF EditForm, Saving, gallery, RowsTypeOK, RecordRows, LoadedRows, TraceRows, Pictures,
     form
<1>2. editor' \in EditorRows
  BY DEF EditForm, Saving, gallery, RowsTypeOK, RecordRows, LoadedRows, EditorRows, SaveRows,
     PictureRows, UploadRows, TraceRows, Pictures, form
<1>3. save' \in SaveRows /\ picture' \in PictureRows /\ upload' \in UploadRows
  BY DEF EditForm, Saving, gallery, RowsTypeOK, SaveRows, PictureRows, UploadRows, EditorRows,
     Pictures, form
<1>4. stored' \subseteq Media /\ deletes' \subseteq Media
  BY DEF EditForm, Saving, gallery, RowsTypeOK, MineIsOpen, EditorRows, PictureRows,
     UploadRows, Pictures, form
<1>5. MineIsOpen'
  BY DEF EditForm, Saving, gallery, RowsTypeOK, MineIsOpen, SaveRows, PictureRows, UploadRows,
     EditorRows, form, NoUpload
<1> QED
  BY <1>1, <1>2, <1>3, <1>4, <1>5 DEF RowsTypeOK

LEMMA ReviewFormRows ==
  ASSUME RowsTypeOK, MineIsOpen, ReviewForm
  PROVE  RowsTypeOK' /\ MineIsOpen'
<1>1. kind' \in Kinds /\ record' \in RecordRows /\ loaded' \in LoadedRows /\ trace' \in TraceRows
  BY DEF ReviewForm, Reviewed, Saving, gallery, RowsTypeOK, RecordRows, LoadedRows, TraceRows,
     Pictures, form
<1>2. editor' \in EditorRows
  BY DEF ReviewForm, Reviewed, Saving, gallery, RowsTypeOK, RecordRows, LoadedRows,
     EditorRows, SaveRows, PictureRows, UploadRows, TraceRows, Pictures, form
<1>3. save' \in SaveRows /\ picture' \in PictureRows /\ upload' \in UploadRows
  BY DEF ReviewForm, Reviewed, Saving, gallery, RowsTypeOK, SaveRows, PictureRows, UploadRows,
     EditorRows, Pictures, form
<1>4. stored' \subseteq Media /\ deletes' \subseteq Media
  BY DEF ReviewForm, Reviewed, Saving, gallery, RowsTypeOK, MineIsOpen, EditorRows,
     PictureRows, UploadRows, Pictures, form
<1>5. MineIsOpen'
  <2>1. editor.open
    BY DEF ReviewForm, MineIsOpen, Closed
  <2>2. editor'.open
    BY <2>1 DEF ReviewForm, RowsTypeOK, EditorRows
  <2> QED
    BY <2>2 DEF ReviewForm, MineIsOpen, gallery
<1> QED
  BY <1>1, <1>2, <1>3, <1>4, <1>5 DEF RowsTypeOK

LEMMA SaveFormRows ==
  ASSUME RowsTypeOK, MineIsOpen, SaveForm
  PROVE  RowsTypeOK' /\ MineIsOpen'
<1>1. kind' \in Kinds /\ record' \in RecordRows /\ loaded' \in LoadedRows /\ trace' \in TraceRows
  BY DEF SaveForm, NoPicture, Reviewed, NoSave, Sent, gallery, RowsTypeOK, RecordRows,
     LoadedRows, TraceRows, Pictures, form
<1>2. editor' \in EditorRows
  BY DEF SaveForm, NoPicture, Reviewed, NoSave, Sent, gallery, RowsTypeOK, RecordRows,
     LoadedRows, EditorRows, SaveRows, PictureRows, UploadRows, TraceRows, Pictures, form
<1>3. save' \in SaveRows /\ picture' \in PictureRows /\ upload' \in UploadRows
  BY ZenonT(30) DEF SaveForm, NoPicture, Reviewed, NoSave, Sent, gallery, RowsTypeOK, SaveRows,
     PictureRows, UploadRows, EditorRows, Pictures, form
<1>4. stored' \subseteq Media /\ deletes' \subseteq Media
  BY DEF SaveForm, NoPicture, Reviewed, NoSave, Sent, gallery, RowsTypeOK, MineIsOpen,
     EditorRows, PictureRows, UploadRows, Pictures, form
<1>5. MineIsOpen'
  <2>1. editor.open
    BY DEF SaveForm, MineIsOpen, Closed
  <2>2. editor'.open
    BY <2>1 DEF SaveForm, RowsTypeOK, EditorRows
  <2> QED
    BY <2>2 DEF SaveForm, MineIsOpen, gallery
<1> QED
  BY <1>1, <1>2, <1>3, <1>4, <1>5 DEF RowsTypeOK

LEMMA ServeSaveRows ==
  ASSUME RowsTypeOK, MineIsOpen, ServeSave
  PROVE  RowsTypeOK' /\ MineIsOpen'
<1>1. kind' \in Kinds /\ record' \in RecordRows /\ loaded' \in LoadedRows /\ trace' \in TraceRows
  <2>1. Unseen(save, "text") \subseteq {"text", "picture"}
    BY DEF Unseen
  <2> QED
    BY <2>1, RewrittenRow, TraceGrows DEF ServeSave, RowsTypeOK
<1>2. editor' \in EditorRows
  BY DEF ServeSave, Token, Rewritten, Matches, Unseen, gallery, RowsTypeOK, RecordRows,
     LoadedRows, EditorRows, SaveRows, PictureRows, UploadRows, TraceRows, Pictures, form
<1>3. save' \in SaveRows /\ picture' \in PictureRows /\ upload' \in UploadRows
  <2>1. record' \in RecordRows /\ record' = Rewritten
    BY <1>1 DEF ServeSave
  <2>2. Token(kind, record') \in Nat /\ record'.text \in Nat
    BY <2>1, TokenIsNumber DEF RecordRows
  <2> QED
    BY <2>2 DEF ServeSave, RowsTypeOK, SaveRows, gallery
<1>4. stored' \subseteq Media /\ deletes' \subseteq Media
  BY DEF ServeSave, Token, Rewritten, Matches, Unseen, gallery, RowsTypeOK, MineIsOpen,
     EditorRows, PictureRows, UploadRows, Pictures, form
<1>5. MineIsOpen'
  BY DEF ServeSave, Token, Rewritten, Matches, Unseen, gallery, RowsTypeOK, MineIsOpen,
     SaveRows, PictureRows, UploadRows, EditorRows, form, NoUpload
<1> QED
  BY <1>1, <1>2, <1>3, <1>4, <1>5 DEF RowsTypeOK

LEMMA SaveEndsRows ==
  ASSUME RowsTypeOK, MineIsOpen, SaveEnds
  PROVE  RowsTypeOK' /\ MineIsOpen'
<1>1. kind' \in Kinds /\ record' \in RecordRows /\ loaded' \in LoadedRows /\ trace' \in TraceRows
  BY DEF SaveEnds, NoPicture, StaysOpen, Closed, NoSave, Discarded, Unmounted, gallery,
     RowsTypeOK, RecordRows, LoadedRows, TraceRows, Pictures, form
<1>2. editor' \in EditorRows
  <2>1. CASE save.mine /\ kind \in StaysOpen
    <3>1. save.base \in Nat /\ save.token \in Nat
      BY DEF RowsTypeOK, SaveRows
    <3> QED
      BY ZenonT(30), <2>1, <3>1 DEF SaveEnds, RowsTypeOK, EditorRows
  <2>2. CASE ~(save.mine /\ kind \in StaysOpen)
    BY <2>2, EditorFills DEF SaveEnds, RowsTypeOK
  <2> QED
    BY <2>1, <2>2
<1>3. save' \in SaveRows /\ picture' \in PictureRows /\ upload' \in UploadRows
  BY ZenonT(30) DEF SaveEnds, NoPicture, StaysOpen, Closed, NoSave, Discarded, Unmounted, gallery,
     RowsTypeOK, SaveRows, PictureRows, UploadRows, EditorRows, Pictures, form
<1>4. stored' \subseteq Media /\ deletes' \subseteq Media
  BY DEF SaveEnds, NoPicture, StaysOpen, Closed, NoSave, Discarded, Unmounted, gallery,
     RowsTypeOK, MineIsOpen, EditorRows, PictureRows, UploadRows, Pictures, form
<1>5. MineIsOpen'
  <2>1. CASE save.mine /\ kind \in StaysOpen
    BY <2>1 DEF SaveEnds, RowsTypeOK, EditorRows, NoSave, MineIsOpen, gallery
  <2>2. CASE save.mine /\ kind \notin StaysOpen
    <3>1. editor' = Closed /\ Unmounted /\ save' = NoSave /\ kind' = kind
      BY <2>2 DEF SaveEnds
    <3>2. save'.mine = FALSE /\ picture'.mine = FALSE /\ upload'.mine = FALSE
      BY <3>1 DEF Unmounted, RowsTypeOK, PictureRows, UploadRows, NoSave
    <3>3. IF upload'.stage = "idle" THEN upload' = NoUpload ELSE upload'.medium \in Media
      BY <3>1, UploadLeft DEF Unmounted, RowsTypeOK, MineIsOpen
    <3>4. picture'.stage # "idle" => kind' \in Pictured
      BY <3>1 DEF Unmounted, RowsTypeOK, MineIsOpen, PictureRows
    <3> QED
      BY <3>1, <3>2, <3>3, <3>4 DEF MineIsOpen
  <2>3. CASE ~save.mine
    BY <2>3 DEF SaveEnds, NoSave, MineIsOpen, gallery
  <2> QED
    BY <2>1, <2>2, <2>3
<1> QED
  BY <1>1, <1>2, <1>3, <1>4, <1>5 DEF RowsTypeOK

LEMMA SaveFailsRows ==
  ASSUME RowsTypeOK, MineIsOpen, SaveFails
  PROVE  RowsTypeOK' /\ MineIsOpen'
<1>1. kind' \in Kinds /\ record' \in RecordRows /\ loaded' \in LoadedRows /\ trace' \in TraceRows
  BY DEF SaveFails, NoPicture, Token, NoSave, Mishap, Matches, gallery, RowsTypeOK,
     RecordRows, LoadedRows, TraceRows, Pictures, form
<1>2. editor' \in EditorRows
  BY DEF SaveFails, NoPicture, Token, NoSave, Mishap, Matches, gallery, RowsTypeOK,
     RecordRows, LoadedRows, EditorRows, SaveRows, PictureRows, UploadRows, TraceRows,
     Pictures, form
<1>3. save' \in SaveRows /\ picture' \in PictureRows /\ upload' \in UploadRows
  BY DEF SaveFails, NoPicture, Token, NoSave, Mishap, Matches, gallery, RowsTypeOK, SaveRows,
     PictureRows, UploadRows, EditorRows, Pictures, form
<1>4. stored' \subseteq Media /\ deletes' \subseteq Media
  BY DEF SaveFails, NoPicture, Token, NoSave, Mishap, Matches, gallery, RowsTypeOK,
     MineIsOpen, EditorRows, PictureRows, UploadRows, Pictures, form
<1>5. MineIsOpen'
  BY DEF SaveFails, NoPicture, Token, NoSave, Mishap, Matches, gallery, RowsTypeOK,
     MineIsOpen, SaveRows, PictureRows, UploadRows, EditorRows, form, NoUpload
<1> QED
  BY <1>1, <1>2, <1>3, <1>4, <1>5 DEF RowsTypeOK

LEMMA UploadPictureRows ==
  ASSUME RowsTypeOK, MineIsOpen, UploadPicture
  PROVE  RowsTypeOK' /\ MineIsOpen'
<1>1. kind' \in Kinds /\ record' \in RecordRows /\ loaded' \in LoadedRows /\ trace' \in TraceRows
  BY DEF UploadPicture, Pictured, Saving, SavingPicture, form, RowsTypeOK, RecordRows,
     LoadedRows, TraceRows, Pictures, gallery
<1>2. editor' \in EditorRows
  BY DEF UploadPicture, Pictured, Saving, SavingPicture, form, RowsTypeOK, RecordRows,
     LoadedRows, EditorRows, SaveRows, PictureRows, UploadRows, TraceRows, Pictures, gallery
<1>3. save' \in SaveRows /\ picture' \in PictureRows /\ upload' \in UploadRows
  BY DEF UploadPicture, Pictured, Saving, SavingPicture, form, RowsTypeOK, SaveRows,
     PictureRows, UploadRows, EditorRows, Pictures, gallery
<1>4. stored' \subseteq Media /\ deletes' \subseteq Media
  BY DEF UploadPicture, Pictured, Saving, SavingPicture, form, RowsTypeOK, MineIsOpen,
     EditorRows, PictureRows, UploadRows, Pictures, gallery
<1>5. MineIsOpen'
  BY DEF UploadPicture, Pictured, Saving, SavingPicture, form, RowsTypeOK, MineIsOpen,
     SaveRows, PictureRows, UploadRows, EditorRows, gallery, NoUpload
<1> QED
  BY <1>1, <1>2, <1>3, <1>4, <1>5 DEF RowsTypeOK

LEMMA UploadCompletesRows ==
  ASSUME RowsTypeOK, MineIsOpen, UploadCompletes
  PROVE  RowsTypeOK' /\ MineIsOpen'
<1>1. kind' \in Kinds /\ record' \in RecordRows /\ loaded' \in LoadedRows /\ trace' \in TraceRows
  BY DEF UploadCompletes, form, RowsTypeOK, RecordRows, LoadedRows, TraceRows, Pictures, gallery
<1>2. editor' \in EditorRows
  BY DEF UploadCompletes, form, RowsTypeOK, RecordRows, LoadedRows, EditorRows, SaveRows,
     PictureRows, UploadRows, TraceRows, Pictures, gallery
<1>3. save' \in SaveRows /\ picture' \in PictureRows /\ upload' \in UploadRows
  BY DEF UploadCompletes, form, RowsTypeOK, SaveRows, PictureRows, UploadRows, EditorRows,
     Pictures, gallery
<1>4. stored' \subseteq Media /\ deletes' \subseteq Media
  BY DEF UploadCompletes, form, RowsTypeOK, MineIsOpen, EditorRows, PictureRows, UploadRows,
     Pictures, gallery
<1>5. MineIsOpen'
  BY DEF UploadCompletes, form, RowsTypeOK, MineIsOpen, SaveRows, PictureRows, UploadRows,
     EditorRows, gallery, NoUpload
<1> QED
  BY <1>1, <1>2, <1>3, <1>4, <1>5 DEF RowsTypeOK

LEMMA UploadEndsRows ==
  ASSUME RowsTypeOK, MineIsOpen, UploadEnds
  PROVE  RowsTypeOK' /\ MineIsOpen'
<1>1. kind' \in Kinds /\ record' \in RecordRows /\ loaded' \in LoadedRows /\ trace' \in TraceRows
  BY DEF UploadEnds, NoPicture, NoUpload, Chosen, RowsTypeOK, RecordRows, LoadedRows,
     TraceRows, Pictures, form, gallery
<1>2. editor' \in EditorRows
  <2>1. upload.medium \in Media /\ upload.medium \in Pictures
    BY DEF UploadEnds, MineIsOpen, Pictures
  <2>2. editor.owned \union {upload.medium} \in SUBSET Media
    BY <2>1 DEF RowsTypeOK, EditorRows
  <2>3. Chosen(upload.medium) \in EditorRows
    BY <2>1, <2>2 DEF Chosen, RowsTypeOK, EditorRows
  <2> QED
    BY <2>3 DEF UploadEnds, RowsTypeOK
<1>3. save' \in SaveRows /\ picture' \in PictureRows /\ upload' \in UploadRows
  BY DEF UploadEnds, NoPicture, NoUpload, Chosen, RowsTypeOK, SaveRows, PictureRows,
     UploadRows, EditorRows, Pictures, form, gallery
<1>4. stored' \subseteq Media /\ deletes' \subseteq Media
  BY DEF UploadEnds, NoPicture, NoUpload, Chosen, RowsTypeOK, MineIsOpen, EditorRows,
     PictureRows, UploadRows, Pictures, form, gallery
<1>5. MineIsOpen'
  BY DEF UploadEnds, NoPicture, NoUpload, Chosen, RowsTypeOK, MineIsOpen, SaveRows,
     PictureRows, UploadRows, EditorRows, form, gallery
<1> QED
  BY <1>1, <1>2, <1>3, <1>4, <1>5 DEF RowsTypeOK

LEMMA UploadFailsRows ==
  ASSUME RowsTypeOK, MineIsOpen, UploadFails
  PROVE  RowsTypeOK' /\ MineIsOpen'
<1>1. kind' \in Kinds /\ record' \in RecordRows /\ loaded' \in LoadedRows /\ trace' \in TraceRows
  <2>1. upload.medium \in Media
    BY DEF UploadFails, MineIsOpen
  <2> QED
    BY <2>1, TraceGrows DEF UploadFails, RowsTypeOK
<1>2. editor' \in EditorRows
  BY DEF UploadFails, NoPicture, NoUpload, Mishap, form, RowsTypeOK, RecordRows, LoadedRows,
     EditorRows, SaveRows, PictureRows, UploadRows, TraceRows, Pictures, gallery
<1>3. save' \in SaveRows /\ picture' \in PictureRows /\ upload' \in UploadRows
  BY DEF UploadFails, NoPicture, NoUpload, Mishap, form, RowsTypeOK, SaveRows, PictureRows,
     UploadRows, EditorRows, Pictures, gallery
<1>4. stored' \subseteq Media /\ deletes' \subseteq Media
  BY DEF UploadFails, NoPicture, NoUpload, Mishap, form, RowsTypeOK, MineIsOpen, EditorRows,
     PictureRows, UploadRows, Pictures, gallery
<1>5. MineIsOpen'
  BY DEF UploadFails, NoPicture, NoUpload, Mishap, form, RowsTypeOK, MineIsOpen, SaveRows,
     PictureRows, UploadRows, EditorRows, gallery
<1> QED
  BY <1>1, <1>2, <1>3, <1>4, <1>5 DEF RowsTypeOK

LEMMA SavePictureRows ==
  ASSUME RowsTypeOK, MineIsOpen, NEW m \in Pictures, SavePicture(m)
  PROVE  RowsTypeOK' /\ MineIsOpen'
<1>1. kind' \in Kinds /\ record' \in RecordRows /\ loaded' \in LoadedRows /\ trace' \in TraceRows
  BY DEF SavePicture, NoPicture, Pictured, Saving, Uploading, RowsTypeOK, RecordRows,
     LoadedRows, TraceRows, Pictures, form, gallery
<1>2. editor' \in EditorRows
  BY DEF SavePicture, NoPicture, Pictured, Saving, Uploading, RowsTypeOK, RecordRows,
     LoadedRows, EditorRows, SaveRows, PictureRows, UploadRows, TraceRows, Pictures, form,
     gallery
<1>3. save' \in SaveRows /\ picture' \in PictureRows /\ upload' \in UploadRows
  BY DEF SavePicture, NoPicture, Pictured, Saving, Uploading, RowsTypeOK, SaveRows,
     PictureRows, UploadRows, EditorRows, Pictures, form, gallery
<1>4. stored' \subseteq Media /\ deletes' \subseteq Media
  BY DEF SavePicture, NoPicture, Pictured, Saving, Uploading, RowsTypeOK, MineIsOpen,
     EditorRows, PictureRows, UploadRows, Pictures, form, gallery
<1>5. MineIsOpen'
  BY DEF SavePicture, NoPicture, Pictured, Saving, Uploading, RowsTypeOK, MineIsOpen,
     SaveRows, PictureRows, UploadRows, EditorRows, form, gallery, NoUpload
<1> QED
  BY <1>1, <1>2, <1>3, <1>4, <1>5 DEF RowsTypeOK

LEMMA ServePictureRows ==
  ASSUME RowsTypeOK, MineIsOpen, ServePicture
  PROVE  RowsTypeOK' /\ MineIsOpen'
<1>1. kind' \in Kinds /\ record' \in RecordRows /\ loaded' \in LoadedRows /\ trace' \in TraceRows
  <2>1. record' \in RecordRows
    <3>1. record' = [record EXCEPT !.picture = picture.body, !.version = record.version + 1]
      BY DEF ServePicture
    <3>2. picture.body \in Pictures /\ record.version + 1 \in Nat
      BY DEF RowsTypeOK, RecordRows, PictureRows
    <3> QED
      BY <3>1, <3>2, RecordSet DEF RowsTypeOK
  <2>2. Unseen(picture, "picture") \subseteq {"text", "picture"}
    BY DEF Unseen
  <2>3. {record.picture} \ {NoPicture, picture.body} \subseteq Media
    BY DEF RowsTypeOK, RecordRows, Pictures
  <2> QED
    BY <2>1, <2>2, <2>3, TraceGrows DEF ServePicture, RowsTypeOK
<1>2. editor' \in EditorRows
  BY DEF ServePicture, NoPicture, Token, Matches, Unseen, Accepts, form, RowsTypeOK,
     RecordRows, LoadedRows, EditorRows, SaveRows, PictureRows, UploadRows, TraceRows,
     Pictures, gallery
<1>3. save' \in SaveRows /\ picture' \in PictureRows /\ upload' \in UploadRows
  <2>1. Token(kind, record') \in Nat
    BY <1>1, TokenIsNumber
  <2> QED
    BY <2>1 DEF ServePicture, RowsTypeOK, PictureRows, form
<1>4. stored' \subseteq Media /\ deletes' \subseteq Media
  BY DEF ServePicture, NoPicture, Token, Matches, Unseen, Accepts, form, RowsTypeOK,
     MineIsOpen, EditorRows, PictureRows, UploadRows, Pictures, gallery
<1>5. MineIsOpen'
  BY DEF ServePicture, NoPicture, Token, Matches, Unseen, Accepts, form, RowsTypeOK,
     MineIsOpen, SaveRows, PictureRows, UploadRows, EditorRows, gallery, NoUpload
<1> QED
  BY <1>1, <1>2, <1>3, <1>4, <1>5 DEF RowsTypeOK

LEMMA PictureEndsRows ==
  ASSUME RowsTypeOK, MineIsOpen, PictureEnds
  PROVE  RowsTypeOK' /\ MineIsOpen'
<1>1. kind' \in Kinds /\ record' \in RecordRows /\ loaded' \in LoadedRows /\ trace' \in TraceRows
  BY DEF PictureEnds, NoPicture, NoSave, NoPictureSave, RowsTypeOK, RecordRows, LoadedRows,
     TraceRows, Pictures, form, gallery
<1>2. editor' \in EditorRows
  BY ZenonT(30) DEF PictureEnds, NoPicture, NoSave, NoPictureSave, RowsTypeOK, RecordRows, LoadedRows,
     EditorRows, SaveRows, PictureRows, UploadRows, TraceRows, Pictures, form, gallery
<1>3. save' \in SaveRows /\ picture' \in PictureRows /\ upload' \in UploadRows
  BY ZenonT(30) DEF PictureEnds, NoPicture, NoSave, NoPictureSave, RowsTypeOK, SaveRows, PictureRows,
     UploadRows, EditorRows, Pictures, form, gallery
<1>4. stored' \subseteq Media /\ deletes' \subseteq Media
  BY DEF PictureEnds, NoPicture, NoSave, NoPictureSave, RowsTypeOK, MineIsOpen, EditorRows,
     PictureRows, UploadRows, Pictures, form, gallery
<1>5. MineIsOpen'
  BY DEF PictureEnds, NoPicture, NoSave, NoPictureSave, RowsTypeOK, MineIsOpen, SaveRows,
     PictureRows, UploadRows, EditorRows, form, gallery, NoUpload
<1> QED
  BY <1>1, <1>2, <1>3, <1>4, <1>5 DEF RowsTypeOK

LEMMA PictureFailsRows ==
  ASSUME RowsTypeOK, MineIsOpen, PictureFails
  PROVE  RowsTypeOK' /\ MineIsOpen'
<1>1. kind' \in Kinds /\ record' \in RecordRows /\ loaded' \in LoadedRows /\ trace' \in TraceRows
  BY DEF PictureFails, NoPicture, Token, NoSave, NoPictureSave, Mishap, Matches, Accepts,
     RowsTypeOK, RecordRows, LoadedRows, TraceRows, Pictures, form, gallery
<1>2. editor' \in EditorRows
  BY DEF PictureFails, NoPicture, Token, NoSave, NoPictureSave, Mishap, Matches, Accepts,
     RowsTypeOK, RecordRows, LoadedRows, EditorRows, SaveRows, PictureRows, UploadRows,
     TraceRows, Pictures, form, gallery
<1>3. save' \in SaveRows /\ picture' \in PictureRows /\ upload' \in UploadRows
  BY ZenonT(30) DEF PictureFails, NoPicture, Token, NoSave, NoPictureSave, Mishap, Matches, Accepts,
     RowsTypeOK, SaveRows, PictureRows, UploadRows, EditorRows, Pictures, form, gallery
<1>4. stored' \subseteq Media /\ deletes' \subseteq Media
  BY DEF PictureFails, NoPicture, Token, NoSave, NoPictureSave, Mishap, Matches, Accepts,
     RowsTypeOK, MineIsOpen, EditorRows, PictureRows, UploadRows, Pictures, form, gallery
<1>5. MineIsOpen'
  BY DEF PictureFails, NoPicture, Token, NoSave, NoPictureSave, Mishap, Matches, Accepts,
     RowsTypeOK, MineIsOpen, SaveRows, PictureRows, UploadRows, EditorRows, form, gallery,
     NoUpload
<1> QED
  BY <1>1, <1>2, <1>3, <1>4, <1>5 DEF RowsTypeOK

LEMMA ReloadPictureRows ==
  ASSUME RowsTypeOK, MineIsOpen, ReloadPicture
  PROVE  RowsTypeOK' /\ MineIsOpen'
<1>1. kind' \in Kinds /\ record' \in RecordRows /\ loaded' \in LoadedRows /\ trace' \in TraceRows
  BY DEF ReloadPicture, NoPicture, SavingPicture, gallery, RowsTypeOK, RecordRows, LoadedRows,
     TraceRows, Pictures, form
<1>2. editor' \in EditorRows
  <2>1. record.picture \in Pictures /\ record.version \in Nat /\ NoPicture \in Pictures
    BY DEF RowsTypeOK, RecordRows, Pictures
  <2>2. editor' = [editor EXCEPT !.picture = record.picture, !.pfailed = FALSE,
                     !.chosen = IF kind = "product" THEN NoPicture ELSE editor.chosen,
                     !.token = record.version, !.ptoken = record.version,
                     !.mixed = editor.mixed \/ editor.token # record.version]
    BY DEF ReloadPicture
  <2> QED
    BY <2>1, <2>2 DEF RowsTypeOK, EditorRows
<1>3. save' \in SaveRows /\ picture' \in PictureRows /\ upload' \in UploadRows
  BY DEF ReloadPicture, NoPicture, SavingPicture, gallery, RowsTypeOK, SaveRows, PictureRows,
     UploadRows, EditorRows, Pictures, form
<1>4. stored' \subseteq Media /\ deletes' \subseteq Media
  BY DEF ReloadPicture, NoPicture, SavingPicture, gallery, RowsTypeOK, MineIsOpen, EditorRows,
     PictureRows, UploadRows, Pictures, form
<1>5. MineIsOpen'
  <2>1. editor.open
    BY DEF ReloadPicture, MineIsOpen, Closed
  <2>2. editor'.open
    BY <2>1 DEF ReloadPicture, RowsTypeOK, EditorRows
  <2> QED
    BY <2>2 DEF ReloadPicture, MineIsOpen, gallery
<1> QED
  BY <1>1, <1>2, <1>3, <1>4, <1>5 DEF RowsTypeOK

LEMMA ServeDeleteRows ==
  ASSUME RowsTypeOK, MineIsOpen, NEW m \in Media, ServeDelete(m)
  PROVE  RowsTypeOK' /\ MineIsOpen'
<1>1. kind' \in Kinds /\ record' \in RecordRows /\ loaded' \in LoadedRows /\ trace' \in TraceRows
  BY DEF ServeDelete, form, RowsTypeOK, RecordRows, LoadedRows, TraceRows, Pictures, gallery
<1>2. editor' \in EditorRows
  BY DEF ServeDelete, form, RowsTypeOK, RecordRows, LoadedRows, EditorRows, SaveRows,
     PictureRows, UploadRows, TraceRows, Pictures, gallery
<1>3. save' \in SaveRows /\ picture' \in PictureRows /\ upload' \in UploadRows
  BY DEF ServeDelete, form, RowsTypeOK, SaveRows, PictureRows, UploadRows, EditorRows,
     Pictures, gallery
<1>4. stored' \subseteq Media /\ deletes' \subseteq Media
  BY DEF ServeDelete, form, RowsTypeOK, MineIsOpen, EditorRows, PictureRows, UploadRows,
     Pictures, gallery
<1>5. MineIsOpen'
  BY DEF ServeDelete, form, RowsTypeOK, MineIsOpen, SaveRows, PictureRows, UploadRows,
     EditorRows, gallery, NoUpload
<1> QED
  BY <1>1, <1>2, <1>3, <1>4, <1>5 DEF RowsTypeOK

LEMMA LoseDeleteRows ==
  ASSUME RowsTypeOK, MineIsOpen, NEW m \in Media, LoseDelete(m)
  PROVE  RowsTypeOK' /\ MineIsOpen'
<1>1. kind' \in Kinds /\ record' \in RecordRows /\ loaded' \in LoadedRows /\ trace' \in TraceRows
  BY DEF LoseDelete, Mishap, form, RowsTypeOK, RecordRows, LoadedRows, TraceRows, Pictures,
     gallery
<1>2. editor' \in EditorRows
  BY DEF LoseDelete, Mishap, form, RowsTypeOK, RecordRows, LoadedRows, EditorRows, SaveRows,
     PictureRows, UploadRows, TraceRows, Pictures, gallery
<1>3. save' \in SaveRows /\ picture' \in PictureRows /\ upload' \in UploadRows
  BY DEF LoseDelete, Mishap, form, RowsTypeOK, SaveRows, PictureRows, UploadRows, EditorRows,
     Pictures, gallery
<1>4. stored' \subseteq Media /\ deletes' \subseteq Media
  BY DEF LoseDelete, Mishap, form, RowsTypeOK, MineIsOpen, EditorRows, PictureRows,
     UploadRows, Pictures, gallery
<1>5. MineIsOpen'
  BY DEF LoseDelete, Mishap, form, RowsTypeOK, MineIsOpen, SaveRows, PictureRows, UploadRows,
     EditorRows, gallery, NoUpload
<1> QED
  BY <1>1, <1>2, <1>3, <1>4, <1>5 DEF RowsTypeOK

LEMMA CleanupRows ==
  ASSUME RowsTypeOK, MineIsOpen, NEW m \in Media, Cleanup(m)
  PROVE  RowsTypeOK' /\ MineIsOpen'
<1>1. kind' \in Kinds /\ record' \in RecordRows /\ loaded' \in LoadedRows /\ trace' \in TraceRows
  BY DEF Cleanup, Mishap, form, gallery, RowsTypeOK, RecordRows, LoadedRows, TraceRows, Pictures
<1>2. editor' \in EditorRows
  BY DEF Cleanup, Mishap, form, gallery, RowsTypeOK, RecordRows, LoadedRows, EditorRows,
     SaveRows, PictureRows, UploadRows, TraceRows, Pictures
<1>3. save' \in SaveRows /\ picture' \in PictureRows /\ upload' \in UploadRows
  BY DEF Cleanup, Mishap, form, gallery, RowsTypeOK, SaveRows, PictureRows, UploadRows,
     EditorRows, Pictures
<1>4. stored' \subseteq Media /\ deletes' \subseteq Media
  BY DEF Cleanup, Mishap, form, gallery, RowsTypeOK, MineIsOpen, EditorRows, PictureRows,
     UploadRows, Pictures
<1>5. MineIsOpen'
  BY DEF Cleanup, Mishap, form, gallery, RowsTypeOK, MineIsOpen, SaveRows, PictureRows,
     UploadRows, EditorRows, NoUpload
<1> QED
  BY <1>1, <1>2, <1>3, <1>4, <1>5 DEF RowsTypeOK

-----------------------------------------------------------------------------
(***************************************************************************)
(* Forms of records: PictureInvariant.  A picture on record is in the      *)
(* store, and one in the store is named by somebody who will keep or       *)
(* delete it.  One lemma per action.                                       *)
(***************************************************************************)
LEMMA RivalSavePictures ==
  ASSUME PictureInvariant, RivalSave
  PROVE  PicturesArrived' /\ RecordedAreExcused' /\ PicturesAreAccountedFor'
<1> USE DEF PictureInvariant
<1>1. PicturesArrived'
  BY DEF RivalSave, Rewritten, form, gallery, PicturesArrived, Arrived, Named
<1>2. RecordedAreExcused'
  BY DEF RivalSave, Rewritten, form, gallery, Recorded, RecordedAreExcused
<1>3. PicturesAreAccountedFor'
  BY DEF RivalSave, Rewritten, form, gallery, PicturesAreAccountedFor
<1> QED
  BY <1>1, <1>2, <1>3

LEMMA RivalPicturePictures ==
  ASSUME PictureInvariant, NEW m \in Pictures, RivalPicture(m)
  PROVE  PicturesArrived' /\ RecordedAreExcused' /\ PicturesAreAccountedFor'
<1> USE DEF PictureInvariant
<1>1. PicturesArrived'
  BY DEF RivalPicture, form, gallery, PicturesArrived, Arrived, Named
<1>2. RecordedAreExcused'
  BY RecordsAssumption DEF RivalPicture, form, gallery, Recorded, RecordedAreExcused, RowsTypeOK
<1>3. PicturesAreAccountedFor'
  BY RecordsAssumption DEF RivalPicture, form, gallery, PicturesAreAccountedFor, RowsTypeOK
<1> QED
  BY <1>1, <1>2, <1>3

LEMMA LoadRecordPictures ==
  ASSUME PictureInvariant, LoadRecord
  PROVE  PicturesArrived' /\ RecordedAreExcused' /\ PicturesAreAccountedFor'
<1> USE DEF PictureInvariant
<1>1. PicturesArrived'
  BY DEF LoadRecord, Snapshot, form, gallery, PicturesArrived, Arrived, Named
<1>2. RecordedAreExcused'
  BY DEF LoadRecord, Snapshot, form, gallery, Recorded, RecordedAreExcused
<1>3. PicturesAreAccountedFor'
  BY DEF LoadRecord, form, gallery, PicturesAreAccountedFor
<1> QED
  BY <1>1, <1>2, <1>3

LEMMA LoadGalleryPictures ==
  ASSUME PictureInvariant, LoadGallery
  PROVE  PicturesArrived' /\ RecordedAreExcused' /\ PicturesAreAccountedFor'
<1> USE DEF PictureInvariant
<1>1. PicturesArrived'
  BY DEF LoadGallery, form, gallery, PicturesArrived, Arrived, Named
<1>2. RecordedAreExcused'
  BY DEF LoadGallery, form, gallery, Recorded, RecordedAreExcused
<1>3. PicturesAreAccountedFor'
  BY DEF LoadGallery, form, gallery, PicturesAreAccountedFor
<1> QED
  BY <1>1, <1>2, <1>3

LEMMA OpenEditorPictures ==
  ASSUME PictureInvariant, OpenEditor
  PROVE  PicturesArrived' /\ RecordedAreExcused' /\ PicturesAreAccountedFor'
<1> USE DEF PictureInvariant
<1>1. PicturesArrived'
  BY DEF OpenEditor, Closed, Filled, gallery, PicturesArrived, Arrived, Named
<1>2. RecordedAreExcused'
  BY DEF OpenEditor, Closed, Filled, gallery, Recorded, RecordedAreExcused
<1>3. PicturesAreAccountedFor'
  BY DEF OpenEditor, Filled, gallery, PicturesAreAccountedFor, MineIsOpen
<1> QED
  BY <1>1, <1>2, <1>3

LEMMA CloseEditorPictures ==
  ASSUME PictureInvariant, CloseEditor
  PROVE  PicturesArrived' /\ RecordedAreExcused' /\ PicturesAreAccountedFor'
<1> USE DEF PictureInvariant
<1>1. PicturesArrived'
  BY DEF CloseEditor, Closed, Discarded, Unmounted, PicturesArrived, Arrived, Named
<1>2. RecordedAreExcused'
  BY RecordsAssumption DEF CloseEditor, Closed, Unmounted, Recorded, RecordedAreExcused,
     RowsTypeOK
<1>3. PicturesAreAccountedFor'
  BY DEF CloseEditor, Discarded, Unmounted, Recorded, RecordedAreExcused,
     PicturesAreAccountedFor
<1> QED
  BY <1>1, <1>2, <1>3

LEMMA ReloadRecordPictures ==
  ASSUME PictureInvariant, ReloadRecord
  PROVE  PicturesArrived' /\ RecordedAreExcused' /\ PicturesAreAccountedFor'
<1> USE DEF PictureInvariant
<1>1. PicturesArrived'
  BY DEF ReloadRecord, Closed, Snapshot, Filled, Discarded, Unmounted, PicturesArrived, Arrived,
     Named
<1>2. RecordedAreExcused'
  BY RecordsAssumption DEF ReloadRecord, Closed, Snapshot, Filled, Unmounted, Recorded,
     RecordedAreExcused, RowsTypeOK
<1>3. PicturesAreAccountedFor'
  BY DEF ReloadRecord, Discarded, Unmounted, Recorded, RecordedAreExcused,
     PicturesAreAccountedFor
<1> QED
  BY <1>1, <1>2, <1>3

LEMMA EditFormPictures ==
  ASSUME PictureInvariant, EditForm
  PROVE  PicturesArrived' /\ RecordedAreExcused' /\ PicturesAreAccountedFor'
<1> USE DEF PictureInvariant
<1>1. PicturesArrived'
  BY DEF EditForm, gallery, PicturesArrived, Arrived, Named
<1>2. RecordedAreExcused'
  BY DEF EditForm, gallery, Recorded, RecordedAreExcused
<1>3. PicturesAreAccountedFor'
  BY DEF EditForm, gallery, PicturesAreAccountedFor
<1> QED
  BY <1>1, <1>2, <1>3

LEMMA ReviewFormPictures ==
  ASSUME PictureInvariant, ReviewForm
  PROVE  PicturesArrived' /\ RecordedAreExcused' /\ PicturesAreAccountedFor'
<1> USE DEF PictureInvariant
<1>1. PicturesArrived'
  BY DEF ReviewForm, gallery, PicturesArrived, Arrived, Named
<1>2. RecordedAreExcused'
  BY DEF ReviewForm, gallery, Recorded, RecordedAreExcused
<1>3. PicturesAreAccountedFor'
  BY DEF ReviewForm, gallery, PicturesAreAccountedFor
<1> QED
  BY <1>1, <1>2, <1>3

LEMMA SaveFormPictures ==
  ASSUME PictureInvariant, SaveForm
  PROVE  PicturesArrived' /\ RecordedAreExcused' /\ PicturesAreAccountedFor'
<1> USE DEF PictureInvariant
<1>1. PicturesArrived'
  BY DEF SaveForm, gallery, PicturesArrived, Arrived, Named
<1>2. RecordedAreExcused'
  BY DEF SaveForm, gallery, Recorded, RecordedAreExcused
<1>3. PicturesAreAccountedFor'
  BY DEF SaveForm, gallery, PicturesAreAccountedFor
<1> QED
  BY <1>1, <1>2, <1>3

LEMMA ServeSavePictures ==
  ASSUME PictureInvariant, ServeSave
  PROVE  PicturesArrived' /\ RecordedAreExcused' /\ PicturesAreAccountedFor'
<1> USE DEF PictureInvariant
<1>1. PicturesArrived'
  BY DEF ServeSave, Rewritten, gallery, PicturesArrived, Arrived, Named
<1>2. RecordedAreExcused'
  BY DEF ServeSave, Rewritten, gallery, Recorded, RecordedAreExcused
<1>3. PicturesAreAccountedFor'
  BY DEF ServeSave, Rewritten, gallery, PicturesAreAccountedFor
<1> QED
  BY <1>1, <1>2, <1>3

LEMMA SaveEndsPictures ==
  ASSUME PictureInvariant, SaveEnds
  PROVE  PicturesArrived' /\ RecordedAreExcused' /\ PicturesAreAccountedFor'
<1> USE DEF PictureInvariant
<1>1. CASE save.mine /\ kind \in StaysOpen
  <2>1. /\ UNCHANGED <<record, stored, loaded, picture, upload, deletes, trace>>
        /\ editor'.picture = editor.picture /\ editor'.chosen = editor.chosen
        /\ editor'.owned = editor.owned /\ editor'.retained = editor.retained
    BY <1>1 DEF SaveEnds, RowsTypeOK, EditorRows, gallery
  <2> QED
    BY <2>1 DEF PicturesArrived, Arrived, Named, RecordedAreExcused, Recorded,
       PicturesAreAccountedFor
<1>2. CASE save.mine /\ kind \notin StaysOpen
  <2>1. UNCHANGED <<record, stored, loaded, trace>> /\ editor' = Closed /\ Unmounted
    BY <1>2 DEF SaveEnds
  <2> QED
    BY <2>1, RecordsAssumption DEF Unmounted, Discarded, Closed, PicturesArrived, Arrived,
       Named,
       RecordedAreExcused, Recorded, PicturesAreAccountedFor, RowsTypeOK
<1>3. CASE ~save.mine
  <2>1. UNCHANGED <<record, stored, loaded, editor, picture, upload, deletes, trace>>
    BY <1>3 DEF SaveEnds, gallery
  <2> QED
    BY <2>1 DEF PicturesArrived, Arrived, Named, RecordedAreExcused, Recorded,
       PicturesAreAccountedFor
<1> QED
  BY <1>1, <1>2, <1>3

LEMMA SaveFailsPictures ==
  ASSUME PictureInvariant, SaveFails
  PROVE  PicturesArrived' /\ RecordedAreExcused' /\ PicturesAreAccountedFor'
<1> USE DEF PictureInvariant
<1>1. PicturesArrived'
  BY DEF SaveFails, gallery, PicturesArrived, Arrived, Named
<1>2. RecordedAreExcused'
  BY DEF SaveFails, gallery, Recorded, RecordedAreExcused
<1>3. PicturesAreAccountedFor'
  BY DEF SaveFails, gallery, PicturesAreAccountedFor
<1> QED
  BY <1>1, <1>2, <1>3

LEMMA UploadPicturePictures ==
  ASSUME PictureInvariant, UploadPicture
  PROVE  PicturesArrived' /\ RecordedAreExcused' /\ PicturesAreAccountedFor'
<1> USE DEF PictureInvariant
<1>1. PicturesArrived'
  BY DEF UploadPicture, form, PicturesArrived, Arrived, Named
<1>2. RecordedAreExcused'
  BY DEF UploadPicture, form, Recorded, RecordedAreExcused
<1>3. PicturesAreAccountedFor'
  <2>1. UNCHANGED <<record, stored, editor, deletes>> /\ trace'.excused = trace.excused
    BY DEF UploadPicture, form
  <2>2. upload.medium = NoPicture
    BY DEF UploadPicture, MineIsOpen, NoUpload
  <2> QED
    BY <2>1, <2>2, RecordsAssumption DEF RowsTypeOK, PicturesAreAccountedFor
<1> QED
  BY <1>1, <1>2, <1>3

LEMMA UploadCompletesPictures ==
  ASSUME PictureInvariant, UploadCompletes
  PROVE  PicturesArrived' /\ RecordedAreExcused' /\ PicturesAreAccountedFor'
<1> USE DEF PictureInvariant
<1>1. PicturesArrived'
  BY RecordsAssumption DEF UploadCompletes, form, PicturesArrived, Arrived, Named, MineIsOpen
<1>2. RecordedAreExcused'
  BY RecordsAssumption DEF UploadCompletes, form, PicturesArrived, Arrived, Named, Recorded,
     RecordedAreExcused, MineIsOpen
<1>3. PicturesAreAccountedFor'
  BY DEF UploadCompletes, form, PicturesAreAccountedFor
<1> QED
  BY <1>1, <1>2, <1>3

LEMMA UploadEndsPictures ==
  ASSUME PictureInvariant, UploadEnds
  PROVE  PicturesArrived' /\ RecordedAreExcused' /\ PicturesAreAccountedFor'
<1> USE DEF PictureInvariant
<1>1. /\ UNCHANGED <<record, stored, loaded, picture, trace>>
      /\ upload'.stage = "idle" /\ upload'.medium = NoPicture
      /\ upload.stage = "complete" /\ upload.medium \in Media /\ upload.medium \in trace.used
  BY RecordsAssumption DEF UploadEnds, MineIsOpen, NoUpload, PicturesArrived
<1>2. /\ editor'.picture = editor.picture /\ editor'.chosen \in {editor.chosen, upload.medium}
      /\ editor'.retained = editor.retained
      /\ editor.owned \union deletes \subseteq editor'.owned \union deletes'
      /\ editor'.owned \union deletes' = (editor.owned \union deletes) \union {upload.medium}
  <2>1. CASE upload.mine /\ editor' = Chosen(upload.medium) /\ UNCHANGED deletes
    BY <2>1 DEF Chosen
  <2>2. CASE ~upload.mine /\ deletes' = deletes \union {upload.medium} /\ UNCHANGED editor
    BY <2>2
  <2> QED
    BY <2>1, <2>2 DEF UploadEnds
<1>3. PicturesArrived'
  BY <1>1, <1>2 DEF PicturesArrived, Arrived, Named
<1>4. RecordedAreExcused'
  BY <1>1, <1>2 DEF RecordedAreExcused, Recorded
<1>5. PicturesAreAccountedFor'
  <2>1. \A m \in stored : m \in {record.picture, upload.medium} \/ m \in deletes \union editor.owned \union trace.excused
    BY DEF PicturesAreAccountedFor
  <2> QED
    BY <1>1, <1>2 DEF PicturesAreAccountedFor
<1> QED
  BY <1>3, <1>4, <1>5

LEMMA UploadFailsPictures ==
  ASSUME PictureInvariant, UploadFails
  PROVE  PicturesArrived' /\ RecordedAreExcused' /\ PicturesAreAccountedFor'
<1> USE DEF PictureInvariant
<1>1. PicturesArrived'
  BY RecordsAssumption DEF UploadFails, NoUpload, form, PicturesArrived, Arrived, Named,
     MineIsOpen
<1>2. RecordedAreExcused'
  BY DEF UploadFails, form, Recorded, RecordedAreExcused
<1>3. PicturesAreAccountedFor'
  BY DEF UploadFails, form, PicturesAreAccountedFor
<1> QED
  BY <1>1, <1>2, <1>3

LEMMA SavePicturePictures ==
  ASSUME PictureInvariant, NEW m \in Pictures, SavePicture(m)
  PROVE  PicturesArrived' /\ RecordedAreExcused' /\ PicturesAreAccountedFor'
<1> USE DEF PictureInvariant
<1>1. PicturesArrived'
  BY DEF SavePicture, PicturesArrived, Arrived, Named
<1>2. RecordedAreExcused'
  BY DEF SavePicture, Recorded, RecordedAreExcused
<1>3. PicturesAreAccountedFor'
  BY DEF SavePicture, PicturesAreAccountedFor
<1> QED
  BY <1>1, <1>2, <1>3

LEMMA ServePicturePictures ==
  ASSUME PictureInvariant, ServePicture
  PROVE  PicturesArrived' /\ RecordedAreExcused' /\ PicturesAreAccountedFor'
<1> USE DEF PictureInvariant
<1>1. PicturesArrived'
  BY DEF ServePicture, form, PicturesArrived, Arrived, Named
<1>2. RecordedAreExcused'
  BY RecordsAssumption DEF ServePicture, form, Recorded, RecordedAreExcused, RowsTypeOK
<1>3. PicturesAreAccountedFor'
  BY RecordsAssumption DEF ServePicture, Accepts, form, PicturesAreAccountedFor, RowsTypeOK
<1> QED
  BY <1>1, <1>2, <1>3

LEMMA PictureEndsPictures ==
  ASSUME PictureInvariant, PictureEnds
  PROVE  PicturesArrived' /\ RecordedAreExcused' /\ PicturesAreAccountedFor'
<1> USE DEF PictureInvariant
<1>1. PicturesArrived'
  BY DEF PictureEnds, NoSave, NoPictureSave, PicturesArrived, Arrived, Named
<1>2. RecordedAreExcused'
  BY DEF PictureEnds, NoSave, NoPictureSave, Recorded, RecordedAreExcused
<1>3. PicturesAreAccountedFor'
  BY DEF PictureEnds, PicturesAreAccountedFor
<1> QED
  BY <1>1, <1>2, <1>3

LEMMA PictureFailsPictures ==
  ASSUME PictureInvariant, PictureFails
  PROVE  PicturesArrived' /\ RecordedAreExcused' /\ PicturesAreAccountedFor'
<1> USE DEF PictureInvariant
<1>1. PicturesArrived'
  BY DEF PictureFails, NoSave, NoPictureSave, PicturesArrived, Arrived, Named
<1>2. RecordedAreExcused'
  BY DEF PictureFails, NoSave, NoPictureSave, Recorded, RecordedAreExcused
<1>3. PicturesAreAccountedFor'
  BY DEF PictureFails, PicturesAreAccountedFor
<1> QED
  BY <1>1, <1>2, <1>3

LEMMA ReloadPicturePictures ==
  ASSUME PictureInvariant, ReloadPicture
  PROVE  PicturesArrived' /\ RecordedAreExcused' /\ PicturesAreAccountedFor'
<1> USE DEF PictureInvariant
<1>1. PicturesArrived'
  BY DEF ReloadPicture, gallery, PicturesArrived, Arrived, Named
<1>2. RecordedAreExcused'
  BY DEF ReloadPicture, gallery, Recorded, RecordedAreExcused
<1>3. PicturesAreAccountedFor'
  BY DEF ReloadPicture, gallery, PicturesAreAccountedFor
<1> QED
  BY <1>1, <1>2, <1>3

LEMMA ServeDeletePictures ==
  ASSUME PictureInvariant, NEW m \in Media, ServeDelete(m)
  PROVE  PicturesArrived' /\ RecordedAreExcused' /\ PicturesAreAccountedFor'
<1> USE DEF PictureInvariant
<1>1. PicturesArrived'
  BY DEF ServeDelete, form, PicturesArrived, Arrived, Named
<1>2. RecordedAreExcused'
  BY DEF ServeDelete, form, Recorded, RecordedAreExcused
<1>3. PicturesAreAccountedFor'
  BY DEF ServeDelete, form, PicturesAreAccountedFor
<1> QED
  BY <1>1, <1>2, <1>3

LEMMA LoseDeletePictures ==
  ASSUME PictureInvariant, NEW m \in Media, LoseDelete(m)
  PROVE  PicturesArrived' /\ RecordedAreExcused' /\ PicturesAreAccountedFor'
<1> USE DEF PictureInvariant
<1>1. PicturesArrived'
  BY DEF LoseDelete, form, PicturesArrived, Arrived, Named
<1>2. RecordedAreExcused'
  BY DEF LoseDelete, form, Recorded, RecordedAreExcused
<1>3. PicturesAreAccountedFor'
  BY DEF LoseDelete, form, PicturesAreAccountedFor
<1> QED
  BY <1>1, <1>2, <1>3

LEMMA CleanupPictures ==
  ASSUME PictureInvariant, NEW m \in Media, Cleanup(m)
  PROVE  PicturesArrived' /\ RecordedAreExcused' /\ PicturesAreAccountedFor'
<1> USE DEF PictureInvariant
<1>1. PicturesArrived'
  BY DEF Cleanup, form, gallery, PicturesArrived, Arrived, Named
<1>2. RecordedAreExcused'
  BY DEF Cleanup, form, gallery, Recorded, RecordedAreExcused
<1>3. PicturesAreAccountedFor'
  BY DEF Cleanup, form, gallery, PicturesAreAccountedFor
<1> QED
  BY <1>1, <1>2, <1>3

-----------------------------------------------------------------------------
(***************************************************************************)
(* Forms of records: BlindInvariant.  Whoever sends a token has shown the  *)
(* record of that version, so what is replaced was seen.  One lemma per    *)
(* action.                                                                 *)
(***************************************************************************)
LEMMA RivalSaveSeen ==
  ASSUME RowsTypeOK, MineIsOpen, BlindInvariant, RivalSave
  PROVE  BlindInvariant'
<1> USE DEF BlindInvariant
<1>1. TokensArePast'
  BY DEF RivalSave, Rewritten, form, gallery, TokensArePast, ListsKnow, Knows, KnowsPicture,
     RequestsKnow, RowsTypeOK, MineIsOpen, Versioned, RecordRows, LoadedRows, EditorRows, SaveRows,
     PictureRows, UploadRows, TraceRows, Pictures
<1>2. ListsKnow'
  BY DEF RivalSave, Rewritten, form, gallery, ListsKnow, Knows, KnowsPicture, TokensArePast,
     RequestsKnow, RowsTypeOK, MineIsOpen, Versioned, RecordRows, LoadedRows, EditorRows, SaveRows,
     PictureRows, UploadRows, TraceRows, Pictures
<1>3. EditorKnows'
  BY DEF RivalSave, Rewritten, form, gallery, EditorKnows, Knows, KnowsPicture, ListsKnow,
     RequestsKnow, TokensArePast, OneIsServed, RowsTypeOK, MineIsOpen, Versioned, RecordRows,
     LoadedRows, EditorRows, SaveRows, PictureRows, UploadRows, TraceRows, Pictures
<1>4. RequestsKnow'
  BY DEF RivalSave, Rewritten, form, gallery, RequestsKnow, Knows, KnowsPicture, ListsKnow,
     EditorKnows, TokensArePast, OneIsServed, RowsTypeOK, MineIsOpen, Versioned, RecordRows,
     LoadedRows, EditorRows, SaveRows, PictureRows, UploadRows, TraceRows, Pictures
<1>5. OneIsServed'
  BY DEF RivalSave, Rewritten, form, gallery, OneIsServed, Knows, KnowsPicture, TokensArePast,
     EditorKnows, RequestsKnow, RowsTypeOK, MineIsOpen, Versioned, RecordRows, LoadedRows,
     EditorRows, SaveRows, PictureRows, UploadRows, TraceRows, Pictures
<1>6. trace'.blind = {}
  BY DEF RivalSave, gallery, Knows, KnowsPicture
<1> QED
  BY <1>1, <1>2, <1>3, <1>4, <1>5, <1>6

LEMMA RivalPictureSeen ==
  ASSUME RowsTypeOK, MineIsOpen, BlindInvariant, NEW m \in Pictures, RivalPicture(m)
  PROVE  BlindInvariant'
<1> USE DEF BlindInvariant
<1>1. TokensArePast'
  BY DEF RivalPicture, NoPicture, Pictured, form, gallery, TokensArePast, ListsKnow, Knows,
     KnowsPicture, RequestsKnow, RowsTypeOK, MineIsOpen, Versioned, RecordRows, LoadedRows,
     EditorRows, SaveRows, PictureRows, UploadRows, TraceRows, Pictures
<1>2. ListsKnow'
  BY DEF RivalPicture, NoPicture, Pictured, form, gallery, ListsKnow, Knows, KnowsPicture,
     TokensArePast, RequestsKnow, RowsTypeOK, MineIsOpen, Versioned, RecordRows, LoadedRows,
     EditorRows, SaveRows, PictureRows, UploadRows, TraceRows, Pictures
<1>3. EditorKnows'
  BY DEF RivalPicture, NoPicture, Pictured, form, gallery, EditorKnows, Knows, KnowsPicture,
     ListsKnow, RequestsKnow, TokensArePast, OneIsServed, RowsTypeOK, MineIsOpen, Versioned,
     RecordRows, LoadedRows, EditorRows, SaveRows, PictureRows, UploadRows, TraceRows, Pictures
<1>4. RequestsKnow'
  BY DEF RivalPicture, NoPicture, Pictured, form, gallery, RequestsKnow, Knows, KnowsPicture,
     ListsKnow, EditorKnows, TokensArePast, OneIsServed, RowsTypeOK, MineIsOpen, Versioned,
     RecordRows, LoadedRows, EditorRows, SaveRows, PictureRows, UploadRows, TraceRows, Pictures
<1>5. OneIsServed'
  BY DEF RivalPicture, NoPicture, Pictured, form, gallery, OneIsServed, Knows, KnowsPicture,
     TokensArePast, EditorKnows, RequestsKnow, RowsTypeOK, MineIsOpen, Versioned, RecordRows,
     LoadedRows, EditorRows, SaveRows, PictureRows, UploadRows, TraceRows, Pictures
<1>6. trace'.blind = {}
  BY DEF RivalPicture, form, gallery, Knows, KnowsPicture
<1> QED
  BY <1>1, <1>2, <1>3, <1>4, <1>5, <1>6

LEMMA LoadRecordSeen ==
  ASSUME RowsTypeOK, MineIsOpen, BlindInvariant, LoadRecord
  PROVE  BlindInvariant'
<1> USE DEF BlindInvariant
<1>1. TokensArePast'
  BY DEF LoadRecord, Token, Snapshot, form, gallery, TokensArePast, ListsKnow, Knows,
     KnowsPicture,
     RequestsKnow, RowsTypeOK, MineIsOpen, Versioned, RecordRows, LoadedRows, EditorRows, SaveRows,
     PictureRows, UploadRows, TraceRows, Pictures
<1>2. ListsKnow'
  BY DEF LoadRecord, Token, Snapshot, form, gallery, ListsKnow, Knows, KnowsPicture,
     TokensArePast,
     RequestsKnow, RowsTypeOK, MineIsOpen, Versioned, RecordRows, LoadedRows, EditorRows, SaveRows,
     PictureRows, UploadRows, TraceRows, Pictures
<1>3. EditorKnows'
  BY DEF LoadRecord, Snapshot, form, gallery, EditorKnows, Knows, KnowsPicture, ListsKnow,
     RequestsKnow, TokensArePast, OneIsServed, MineIsOpen, Versioned
<1>4. RequestsKnow'
  BY DEF LoadRecord, Snapshot, form, gallery, RequestsKnow, Knows, KnowsPicture, ListsKnow,
     EditorKnows, TokensArePast, OneIsServed, MineIsOpen, Versioned
<1>5. OneIsServed'
  BY DEF LoadRecord, Snapshot, form, gallery, OneIsServed, Knows, KnowsPicture, TokensArePast,
     EditorKnows, RequestsKnow, MineIsOpen, Versioned
<1>6. trace'.blind = {}
  BY DEF LoadRecord, form, gallery, Knows, KnowsPicture
<1> QED
  BY <1>1, <1>2, <1>3, <1>4, <1>5, <1>6

LEMMA LoadGallerySeen ==
  ASSUME RowsTypeOK, MineIsOpen, BlindInvariant, LoadGallery
  PROVE  BlindInvariant'
<1> USE DEF BlindInvariant
<1>1. TokensArePast'
  BY DEF LoadGallery, form, gallery, TokensArePast, ListsKnow, Knows, KnowsPicture,
     RequestsKnow,
     RowsTypeOK, MineIsOpen, Versioned, RecordRows, LoadedRows, EditorRows, SaveRows, PictureRows,
     UploadRows, TraceRows, Pictures
<1>2. ListsKnow'
  BY DEF LoadGallery, form, gallery, ListsKnow, Knows, KnowsPicture, TokensArePast,
     RequestsKnow,
     RowsTypeOK, MineIsOpen, Versioned, RecordRows, LoadedRows, EditorRows, SaveRows, PictureRows,
     UploadRows, TraceRows, Pictures
<1>3. EditorKnows'
  BY DEF LoadGallery, form, gallery, EditorKnows, Knows, KnowsPicture, ListsKnow, RequestsKnow,
     TokensArePast, OneIsServed, MineIsOpen, Versioned
<1>4. RequestsKnow'
  BY DEF LoadGallery, form, gallery, RequestsKnow, Knows, KnowsPicture, ListsKnow, EditorKnows,
     TokensArePast, OneIsServed, MineIsOpen, Versioned
<1>5. OneIsServed'
  BY DEF LoadGallery, form, gallery, OneIsServed, Knows, KnowsPicture, TokensArePast,
     EditorKnows,
     RequestsKnow, MineIsOpen, Versioned
<1>6. trace'.blind = {}
  BY DEF LoadGallery, Knows, KnowsPicture
<1> QED
  BY <1>1, <1>2, <1>3, <1>4, <1>5, <1>6

LEMMA OpenEditorSeen ==
  ASSUME RowsTypeOK, MineIsOpen, BlindInvariant, OpenEditor
  PROVE  BlindInvariant'
<1> USE DEF BlindInvariant
<1>1. TokensArePast'
  BY DEF OpenEditor, Closed, Filled, gallery, TokensArePast, ListsKnow, Knows, KnowsPicture,
     RequestsKnow, MineIsOpen, Versioned, form
<1>2. ListsKnow'
  BY DEF OpenEditor, Closed, Filled, gallery, ListsKnow, Knows, KnowsPicture, TokensArePast,
     RequestsKnow, MineIsOpen, Versioned, form
<1>3. EditorKnows'
  BY DEF OpenEditor, Closed, Filled, gallery, EditorKnows, Knows, KnowsPicture, ListsKnow,
     RequestsKnow, TokensArePast, OneIsServed, MineIsOpen, Versioned, form
<1>4. RequestsKnow'
  BY DEF OpenEditor, Closed, Filled, gallery, RequestsKnow, Knows, KnowsPicture, ListsKnow,
     EditorKnows, TokensArePast, OneIsServed, MineIsOpen, Versioned, form
<1>5. OneIsServed'
  BY DEF OpenEditor, Closed, Filled, gallery, OneIsServed, Knows, KnowsPicture, TokensArePast,
     EditorKnows, RequestsKnow, MineIsOpen, Versioned, form
<1>6. trace'.blind = {}
  BY DEF OpenEditor, Filled, gallery, Knows, KnowsPicture, form
<1> QED
  BY <1>1, <1>2, <1>3, <1>4, <1>5, <1>6

LEMMA CloseEditorSeen ==
  ASSUME RowsTypeOK, MineIsOpen, BlindInvariant, CloseEditor
  PROVE  BlindInvariant'
<1> USE DEF BlindInvariant
<1>1. TokensArePast'
  BY DEF CloseEditor, NoPicture, Closed, Discarded, Unmounted, TokensArePast, ListsKnow, Knows,
     KnowsPicture, RequestsKnow, RowsTypeOK, MineIsOpen, Versioned, RecordRows, LoadedRows,
     EditorRows, SaveRows, PictureRows, UploadRows, TraceRows, Pictures, form, gallery
<1>2. ListsKnow'
  BY DEF CloseEditor, Closed, Discarded, Unmounted, ListsKnow, Knows, KnowsPicture,
     TokensArePast,
     RequestsKnow, MineIsOpen, Versioned, form, gallery
<1>3. EditorKnows'
  BY DEF CloseEditor, Closed, Discarded, Unmounted, EditorKnows, Knows, KnowsPicture, form,
     gallery
<1>4. RequestsKnow'
  BY DEF CloseEditor, Closed, Discarded, Unmounted, RequestsKnow, Knows, KnowsPicture,
     ListsKnow,
     EditorKnows, TokensArePast, OneIsServed, MineIsOpen, Versioned, form, gallery
<1>5. OneIsServed'
  BY DEF CloseEditor, Discarded, Unmounted, OneIsServed, form, gallery
<1>6. trace'.blind = {}
  BY DEF CloseEditor, Discarded, Unmounted, Knows, KnowsPicture, form, gallery
<1> QED
  BY <1>1, <1>2, <1>3, <1>4, <1>5, <1>6

LEMMA ReloadRecordSeen ==
  ASSUME RowsTypeOK, MineIsOpen, BlindInvariant, ReloadRecord
  PROVE  BlindInvariant'
<1> USE DEF BlindInvariant
<1>1. TokensArePast'
  BY DEF ReloadRecord, NoPicture, StaysOpen, Token, Closed, Snapshot, Saving, Filled, Discarded,
     Unmounted, TokensArePast, ListsKnow, Knows, KnowsPicture, RequestsKnow, RowsTypeOK, MineIsOpen,
     Versioned, RecordRows, LoadedRows, EditorRows, SaveRows, PictureRows, UploadRows, TraceRows,
     Pictures, form, gallery
<1>2. ListsKnow'
  BY DEF ReloadRecord, NoPicture, StaysOpen, Token, Closed, Snapshot, Saving, Filled, Discarded,
     Unmounted, ListsKnow, Knows, KnowsPicture, TokensArePast, RequestsKnow, RowsTypeOK, MineIsOpen,
     Versioned, RecordRows, LoadedRows, EditorRows, SaveRows, PictureRows, UploadRows, TraceRows,
     Pictures, form, gallery
<1>3. EditorKnows'
  BY DEF ReloadRecord, NoPicture, StaysOpen, Token, Closed, Snapshot, Saving, Filled, Discarded,
     Unmounted, EditorKnows, Knows, KnowsPicture, ListsKnow, RequestsKnow, TokensArePast,
     OneIsServed, RowsTypeOK, MineIsOpen, Versioned, RecordRows, LoadedRows, EditorRows, SaveRows,
     PictureRows, UploadRows, TraceRows, Pictures, form, gallery
<1>4. RequestsKnow'
  BY DEF ReloadRecord, StaysOpen, Token, Closed, Snapshot, Saving, Filled, Discarded, Unmounted,
     RequestsKnow, Knows, KnowsPicture, ListsKnow, EditorKnows, TokensArePast, OneIsServed,
     MineIsOpen, Versioned, form, gallery
<1>5. OneIsServed'
  BY DEF ReloadRecord, Token, Closed, Snapshot, Saving, Filled, Discarded, Unmounted,
     OneIsServed,
     form, gallery
<1>6. trace'.blind = {}
  BY DEF ReloadRecord, Token, Closed, Snapshot, Saving, Filled, Discarded, Unmounted, Knows,
     KnowsPicture, form, gallery
<1> QED
  BY <1>1, <1>2, <1>3, <1>4, <1>5, <1>6

LEMMA EditFormSeen ==
  ASSUME RowsTypeOK, MineIsOpen, BlindInvariant, EditForm
  PROVE  BlindInvariant'
<1> USE DEF BlindInvariant
<1>1. TokensArePast'
  BY DEF EditForm, gallery, TokensArePast, ListsKnow, Knows, KnowsPicture, RequestsKnow,
     MineIsOpen,
     Versioned, form
<1>2. ListsKnow'
  BY DEF EditForm, gallery, ListsKnow, Knows, KnowsPicture, TokensArePast, RequestsKnow,
     MineIsOpen,
     Versioned, form
<1>3. EditorKnows'
  BY DEF EditForm, gallery, EditorKnows, Knows, KnowsPicture, ListsKnow, RequestsKnow,
     TokensArePast, OneIsServed, MineIsOpen, Versioned, form
<1>4. RequestsKnow'
  BY DEF EditForm, gallery, RequestsKnow, Knows, KnowsPicture, ListsKnow, EditorKnows,
     TokensArePast, OneIsServed, MineIsOpen, Versioned, form
<1>5. OneIsServed'
  BY DEF EditForm, gallery, OneIsServed, Knows, KnowsPicture, TokensArePast, EditorKnows,
     RequestsKnow, MineIsOpen, Versioned, form
<1>6. trace'.blind = {}
  BY DEF EditForm, Knows, KnowsPicture, form
<1> QED
  BY <1>1, <1>2, <1>3, <1>4, <1>5, <1>6

LEMMA ReviewFormSeen ==
  ASSUME RowsTypeOK, MineIsOpen, BlindInvariant, ReviewForm
  PROVE  BlindInvariant'
<1> USE DEF BlindInvariant
<1>1. TokensArePast'
  BY DEF ReviewForm, Saving, gallery, TokensArePast, ListsKnow, Knows, KnowsPicture,
     RequestsKnow,
     MineIsOpen, Versioned, form
<1>2. ListsKnow'
  BY DEF ReviewForm, Saving, gallery, ListsKnow, Knows, KnowsPicture, TokensArePast,
     RequestsKnow,
     MineIsOpen, Versioned, form
<1>3. EditorKnows'
  BY DEF ReviewForm, Saving, gallery, EditorKnows, Knows, KnowsPicture, ListsKnow, RequestsKnow,
     TokensArePast, OneIsServed, MineIsOpen, Versioned, form
<1>4. RequestsKnow'
  BY DEF ReviewForm, Saving, gallery, RequestsKnow, Knows, KnowsPicture, ListsKnow, EditorKnows,
     TokensArePast, OneIsServed, MineIsOpen, Versioned, form
<1>5. OneIsServed'
  BY DEF ReviewForm, Saving, gallery, OneIsServed, Knows, KnowsPicture, TokensArePast,
     EditorKnows,
     RequestsKnow, MineIsOpen, Versioned, form
<1>6. trace'.blind = {}
  BY DEF ReviewForm, gallery, Knows, KnowsPicture, form
<1> QED
  BY <1>1, <1>2, <1>3, <1>4, <1>5, <1>6

LEMMA SaveFormSeen ==
  ASSUME RowsTypeOK, MineIsOpen, BlindInvariant, SaveForm
  PROVE  BlindInvariant'
<1> USE DEF BlindInvariant
<1>1. TokensArePast'
  BY DEF SaveForm, Reviewed, NoSave, Sent, gallery, TokensArePast, ListsKnow, Knows,
     KnowsPicture,
     RequestsKnow, MineIsOpen, Versioned, form
<1>2. ListsKnow'
  BY DEF SaveForm, Reviewed, NoSave, Sent, gallery, ListsKnow, Knows, KnowsPicture,
     TokensArePast,
     RequestsKnow, MineIsOpen, Versioned, form
<1>3. EditorKnows'
  BY DEF SaveForm, Reviewed, NoSave, Sent, gallery, EditorKnows, Knows, KnowsPicture, ListsKnow,
     RequestsKnow, TokensArePast, OneIsServed, MineIsOpen, Versioned, form
<1>4. RequestsKnow'
  <2>1. editor.open
    BY DEF SaveForm, MineIsOpen, Closed
  <2>2. /\ save'.token = editor.token /\ save'.base = editor.text /\ save'.mixed = editor.mixed
        /\ save'.stage = "sent" /\ UNCHANGED <<kind, record, picture>>
    BY DEF SaveForm, Sent, gallery
  <2>3. ~editor.mixed => Knows(editor.token, editor.text)
    BY <2>1 DEF EditorKnows
  <2> QED
    BY <2>2, <2>3 DEF RequestsKnow, Knows, KnowsPicture, Versioned
<1>5. OneIsServed'
  BY DEF SaveForm, NoPicture, Reviewed, NoSave, Sent, gallery, OneIsServed, Knows, KnowsPicture,
     TokensArePast, EditorKnows, RequestsKnow, RowsTypeOK, MineIsOpen, Versioned, RecordRows,
     LoadedRows, EditorRows, SaveRows, PictureRows, UploadRows, TraceRows, Pictures, form
<1>6. trace'.blind = {}
  BY DEF SaveForm, NoSave, Sent, gallery, Knows, KnowsPicture, form
<1> QED
  BY <1>1, <1>2, <1>3, <1>4, <1>5, <1>6

LEMMA ServeSaveSeen ==
  ASSUME RowsTypeOK, MineIsOpen, BlindInvariant, ServeSave
  PROVE  BlindInvariant'
<1> USE DEF BlindInvariant
<1>1. TokensArePast'
  BY DEF ServeSave, Token, Rewritten, Matches, Unseen, gallery, TokensArePast, ListsKnow, Knows,
     KnowsPicture, RequestsKnow, RowsTypeOK, MineIsOpen, Versioned, RecordRows, LoadedRows,
     EditorRows, SaveRows, PictureRows, UploadRows, TraceRows, Pictures, form
<1>2. ListsKnow'
  BY DEF ServeSave, Token, Rewritten, Matches, Unseen, gallery, ListsKnow, Knows, KnowsPicture,
     TokensArePast, RequestsKnow, RowsTypeOK, MineIsOpen, Versioned, RecordRows, LoadedRows,
     EditorRows, SaveRows, PictureRows, UploadRows, TraceRows, Pictures, form
<1>3. EditorKnows'
  BY DEF ServeSave, Token, Rewritten, Matches, Unseen, gallery, EditorKnows, Knows,
     KnowsPicture,
     ListsKnow, RequestsKnow, TokensArePast, OneIsServed, RowsTypeOK, MineIsOpen, Versioned,
     RecordRows, LoadedRows, EditorRows, SaveRows, PictureRows, UploadRows, TraceRows, Pictures,
     form
<1>4. RequestsKnow'
  BY DEF ServeSave, Token, Rewritten, Matches, Unseen, gallery, RequestsKnow, Knows,
     KnowsPicture,
     ListsKnow, EditorKnows, TokensArePast, OneIsServed, RowsTypeOK, MineIsOpen, Versioned,
     RecordRows, LoadedRows, EditorRows, SaveRows, PictureRows, UploadRows, TraceRows, Pictures,
     form
<1>5. OneIsServed'
  BY DEF ServeSave, Token, Rewritten, Matches, Unseen, gallery, OneIsServed, Knows,
     KnowsPicture,
     TokensArePast, EditorKnows, RequestsKnow, RowsTypeOK, MineIsOpen, Versioned, RecordRows,
     LoadedRows, EditorRows, SaveRows, PictureRows, UploadRows, TraceRows, Pictures, form
<1>6. trace'.blind = {}
  BY DEF ServeSave, Token, Rewritten, Matches, Unseen, gallery, RequestsKnow, Knows,
     KnowsPicture,
     MineIsOpen, Versioned, form
<1> QED
  BY <1>1, <1>2, <1>3, <1>4, <1>5, <1>6

LEMMA SaveEndsSeen ==
  ASSUME RowsTypeOK, MineIsOpen, BlindInvariant, SaveEnds
  PROVE  BlindInvariant'
<1> USE DEF BlindInvariant
<1>1. UNCHANGED <<kind, record, loaded, trace>> /\ save' = NoSave /\ save.stage = "done"
      /\ save'.stage = "idle" /\ ~save'.mixed /\ save'.token = 0
  BY DEF SaveEnds, NoSave
<1>2. ListsKnow'
  BY <1>1 DEF ListsKnow, Knows, KnowsPicture, Versioned
<1>3. CASE save.mine /\ kind \in StaysOpen
  <2>1. /\ UNCHANGED picture /\ UNCHANGED upload /\ editor'.open = editor.open /\ editor'.text = save.base
        /\ editor'.token = save.token /\ editor'.ptoken = save.token /\ editor'.picture = editor.picture
        /\ editor'.mixed = (editor.mixed \/ (kind = "product" /\ editor.ptoken # editor.token))
    BY <1>3 DEF SaveEnds, gallery, RowsTypeOK, EditorRows
  <2>2. TokensArePast'
    BY <1>1, <2>1 DEF TokensArePast, Versioned, RowsTypeOK, RecordRows
  <2>3. Knows(save.token, save.base)
    BY <1>1 DEF RequestsKnow
  <2>4. EditorKnows'
    <3>1. Knows(editor.token, editor.text)'
      BY <1>1, <2>1, <2>3 DEF Knows, KnowsPicture, Versioned
    <3>2. ASSUME editor'.open, ~editor'.mixed, Versioned, kind \in Pictured
          PROVE  KnowsPicture(save.token, editor.picture)
      <4>1. kind = "product" /\ editor.ptoken = editor.token /\ ~editor.mixed
        BY <1>3, <2>1, <3>2 DEF StaysOpen, Pictured, RowsTypeOK, EditorRows
      <4> QED
        BY <1>1, <1>3, <3>2, <4>1 DEF OneIsServed
    <3> QED
      BY <1>1, <2>1, <3>1, <3>2 DEF EditorKnows, Knows, KnowsPicture, Versioned
  <2>5. RequestsKnow'
    BY <1>1, <2>1 DEF RequestsKnow, Knows, KnowsPicture, Versioned
  <2>6. OneIsServed'
    <3>1. ASSUME Versioned, ~editor'.mixed, picture.mine PROVE picture.stage = "sent" => picture.token <= save.token
      BY <1>1, <1>3, <2>1, <3>1 DEF OneIsServed, RowsTypeOK, EditorRows, SaveRows, PictureRows
    <3>2. ASSUME Versioned, ~editor'.mixed, picture.mine PROVE picture.stage # "done"
      BY <1>1, <1>3, <2>1, <3>2 DEF OneIsServed, RowsTypeOK, EditorRows
    <3> QED
      BY <1>1, <2>1, <3>1, <3>2 DEF OneIsServed, Versioned
  <2> QED
    BY <1>1, <1>2, <2>2, <2>4, <2>5, <2>6
<1>4. CASE ~(save.mine /\ kind \in StaysOpen)
  <2>1. /\ (editor' = editor /\ picture' = picture) \/ (editor' = Closed /\ ~picture'.mine)
        /\ picture'.stage = picture.stage /\ picture'.token = picture.token /\ picture'.base = picture.base
        /\ picture'.body = picture.body /\ picture'.mixed = picture.mixed
    BY <1>4 DEF SaveEnds, gallery, Unmounted, RowsTypeOK, PictureRows
  <2>2. TokensArePast'
    BY <1>1, <2>1 DEF TokensArePast, Versioned, RowsTypeOK, RecordRows, Closed
  <2>3. EditorKnows'
    BY <1>1, <2>1 DEF EditorKnows, Closed, Knows, KnowsPicture, Versioned
  <2>4. RequestsKnow'
    BY <1>1, <2>1 DEF RequestsKnow, Knows, KnowsPicture, Versioned
  <2>5. OneIsServed'
    <3>1. CASE editor' = editor /\ picture' = picture
      BY <1>1, <3>1 DEF OneIsServed, Knows, KnowsPicture, Versioned
    <3>2. CASE editor' = Closed /\ ~picture'.mine
      BY <1>1, <3>2 DEF OneIsServed
    <3> QED
      BY <2>1, <3>1, <3>2
  <2> QED
    BY <1>1, <1>2, <2>2, <2>3, <2>4, <2>5
<1> QED
  BY <1>3, <1>4

LEMMA SaveFailsSeen ==
  ASSUME RowsTypeOK, MineIsOpen, BlindInvariant, SaveFails
  PROVE  BlindInvariant'
<1> USE DEF BlindInvariant
<1>1. TokensArePast'
  BY DEF SaveFails, NoPicture, Token, NoSave, Mishap, Matches, gallery, TokensArePast,
     ListsKnow,
     Knows, KnowsPicture, RequestsKnow, RowsTypeOK, MineIsOpen, Versioned, RecordRows, LoadedRows,
     EditorRows, SaveRows, PictureRows, UploadRows, TraceRows, Pictures, form
<1>2. ListsKnow'
  BY DEF SaveFails, Token, NoSave, Mishap, Matches, gallery, ListsKnow, Knows, KnowsPicture,
     TokensArePast, RequestsKnow, MineIsOpen, Versioned, form
<1>3. EditorKnows'
  BY DEF SaveFails, Token, NoSave, Mishap, Matches, gallery, EditorKnows, Knows, KnowsPicture,
     ListsKnow, RequestsKnow, TokensArePast, OneIsServed, MineIsOpen, Versioned, form
<1>4. RequestsKnow'
  BY DEF SaveFails, Token, NoSave, Mishap, Matches, gallery, RequestsKnow, Knows, KnowsPicture,
     ListsKnow, EditorKnows, TokensArePast, OneIsServed, MineIsOpen, Versioned, form
<1>5. OneIsServed'
  BY DEF SaveFails, Token, NoSave, Mishap, Matches, gallery, OneIsServed, Knows, KnowsPicture,
     TokensArePast, EditorKnows, RequestsKnow, MineIsOpen, Versioned, form
<1>6. trace'.blind = {}
  BY DEF SaveFails, NoSave, Mishap, Matches, gallery, Knows, KnowsPicture, form
<1> QED
  BY <1>1, <1>2, <1>3, <1>4, <1>5, <1>6

LEMMA UploadPictureSeen ==
  ASSUME RowsTypeOK, MineIsOpen, BlindInvariant, UploadPicture
  PROVE  BlindInvariant'
<1> USE DEF BlindInvariant
<1>1. TokensArePast'
  BY DEF UploadPicture, Saving, SavingPicture, form, TokensArePast, ListsKnow, Knows,
     KnowsPicture,
     RequestsKnow, MineIsOpen, Versioned, gallery
<1>2. ListsKnow'
  BY DEF UploadPicture, Saving, SavingPicture, form, ListsKnow, Knows, KnowsPicture,
     TokensArePast,
     RequestsKnow, MineIsOpen, Versioned, gallery
<1>3. EditorKnows'
  BY DEF UploadPicture, Saving, SavingPicture, form, EditorKnows, Knows, KnowsPicture,
     ListsKnow,
     RequestsKnow, TokensArePast, OneIsServed, MineIsOpen, Versioned, gallery
<1>4. RequestsKnow'
  BY DEF UploadPicture, Saving, SavingPicture, form, RequestsKnow, Knows, KnowsPicture,
     ListsKnow,
     EditorKnows, TokensArePast, OneIsServed, MineIsOpen, Versioned, gallery
<1>5. OneIsServed'
  BY DEF UploadPicture, Saving, SavingPicture, form, OneIsServed, gallery
<1>6. trace'.blind = {}
  BY DEF UploadPicture, SavingPicture, form, Knows, KnowsPicture, gallery
<1> QED
  BY <1>1, <1>2, <1>3, <1>4, <1>5, <1>6

LEMMA UploadCompletesSeen ==
  ASSUME RowsTypeOK, MineIsOpen, BlindInvariant, UploadCompletes
  PROVE  BlindInvariant'
<1> USE DEF BlindInvariant
<1>1. TokensArePast'
  BY DEF UploadCompletes, form, TokensArePast, ListsKnow, Knows, KnowsPicture, RequestsKnow,
     MineIsOpen, Versioned, gallery
<1>2. ListsKnow'
  BY DEF UploadCompletes, ListsKnow, Knows, KnowsPicture, TokensArePast, RequestsKnow,
     MineIsOpen,
     Versioned, gallery
<1>3. EditorKnows'
  BY DEF UploadCompletes, form, EditorKnows, Knows, KnowsPicture, ListsKnow, RequestsKnow,
     TokensArePast, OneIsServed, MineIsOpen, Versioned, gallery
<1>4. RequestsKnow'
  BY DEF UploadCompletes, form, RequestsKnow, Knows, KnowsPicture, ListsKnow, EditorKnows,
     TokensArePast, OneIsServed, MineIsOpen, Versioned, gallery
<1>5. OneIsServed'
  BY DEF UploadCompletes, form, OneIsServed, Knows, KnowsPicture, TokensArePast, EditorKnows,
     RequestsKnow, MineIsOpen, Versioned, gallery
<1>6. trace'.blind = {}
  BY DEF UploadCompletes, KnowsPicture, gallery
<1> QED
  BY <1>1, <1>2, <1>3, <1>4, <1>5, <1>6

LEMMA UploadEndsSeen ==
  ASSUME RowsTypeOK, MineIsOpen, BlindInvariant, UploadEnds
  PROVE  BlindInvariant'
<1> USE DEF BlindInvariant
<1>1. /\ UNCHANGED <<kind, record, loaded, save, picture, trace>> /\ editor'.open = editor.open /\ editor'.text = editor.text
      /\ editor'.token = editor.token /\ editor'.ptoken = editor.ptoken /\ editor'.picture = editor.picture
      /\ editor'.mixed = editor.mixed
  BY DEF UploadEnds, Chosen, RowsTypeOK, EditorRows
<1> QED
  BY <1>1 DEF TokensArePast, ListsKnow, EditorKnows, RequestsKnow, OneIsServed, Knows,
     KnowsPicture,
     Versioned

LEMMA UploadFailsSeen ==
  ASSUME RowsTypeOK, MineIsOpen, BlindInvariant, UploadFails
  PROVE  BlindInvariant'
<1> USE DEF BlindInvariant
<1>1. TokensArePast'
  BY DEF UploadFails, NoUpload, Mishap, form, TokensArePast, ListsKnow, Knows, KnowsPicture,
     RequestsKnow, MineIsOpen, Versioned, gallery
<1>2. ListsKnow'
  BY DEF UploadFails, NoUpload, Mishap, form, ListsKnow, Knows, KnowsPicture, TokensArePast,
     RequestsKnow, MineIsOpen, Versioned, gallery
<1>3. EditorKnows'
  BY DEF UploadFails, NoUpload, Mishap, form, EditorKnows, Knows, KnowsPicture, ListsKnow,
     RequestsKnow, TokensArePast, OneIsServed, MineIsOpen, Versioned, gallery
<1>4. RequestsKnow'
  BY DEF UploadFails, NoUpload, Mishap, form, RequestsKnow, Knows, KnowsPicture, ListsKnow,
     EditorKnows, TokensArePast, OneIsServed, MineIsOpen, Versioned, gallery
<1>5. OneIsServed'
  BY DEF UploadFails, NoUpload, Mishap, form, OneIsServed, Knows, KnowsPicture, TokensArePast,
     EditorKnows, RequestsKnow, MineIsOpen, Versioned, gallery
<1>6. trace'.blind = {}
  BY DEF UploadFails, Mishap, form, Knows, KnowsPicture, gallery
<1> QED
  BY <1>1, <1>2, <1>3, <1>4, <1>5, <1>6

LEMMA SavePictureSeen ==
  ASSUME RowsTypeOK, MineIsOpen, BlindInvariant, NEW m \in Pictures, SavePicture(m)
  PROVE  BlindInvariant'
<1> USE DEF BlindInvariant
<1>1. TokensArePast'
  BY DEF SavePicture, Pictured, Saving, Uploading, TokensArePast, ListsKnow, Knows,
     KnowsPicture,
     RequestsKnow, MineIsOpen, Versioned, form, gallery
<1>2. ListsKnow'
  BY DEF SavePicture, Pictured, Saving, Uploading, ListsKnow, Knows, KnowsPicture,
     TokensArePast,
     RequestsKnow, MineIsOpen, Versioned, form, gallery
<1>3. EditorKnows'
  BY DEF SavePicture, Pictured, Saving, Uploading, EditorKnows, Knows, KnowsPicture, ListsKnow,
     RequestsKnow, TokensArePast, OneIsServed, MineIsOpen, Versioned, form, gallery
<1>4. RequestsKnow'
  BY DEF SavePicture, Pictured, Saving, Uploading, RequestsKnow, Knows, KnowsPicture, ListsKnow,
     EditorKnows, TokensArePast, OneIsServed, MineIsOpen, Versioned, form, gallery
<1>5. OneIsServed'
  BY DEF SavePicture, NoPicture, Pictured, Saving, Uploading, OneIsServed, RowsTypeOK,
     RecordRows,
     LoadedRows, EditorRows, SaveRows, PictureRows, UploadRows, TraceRows, Pictures, form, gallery
<1>6. trace'.blind = {}
  BY DEF SavePicture, Saving, Uploading, Knows, KnowsPicture, form, gallery
<1> QED
  BY <1>1, <1>2, <1>3, <1>4, <1>5, <1>6

LEMMA ServePictureSeen ==
  ASSUME RowsTypeOK, MineIsOpen, BlindInvariant, ServePicture
  PROVE  BlindInvariant'
<1> USE DEF BlindInvariant
<1>1. TokensArePast'
  BY DEF ServePicture, NoPicture, Token, Matches, Unseen, Accepts, form, TokensArePast,
     ListsKnow,
     Knows, KnowsPicture, RequestsKnow, RowsTypeOK, MineIsOpen, Versioned, RecordRows, LoadedRows,
     EditorRows, SaveRows, PictureRows, UploadRows, TraceRows, Pictures, gallery
<1>2. ListsKnow'
  BY DEF ServePicture, NoPicture, Token, Matches, Unseen, Accepts, form, ListsKnow, Knows,
     KnowsPicture, TokensArePast, RequestsKnow, RowsTypeOK, MineIsOpen, Versioned, RecordRows,
     LoadedRows, EditorRows, SaveRows, PictureRows, UploadRows, TraceRows, Pictures, gallery
<1>3. EditorKnows'
  BY DEF ServePicture, NoPicture, Token, Matches, Unseen, Accepts, form, EditorKnows, Knows,
     KnowsPicture, ListsKnow, RequestsKnow, TokensArePast, OneIsServed, RowsTypeOK, MineIsOpen,
     Versioned, RecordRows, LoadedRows, EditorRows, SaveRows, PictureRows, UploadRows, TraceRows,
     Pictures, gallery
<1>4. RequestsKnow'
  BY DEF ServePicture, NoPicture, Token, Matches, Unseen, Accepts, form, RequestsKnow, Knows,
     KnowsPicture, ListsKnow, EditorKnows, TokensArePast, OneIsServed, RowsTypeOK, MineIsOpen,
     Versioned, RecordRows, LoadedRows, EditorRows, SaveRows, PictureRows, UploadRows, TraceRows,
     Pictures, gallery
<1>5. OneIsServed'
  BY DEF ServePicture, NoPicture, Token, Matches, Unseen, Accepts, form, OneIsServed, Knows,
     KnowsPicture, TokensArePast, EditorKnows, RequestsKnow, RowsTypeOK, MineIsOpen, Versioned,
     RecordRows, LoadedRows, EditorRows, SaveRows, PictureRows, UploadRows, TraceRows, Pictures,
     gallery
<1>6. trace'.blind = {}
  <2>1. trace'.blind = trace.blind \union Unseen(picture, "picture")
    BY DEF ServePicture, RowsTypeOK, TraceRows
  <2>2. kind \in Pictured
    BY DEF ServePicture, MineIsOpen
  <2>3. ASSUME Versioned, ~picture.mixed PROVE record.picture = picture.base
    <3>1. picture.token = record.version
      BY <2>3 DEF ServePicture, Accepts, Matches, Token, Versioned
    <3> QED
      BY <2>2, <2>3, <3>1 DEF ServePicture, RequestsKnow, KnowsPicture
  <2>4. Unseen(picture, "picture") = {}
    BY <2>2, <2>3 DEF Unseen, Versioned, Pictured
  <2> QED
    BY <2>1, <2>4
<1> QED
  BY <1>1, <1>2, <1>3, <1>4, <1>5, <1>6

LEMMA PictureEndsSeen ==
  ASSUME RowsTypeOK, MineIsOpen, BlindInvariant, PictureEnds
  PROVE  BlindInvariant'
<1> USE DEF BlindInvariant
<1>1. TokensArePast'
  BY DEF PictureEnds, NoPicture, NoSave, NoPictureSave, TokensArePast, ListsKnow, Knows,
     KnowsPicture, RequestsKnow, RowsTypeOK, MineIsOpen, Versioned, RecordRows, LoadedRows,
     EditorRows, SaveRows, PictureRows, UploadRows, TraceRows, Pictures, form, gallery
<1>2. ListsKnow'
  BY DEF PictureEnds, NoSave, NoPictureSave, ListsKnow, Knows, KnowsPicture, TokensArePast,
     RequestsKnow, MineIsOpen, Versioned, form, gallery
<1>3. EditorKnows'
  <2>1. CASE ~picture.mine
    BY <2>1 DEF PictureEnds, EditorKnows, Knows, KnowsPicture, Versioned
  <2>2. CASE picture.mine
    <3>1. /\ UNCHANGED <<kind, record>> /\ editor'.text = editor.text /\ editor'.picture = picture.body
          /\ editor'.token = picture.token /\ editor'.ptoken = picture.token
          /\ editor'.mixed = (editor.mixed \/ editor.token # editor.ptoken)
      BY <2>2 DEF PictureEnds
    <3>2. KnowsPicture(picture.token, picture.body) /\ kind \in Pictured
      BY DEF PictureEnds, RequestsKnow, MineIsOpen
    <3>3. ASSUME ~editor'.mixed PROVE Knows(picture.token, editor.text)
      <4>1. CASE Versioned
        BY <2>2, <3>1, <3>3, <4>1 DEF OneIsServed, PictureEnds, RowsTypeOK, EditorRows
      <4>2. CASE ~Versioned
        BY <3>2, <4>2 DEF Knows, Versioned, Pictured
      <4> QED
        BY <4>1, <4>2
    <3> QED
      BY <3>1, <3>2, <3>3 DEF EditorKnows, Knows, KnowsPicture, Versioned
  <2> QED
    BY <2>1, <2>2
<1>4. RequestsKnow'
  BY DEF PictureEnds, NoSave, NoPictureSave, RequestsKnow, Knows, KnowsPicture, ListsKnow,
     EditorKnows, TokensArePast, OneIsServed, MineIsOpen, Versioned, form, gallery
<1>5. OneIsServed'
  BY DEF PictureEnds, NoPicture, NoSave, NoPictureSave, OneIsServed, Knows, KnowsPicture,
     TokensArePast, EditorKnows, RequestsKnow, RowsTypeOK, MineIsOpen, Versioned, RecordRows,
     LoadedRows, EditorRows, SaveRows, PictureRows, UploadRows, TraceRows, Pictures, form, gallery
<1>6. trace'.blind = {}
  BY DEF PictureEnds, NoPictureSave, Knows, KnowsPicture, form, gallery
<1> QED
  BY <1>1, <1>2, <1>3, <1>4, <1>5, <1>6

LEMMA PictureFailsSeen ==
  ASSUME RowsTypeOK, MineIsOpen, BlindInvariant, PictureFails
  PROVE  BlindInvariant'
<1> USE DEF BlindInvariant
<1>1. TokensArePast'
  BY DEF PictureFails, NoPicture, Token, NoSave, NoPictureSave, Mishap, Matches, Accepts,
     TokensArePast, ListsKnow, Knows, KnowsPicture, RequestsKnow, RowsTypeOK, MineIsOpen, Versioned,
     RecordRows, LoadedRows, EditorRows, SaveRows, PictureRows, UploadRows, TraceRows, Pictures,
     form, gallery
<1>2. ListsKnow'
  BY DEF PictureFails, Token, NoSave, NoPictureSave, Mishap, Matches, Accepts, ListsKnow, Knows,
     KnowsPicture, TokensArePast, RequestsKnow, MineIsOpen, Versioned, form, gallery
<1>3. EditorKnows'
  BY DEF PictureFails, Token, NoSave, NoPictureSave, Mishap, Matches, Accepts, EditorKnows,
     Knows,
     KnowsPicture, ListsKnow, RequestsKnow, TokensArePast, OneIsServed, MineIsOpen, Versioned, form,
     gallery
<1>4. RequestsKnow'
  BY DEF PictureFails, Token, NoSave, NoPictureSave, Mishap, Matches, Accepts, RequestsKnow,
     Knows,
     KnowsPicture, ListsKnow, EditorKnows, TokensArePast, OneIsServed, MineIsOpen, Versioned, form,
     gallery
<1>5. OneIsServed'
  BY DEF PictureFails, Token, NoSave, NoPictureSave, Mishap, Matches, Accepts, OneIsServed,
     Knows,
     KnowsPicture, TokensArePast, EditorKnows, RequestsKnow, MineIsOpen, Versioned, form, gallery
<1>6. trace'.blind = {}
  BY DEF PictureFails, NoSave, NoPictureSave, Mishap, Matches, Accepts, Knows, KnowsPicture,
     form,
     gallery
<1> QED
  BY <1>1, <1>2, <1>3, <1>4, <1>5, <1>6

LEMMA ReloadPictureSeen ==
  ASSUME RowsTypeOK, MineIsOpen, BlindInvariant, ReloadPicture
  PROVE  BlindInvariant'
<1> USE DEF BlindInvariant
<1>1. TokensArePast'
  BY DEF ReloadPicture, NoPicture, SavingPicture, gallery, TokensArePast, ListsKnow, Knows,
     KnowsPicture, RequestsKnow, RowsTypeOK, MineIsOpen, Versioned, RecordRows, LoadedRows,
     EditorRows, SaveRows, PictureRows, UploadRows, TraceRows, Pictures, form
<1>2. ListsKnow'
  BY DEF ReloadPicture, SavingPicture, gallery, ListsKnow, Knows, KnowsPicture, TokensArePast,
     RequestsKnow, MineIsOpen, Versioned, form
<1>3. EditorKnows'
  BY DEF ReloadPicture, NoPicture, SavingPicture, gallery, EditorKnows, Knows, KnowsPicture,
     ListsKnow, RequestsKnow, TokensArePast, OneIsServed, RowsTypeOK, MineIsOpen, Versioned,
     RecordRows, LoadedRows, EditorRows, SaveRows, PictureRows, UploadRows, TraceRows, Pictures,
     form
<1>4. RequestsKnow'
  BY DEF ReloadPicture, SavingPicture, gallery, RequestsKnow, Knows, KnowsPicture, ListsKnow,
     EditorKnows, TokensArePast, OneIsServed, MineIsOpen, Versioned, form
<1>5. OneIsServed'
  BY DEF ReloadPicture, NoPicture, SavingPicture, gallery, OneIsServed, Knows, KnowsPicture,
     TokensArePast, EditorKnows, RequestsKnow, RowsTypeOK, MineIsOpen, Versioned, RecordRows,
     LoadedRows, EditorRows, SaveRows, PictureRows, UploadRows, TraceRows, Pictures, form
<1>6. trace'.blind = {}
  BY DEF ReloadPicture, gallery, Knows, KnowsPicture, form
<1> QED
  BY <1>1, <1>2, <1>3, <1>4, <1>5, <1>6

LEMMA ServeDeleteSeen ==
  ASSUME RowsTypeOK, MineIsOpen, BlindInvariant, NEW m \in Media, ServeDelete(m)
  PROVE  BlindInvariant'
<1> USE DEF BlindInvariant
<1>1. TokensArePast'
  BY DEF ServeDelete, form, TokensArePast, ListsKnow, Knows, KnowsPicture, RequestsKnow,
     MineIsOpen,
     Versioned, gallery
<1>2. ListsKnow'
  BY DEF ServeDelete, ListsKnow, Knows, KnowsPicture, TokensArePast, RequestsKnow, MineIsOpen,
     Versioned, gallery
<1>3. EditorKnows'
  BY DEF ServeDelete, form, EditorKnows, Knows, KnowsPicture, ListsKnow, RequestsKnow,
     TokensArePast, OneIsServed, MineIsOpen, Versioned, gallery
<1>4. RequestsKnow'
  BY DEF ServeDelete, form, RequestsKnow, Knows, KnowsPicture, ListsKnow, EditorKnows,
     TokensArePast, OneIsServed, MineIsOpen, Versioned, gallery
<1>5. OneIsServed'
  BY DEF ServeDelete, form, OneIsServed, Knows, KnowsPicture, TokensArePast, EditorKnows,
     RequestsKnow, MineIsOpen, Versioned, gallery
<1>6. trace'.blind = {}
  BY DEF ServeDelete, KnowsPicture, gallery
<1> QED
  BY <1>1, <1>2, <1>3, <1>4, <1>5, <1>6

LEMMA LoseDeleteSeen ==
  ASSUME RowsTypeOK, MineIsOpen, BlindInvariant, NEW m \in Media, LoseDelete(m)
  PROVE  BlindInvariant'
<1> USE DEF BlindInvariant
<1>1. TokensArePast'
  BY DEF LoseDelete, form, TokensArePast, ListsKnow, Knows, KnowsPicture, RequestsKnow,
     MineIsOpen,
     Versioned, gallery
<1>2. ListsKnow'
  BY DEF LoseDelete, form, ListsKnow, Knows, KnowsPicture, TokensArePast, RequestsKnow,
     MineIsOpen,
     Versioned, gallery
<1>3. EditorKnows'
  BY DEF LoseDelete, form, EditorKnows, Knows, KnowsPicture, ListsKnow, RequestsKnow,
     TokensArePast,
     OneIsServed, MineIsOpen, Versioned, gallery
<1>4. RequestsKnow'
  BY DEF LoseDelete, form, RequestsKnow, Knows, KnowsPicture, ListsKnow, EditorKnows,
     TokensArePast,
     OneIsServed, MineIsOpen, Versioned, gallery
<1>5. OneIsServed'
  BY DEF LoseDelete, form, OneIsServed, Knows, KnowsPicture, TokensArePast, EditorKnows,
     RequestsKnow, MineIsOpen, Versioned, gallery
<1>6. trace'.blind = {}
  BY DEF LoseDelete, Knows, KnowsPicture, gallery
<1> QED
  BY <1>1, <1>2, <1>3, <1>4, <1>5, <1>6

LEMMA CleanupSeen ==
  ASSUME RowsTypeOK, MineIsOpen, BlindInvariant, NEW m \in Media, Cleanup(m)
  PROVE  BlindInvariant'
<1> USE DEF BlindInvariant
<1>1. TokensArePast'
  BY DEF Cleanup, form, gallery, TokensArePast, ListsKnow, Knows, KnowsPicture, RequestsKnow,
     MineIsOpen, Versioned
<1>2. ListsKnow'
  BY DEF Cleanup, form, gallery, ListsKnow, Knows, KnowsPicture, TokensArePast, RequestsKnow,
     MineIsOpen, Versioned
<1>3. EditorKnows'
  BY DEF Cleanup, form, gallery, EditorKnows, Knows, KnowsPicture, ListsKnow, RequestsKnow,
     TokensArePast, OneIsServed, MineIsOpen, Versioned
<1>4. RequestsKnow'
  BY DEF Cleanup, form, gallery, RequestsKnow, Knows, KnowsPicture, ListsKnow, EditorKnows,
     TokensArePast, OneIsServed, MineIsOpen, Versioned
<1>5. OneIsServed'
  BY DEF Cleanup, form, gallery, OneIsServed, Knows, KnowsPicture, TokensArePast, EditorKnows,
     RequestsKnow, MineIsOpen, Versioned
<1>6. trace'.blind = {}
  BY DEF Cleanup, gallery, Knows, KnowsPicture
<1> QED
  BY <1>1, <1>2, <1>3, <1>4, <1>5, <1>6

-----------------------------------------------------------------------------
(***************************************************************************)
(* Forms of records and the console: the theorems                          *)
(***************************************************************************)
LEMMA RecordsStart == RecordsInit => PictureInvariant /\ BlindInvariant
<1> SUFFICES ASSUME RecordsInit PROVE PictureInvariant /\ BlindInvariant
  OBVIOUS
<1>1. PICK m \in IF kind \in Pictured THEN Media \union {NoPicture} ELSE {NoPicture} :
        /\ record = [text |-> 0, picture |-> m, version |-> 0]
        /\ stored = {m} \ {NoPicture} /\ trace = [blind |-> {}, used |-> stored, excused |-> {}]
  BY DEF RecordsInit
<1>2. /\ kind \in Kinds /\ loaded = [text |-> 0, token |-> 0, picture |-> m, ptoken |-> 0]
      /\ editor = Closed /\ save = NoSave /\ upload = NoUpload /\ deletes = {}
      /\ picture = [stage |-> "idle", mine |-> FALSE, body |-> NoPicture, token |-> 0, base |-> NoPicture, mixed |-> FALSE]
  <2>1. Token(kind, record) = 0
    BY <1>1 DEF Token
  <2> QED
    BY <1>1, <2>1 DEF RecordsInit, Snapshot, NoPictureSave, NoSave
<1>3. RowsTypeOK /\ MineIsOpen
  BY <1>1, <1>2, RecordsAssumption DEF RowsTypeOK, MineIsOpen, Closed, NoSave, NoUpload,
     RecordRows, LoadedRows,
     EditorRows, SaveRows, PictureRows, UploadRows, TraceRows, Pictures
<1>4. PicturesArrived /\ RecordedAreExcused /\ PicturesAreAccountedFor
  BY <1>1, <1>2 DEF PicturesArrived, Arrived, Named, RecordedAreExcused, Recorded,
     PicturesAreAccountedFor,
     Closed, NoUpload
<1>5. BlindInvariant
  BY <1>1, <1>2 DEF BlindInvariant, TokensArePast, ListsKnow, EditorKnows, RequestsKnow,
     OneIsServed, Knows,
     KnowsPicture, Closed, NoSave
<1> QED
  BY <1>3, <1>4, <1>5 DEF PictureInvariant

LEMMA RecordsKeep == PictureInvariant /\ BlindInvariant /\ [RecordsNext]_recordVars => (PictureInvariant /\ BlindInvariant)'
<1> SUFFICES ASSUME PictureInvariant, BlindInvariant, [RecordsNext]_recordVars
             PROVE  (PictureInvariant /\ BlindInvariant)'
  OBVIOUS
<1>1. CASE UNCHANGED recordVars
  <2>1. UNCHANGED <<kind, record, stored, loaded, editor, save, picture, upload, deletes, trace>>
    BY <1>1 DEF recordVars, form, gallery
  <2>2. PictureInvariant'
    BY <2>1 DEF PictureInvariant, RowsTypeOK, MineIsOpen, PicturesArrived, Arrived, Named,
       RecordedAreExcused,
       Recorded, PicturesAreAccountedFor
  <2>3. BlindInvariant'
    BY <2>1 DEF BlindInvariant, TokensArePast, ListsKnow, EditorKnows, RequestsKnow,
       OneIsServed, Knows,
       KnowsPicture, Versioned
  <2> QED
    BY <2>2, <2>3
<1>2. CASE RecordsNext
  <2>1. RowsTypeOK /\ MineIsOpen
    BY DEF PictureInvariant
  <2>2. (RowsTypeOK /\ MineIsOpen)'
    BY <1>2, <2>1, RivalSaveRows, RivalPictureRows, LoadRecordRows, LoadGalleryRows,
       OpenEditorRows, CloseEditorRows,
       ReloadRecordRows, EditFormRows, ReviewFormRows, SaveFormRows, ServeSaveRows, SaveEndsRows,
       SaveFailsRows, UploadPictureRows, UploadCompletesRows, UploadEndsRows, UploadFailsRows,
       SavePictureRows, ServePictureRows, PictureEndsRows, PictureFailsRows, ReloadPictureRows,
       ServeDeleteRows, LoseDeleteRows, CleanupRows DEF RecordsNext, Pictures
  <2>3. (PicturesArrived /\ RecordedAreExcused /\ PicturesAreAccountedFor)'
    BY <1>2, RivalSavePictures, RivalPicturePictures, LoadRecordPictures, LoadGalleryPictures,
       OpenEditorPictures, CloseEditorPictures, ReloadRecordPictures, EditFormPictures, ReviewFormPictures,
       SaveFormPictures, ServeSavePictures, SaveEndsPictures, SaveFailsPictures, UploadPicturePictures,
       UploadCompletesPictures, UploadEndsPictures, UploadFailsPictures, SavePicturePictures,
       ServePicturePictures, PictureEndsPictures, PictureFailsPictures, ReloadPicturePictures,
       ServeDeletePictures, LoseDeletePictures, CleanupPictures DEF RecordsNext, Pictures
  <2>4. BlindInvariant'
    BY <1>2, <2>1, RivalSaveSeen, RivalPictureSeen, LoadRecordSeen, LoadGallerySeen,
       OpenEditorSeen, CloseEditorSeen,
       ReloadRecordSeen, EditFormSeen, ReviewFormSeen, SaveFormSeen, ServeSaveSeen, SaveEndsSeen,
       SaveFailsSeen, UploadPictureSeen, UploadCompletesSeen, UploadEndsSeen, UploadFailsSeen,
       SavePictureSeen, ServePictureSeen, PictureEndsSeen, PictureFailsSeen, ReloadPictureSeen,
       ServeDeleteSeen, LoseDeleteSeen, CleanupSeen DEF RecordsNext, Pictures
  <2> QED
    BY <2>2, <2>3, <2>4 DEF PictureInvariant
<1> QED
  BY <1>1, <1>2

(***************************************************************************)
(* A form or a picture's editor saves over a text or a picture its author  *)
(* was shown, and over no other, for any number of writes to the record.   *)
(***************************************************************************)
THEOREM NothingUnseenGoes == RecordsSpec => []NothingUnseenIsReplaced
<1>1. BlindInvariant => NothingUnseenIsReplaced
  BY DEF BlindInvariant, NothingUnseenIsReplaced
<1> QED
  BY <1>1, RecordsStart, RecordsKeep, PTL DEF RecordsSpec

(***************************************************************************)
(* A behaviour of the console is one of each desk, which it may never be   *)
(* at: what is proved of a desk holds of the console.                      *)
(***************************************************************************)
THEOREM ConsoleIsItsDesks == ConsoleSpec => Spec /\ RecordsSpec /\ CreationSpec
<1>1. ConsoleInit => Init /\ RecordsInit /\ CreationInit
  BY DEF ConsoleInit
<1>2. [ConsoleNext]_consoleVars => [Next]_vars /\ [RecordsNext]_recordVars /\ [CreationNext]_creationVars
  BY DEF ConsoleNext, StaffStep, RecordsStep, CreationStep, OrdersStep, AssignmentStep,
     consoleVars
<1> QED
  BY <1>1, <1>2, PTL DEF ConsoleSpec, Spec, RecordsSpec, CreationSpec

(***************************************************************************)
(* At every desk: a picture that a record shows is in the store, and one   *)
(* in the store is shown, drafted, on its way out or excused by a lost     *)
(* answer, for any pictures, records and losses.                           *)
(***************************************************************************)
THEOREM PicturesAreKept == ConsoleSpec => []CatalogPicturesAreKept
<1>1. PictureInvariant /\ CreationInvariant => CatalogPicturesAreKept
  BY DEF PictureInvariant, CreationInvariant, CatalogPicturesAreKept
<1>2. RecordsSpec => []PictureInvariant
  BY RecordsStart, RecordsKeep, PTL DEF RecordsSpec
<1>3. CreationSpec => []CreationInvariant
  BY CreationStarts, CreationKeeps, PTL DEF CreationSpec
<1> QED
  BY <1>1, <1>2, <1>3, ConsoleIsItsDesks, PTL
=============================================================================
