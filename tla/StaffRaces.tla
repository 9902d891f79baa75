----------------------------- MODULE StaffRaces -----------------------------
(***************************************************************************)
(* Administrators' transactions that decide on rows other than the one     *)
(* they change: booking a technician looks at his other jobs, and taking   *)
(* an administrator's access away counts the administrators.  Each is      *)
(* taken apart at its statements; the database is READ COMMITTED, so that  *)
(* a statement sees what is committed, and an open transaction shows the   *)
(* others nothing but the rows it has locked FOR UPDATE.                   *)
(*                                                                         *)
(* Every such transaction ends with a history or audit row that refers to  *)
(* its author's account, and waits while another has locked that account.  *)
(***************************************************************************)
EXTENDS Naturals, FiniteSets

CONSTANTS
  Users,         \* accounts of people who are or may become staff
  FirstRole,     \* FirstRole[u]: the role of u at the start
  Changes,       \* access an administrator may give: the role and active it makes
  Jobs,          \* paid service requests to be scheduled
  Windows,       \* appointments on offer, <<start, end>>
  Transactions,  \* handlers that may run at the same time
  Nobody         \* assigned_technician_id = NULL

Roles == {"customer", "admin", "technician"}

ASSUME StaffAssumption ==
  /\ IsFiniteSet(Users) /\ Nobody \notin Users
  /\ FirstRole \in [Users -> Roles]
  /\ Changes \subseteq [role : Roles, active : BOOLEAN]
  /\ Windows \subseteq Nat \X Nat

VARIABLES
  account,  \* account[u]: role and is_active
  job,      \* job[j]: technician, appointment, whether the request is open
  txn       \* txn[t]: where transaction t is and what it is about

vars == <<account, job, txn>>

\* allowed: history, the last booking was made with allow_overlap.
Unbooked == [technician |-> Nobody, window |-> <<>>, open |-> TRUE, allowed |-> FALSE]
Idle == [at |-> "idle"]

ActiveAdmins == {u \in Users : account[u].role = "admin" /\ account[u].active}
Technician(u) == account[u].role = "technician" /\ account[u].active

\* Transaction t has locked the account of u, or the row of job j.
LocksAccount(t, u) ==
  txn[t].at \in {"looking", "booked", "counting", "writing"} /\ txn[t].user = u
LocksJob(t, j) ==
  txn[t].at \in {"booking", "looking", "booked"} /\ txn[t].job = j

FreeAccount(t, u) == \A other \in Transactions \ {t} : ~LocksAccount(other, u)

Goes(t, at) == txn' = [txn EXCEPT ![t].at = at]
Ends(t) == txn' = [txn EXCEPT ![t] = Idle]

-----------------------------------------------------------------------------
(***************************************************************************)
(* Booking: confirm() gives a job its technician and appointment, assign() *)
(* another technician for the appointment it has.                          *)
(***************************************************************************)
BeginBooking(t, actor, j, u, w, allow) ==
  /\ txn[t] = Idle
  /\ actor \in ActiveAdmins
  /\ \A other \in Transactions : ~LocksJob(other, j)
  /\ job[j].open
  /\ job[j].technician # Nobody => w = job[j].window
  /\ txn' = [txn EXCEPT ![t] =
       [at |-> "booking", actor |-> actor, job |-> j, user |-> u, window |-> w,
        allow |-> allow]]
  /\ UNCHANGED <<account, job>>

\* Mutant: get_active_technician() reads without locking.
ReadTechnician(t) ==
  /\ txn[t].at = "booking"
  /\ Technician(txn[t].user)
  /\ Goes(t, "looking")
  /\ UNCHANGED <<account, job>>

\* get_active_technician() waits for the account and tests what it finds then.
LockTechnician(t) ==
  /\ txn[t].at = "booking"
  /\ FreeAccount(t, txn[t].user)
  /\ Technician(txn[t].user)
  /\ Goes(t, "looking")
  /\ UNCHANGED <<account, job>>

Overlap(v, w) == v[1] < w[2] /\ w[1] < v[2]

\* Mutant: only another job's appointment that starts within this one counts.
OverlapsStartingWithin(j, u, w) ==
  {k \in Jobs \ {j} : /\ job[k].technician = u /\ job[k].open
                      /\ w[1] <= job[k].window[1] /\ job[k].window[1] < w[2]}

\* list_overlaps(): the technician's other open jobs in the same time.
Overlaps(j, u, w) ==
  {k \in Jobs \ {j} : job[k].technician = u /\ job[k].open /\ Overlap(job[k].window, w)}

LookForOverlaps(t) ==
  /\ txn[t].at = "looking"
  /\ Overlaps(txn[t].job, txn[t].user, txn[t].window) = {} \/ txn[t].allow
  /\ Goes(t, "booked")
  /\ UNCHANGED <<account, job>>

CommitBooking(t) ==
  /\ txn[t].at = "booked"
  /\ FreeAccount(t, txn[t].actor)
  /\ job' = [job EXCEPT ![txn[t].job] =
       [technician |-> txn[t].user, window |-> txn[t].window, open |-> TRUE,
        allowed |-> txn[t].allow]]
  /\ Ends(t)
  /\ UNCHANGED account

\* The request is completed or cancelled, in a transaction that locks its row.
CloseJob(j) ==
  /\ \A t \in Transactions : ~LocksJob(t, j)
  /\ job[j].open /\ job[j].technician # Nobody
  /\ job' = [job EXCEPT ![j].open = FALSE]
  /\ UNCHANGED <<account, txn>>

-----------------------------------------------------------------------------
(***************************************************************************)
(* Access: change_user_access().                                           *)
(***************************************************************************)
TakesAdminAway(change) == change.role # "admin" \/ ~change.active

\* Mutant: administrators may remove themselves.
BeginAccessOfAnyone(t, actor, u, change) ==
  /\ txn[t] = Idle
  /\ actor \in ActiveAdmins
  /\ txn' = [txn EXCEPT ![t] =
       [at |-> "access", actor |-> actor, user |-> u, change |-> change]]
  /\ UNCHANGED <<account, job>>

\* The actor is an administrator when the request is authenticated.
BeginAccess(t, actor, u, change) ==
  /\ txn[t] = Idle
  /\ actor \in ActiveAdmins
  /\ actor = u => ~TakesAdminAway(change)
  /\ txn' = [txn EXCEPT ![t] =
       [at |-> "access", actor |-> actor, user |-> u, change |-> change]]
  /\ UNCHANGED <<account, job>>

LockAccount(t) ==
  /\ txn[t].at = "access"
  /\ FreeAccount(t, txn[t].user)
  /\ Goes(t, "counting")
  /\ UNCHANGED <<account, job>>

\* The count locks nothing but the one account already locked.
CountAdmins(t) ==
  /\ txn[t].at = "counting"
  /\ account[txn[t].user].role = "admin" /\ TakesAdminAway(txn[t].change)
       => Cardinality(ActiveAdmins) > 1
  /\ Goes(t, "writing")
  /\ UNCHANGED <<account, job>>

\* The actor's own account was loaded to authenticate him, as an active
\* administrator's, and only what differs from that is written.
Unchanged(t) == txn[t].user = txn[t].actor /\ ~TakesAdminAway(txn[t].change)

CommitAccess(t) ==
  /\ txn[t].at = "writing"
  /\ FreeAccount(t, txn[t].actor)
  /\ account' = IF Unchanged(t) THEN account
                ELSE [account EXCEPT ![txn[t].user] = txn[t].change]
  /\ Ends(t)
  /\ UNCHANGED job

\* A refusal, a lost connection, a crash, or the victim of a deadlock.
Rollback(t) ==
  /\ txn[t] # Idle
  /\ Ends(t)
  /\ UNCHANGED <<account, job>>

-----------------------------------------------------------------------------
Init ==
  /\ account = [u \in Users |-> [role |-> FirstRole[u], active |-> TRUE]]
  /\ job = [j \in Jobs |-> Unbooked]
  /\ txn = [t \in Transactions |-> Idle]

Begin(t) ==
  \E actor, u \in Users :
    \/ \E change \in Changes : BeginAccess(t, actor, u, change)
    \/ \E j \in Jobs, w \in Windows, allow \in BOOLEAN : BeginBooking(t, actor, j, u, w, allow)

Next ==
  \/ \E t \in Transactions :
       \/ Begin(t)
       \/ LockTechnician(t)
       \/ LookForOverlaps(t)
       \/ CommitBooking(t)
       \/ LockAccount(t)
       \/ CountAdmins(t)
       \/ CommitAccess(t)
       \/ Rollback(t)
  \/ \E j \in Jobs : CloseJob(j)

Spec == Init /\ [][Next]_vars

-----------------------------------------------------------------------------
(***************************************************************************)
(* Properties                                                              *)
(***************************************************************************)
Bookings ==
  [at : {"booking", "looking", "booked"}, actor : Users, job : Jobs, user : Users,
   window : Windows, allow : BOOLEAN]
AccessChanges ==
  [at : {"access", "counting", "writing"}, actor : Users, user : Users, change : Changes]

\* Every variable keeps the shape of its table, every transaction its request.
TypeOK ==
  /\ account \in [Users -> [role : Roles, active : BOOLEAN]]
  /\ job \in [Jobs -> [technician : Users \union {Nobody}, window : Windows \union {<<>>},
                       open : BOOLEAN, allowed : BOOLEAN]]
  /\ txn \in [Transactions -> Bookings \union AccessChanges \union {Idle}]

Clash(j, k) ==
  /\ j # k /\ job[j].open /\ job[k].open
  /\ job[j].technician = job[k].technician /\ job[j].technician # Nobody
  /\ Overlap(job[j].window, job[k].window)

\* Two open jobs of a technician overlap only if the administrator who booked
\* one of them saw the warning and allowed it, however bookings interleave.
OverlapsWereAllowed ==
  \A j, k \in Jobs :
    Clash(j, k) => job[j].allowed \/ job[k].allowed

\* A job is given only to someone who is an active technician when the booking
\* commits, whatever administrators do to his account meanwhile.
GivenToTechnicians ==
  [][\A j \in Jobs : job'[j].technician # job[j].technician
       => Technician(job'[j].technician)]_vars

\* Both promises of a booking, however bookings and changes of access cross.
BookingsAreSound == []OverlapsWereAllowed /\ GivenToTechnicians

\* The last administrator is removed, if ever, by a request whose own author
\* lost his access after the request was authenticated.
Commits(t) == txn[t].at = "writing" /\ account' # account /\ txn'[t] = Idle

OnlyOvertakenRemoveTheLast ==
  [][ActiveAdmins # {} /\ ActiveAdmins' = {}
       => \E t \in Transactions : Commits(t) /\ txn[t].actor \notin ActiveAdmins]_vars
=============================================================================
