---------------------------- MODULE MachinePages ----------------------------
(***************************************************************************)
(* A customer's machine on the phone: the list of machines, the page of    *)
(* one, with the form that completes the serial number of a machine bought *)
(* in the shop, and the card of the home screen that shows the service     *)
(* request in hand.  The two screens ask anew when they are opened or come *)
(* back into focus; the card only at its first look, when a push message   *)
(* arrives and when the application returns to the front.                  *)
(*                                                                         *)
(* The machine is one; what becomes of its service requests is a count of  *)
(* their moves.  Of the API the completion is one step: it holds the row   *)
(* of the machine and the lock of the number, which every writer of        *)
(* numbers takes.                                                          *)
(***************************************************************************)
EXTENDS Naturals

CONSTANTS
  Numbers,          \* serial numbers a customer may enter
  MaxWork,          \* bound: moves of the machine's service requests
  MaxMishaps        \* bound: requests without an answer and times in the back

ASSUME MachineAssumption ==
  0 \notin Numbers /\ {MaxWork, MaxMishaps} \subseteq Nat

VARIABLES
  number,   \* the machine's serial number; 0: to be completed
  taken,    \* numbers of other machines of its model
  work,     \* moves of its service requests so far
  away,     \* the application is in the back
  at,       \* the screen in focus
  kept,     \* the mounted screens
  cached,   \* cached[q]: the cached answer of a screen's query
  pending,  \* pending[q]: its request
  shared,   \* shared[q]: was to be asked for anew while its first load was on its way
  serial,   \* the form's request
  told,     \* the phone was told that its number is saved
  news,     \* the latest move a push message was taken about
  passed,   \* history: the form's answer and a read of the page overtook each other
  mishaps   \* counted for its bound

machineVars == <<number, taken, work, away, at, kept, cached, pending, shared, serial,
                 told, news, passed, mishaps>>

Pages == {"home", "machines", "machine"}
Unseen == [known |-> FALSE, failed |-> FALSE, number |-> 0, work |-> 0]
NotPending == [stage |-> "idle", number |-> 0, work |-> 0]
NoSerial == [stage |-> "idle", number |-> 0, work |-> 0]

MachineInit ==
  /\ number = 0 /\ taken = {} /\ work = 0
  /\ away = FALSE /\ at = "home" /\ kept = {"home"}
  /\ cached = [q \in Pages |-> Unseen]
  /\ pending = [[q \in Pages |-> NotPending] EXCEPT !["home"].stage = "sent"]
  /\ shared = [q \in Pages |-> FALSE]
  /\ serial = NoSerial /\ told = FALSE /\ news = 0 /\ passed = FALSE
  /\ mishaps = 0

-----------------------------------------------------------------------------
(***************************************************************************)
(* What happens elsewhere                                                  *)
(***************************************************************************)

\* Staff, a technician or a payment.
WorkMoves ==
  /\ work < MaxWork
  /\ work' = work + 1
  /\ UNCHANGED <<number, taken, away, at, kept, cached, pending, shared, serial, told, news,
                 passed, mishaps>>

OthersRegister(n) ==
  /\ n \notin taken \union {number}
  /\ taken' = taken \union {n}
  /\ UNCHANGED <<number, work, away, at, kept, cached, pending, shared, serial, told, news,
                 passed, mishaps>>

-----------------------------------------------------------------------------
(***************************************************************************)
(* The queries                                                             *)
(***************************************************************************)

\* A request on its way gives way to a new one; a first load is shared.
ReadAnew(queries) ==
  LET shares(q) == ~cached[q].known /\ pending[q].stage # "idle" IN
  /\ pending' = [q \in Pages |-> IF q \in queries /\ ~shares(q)
                              THEN [NotPending EXCEPT !.stage = "sent"] ELSE pending[q]]
  /\ shared' = [q \in Pages |-> IF q \in queries THEN shares(q) ELSE shared[q]]

\* The list and the page carry the number and the requests, the card the requests.
ServeMachine(q) ==
  /\ pending[q].stage = "sent"
  /\ pending' = [pending EXCEPT ![q] = [stage |-> "served", number |-> number, work |-> work]]
  /\ UNCHANGED <<number, taken, work, away, at, kept, cached, shared, serial, told, news,
                 passed, mishaps>>

PageShown(q) ==
  /\ pending[q].stage = "served"
  /\ cached' = [cached EXCEPT ![q] = [known |-> TRUE, failed |-> FALSE,
                                  number |-> pending[q].number, work |-> pending[q].work]]
  /\ pending' = [pending EXCEPT ![q] = NotPending]
  /\ UNCHANGED <<number, taken, work, away, at, kept, shared, serial, told, news,
                 passed, mishaps>>

PageFails(q) ==
  /\ pending[q].stage # "idle" /\ mishaps < MaxMishaps
  /\ mishaps' = mishaps + 1
  /\ cached' = [cached EXCEPT ![q].failed = TRUE]
  /\ pending' = [pending EXCEPT ![q] = NotPending]
  /\ UNCHANGED <<number, taken, work, away, at, kept, shared, serial, told, news,
                 passed>>

-----------------------------------------------------------------------------
(***************************************************************************)
(* The screens                                                             *)
(***************************************************************************)

InUse == ~away

\* The tab of services shows the page that was left open there.
VisitMachines ==
  LET page == IF at = "home" /\ "machine" \in kept THEN "machine" ELSE "machines" IN
  /\ InUse
  /\ at' = page /\ kept' = kept \union {page}
  /\ ReadAnew({page})
  /\ UNCHANGED <<number, taken, work, away, cached, serial, told, news, passed, mishaps>>

OpenMachine ==
  /\ InUse /\ at = "machines" /\ cached["machines"].known /\ ~cached["machines"].failed
  /\ at' = "machine" /\ kept' = kept \union {"machine"}
  /\ ReadAnew({"machine"})
  /\ UNCHANGED <<number, taken, work, away, cached, serial, told, news, passed, mishaps>>

\* A pull on the page, or its error's button.
PullMachine ==
  /\ InUse /\ at = "machine"
  /\ ReadAnew({"machine"})
  /\ UNCHANGED <<number, taken, work, away, at, kept, cached, serial, told, news, passed, mishaps>>

\* The form is gone with its page; its request goes on.
CloseMachine ==
  /\ InUse /\ at = "machine"
  /\ at' = "machines" /\ kept' = (kept \union {"machines"}) \ {"machine"}
  /\ ReadAnew({"machines"})
  /\ UNCHANGED <<number, taken, work, away, cached, serial, told, news, passed, mishaps>>

\* The card is shown as it is; a failed one has a button.
VisitHome ==
  /\ InUse
  /\ IF at = "home"
     THEN cached["home"].failed /\ ReadAnew({"home"}) /\ UNCHANGED at
     ELSE at' = "home" /\ UNCHANGED <<pending, shared>>
  /\ UNCHANGED <<number, taken, work, away, kept, cached, serial, told, news, passed, mishaps>>

MachineToBack ==
  /\ InUse /\ mishaps < MaxMishaps
  /\ away' = TRUE /\ mishaps' = mishaps + 1
  /\ UNCHANGED <<number, taken, work, at, kept, cached, pending, shared, serial, told, news,
                 passed>>

MachineToFront ==
  /\ away
  /\ away' = FALSE
  /\ ReadAnew(kept)
  /\ UNCHANGED <<number, taken, work, at, kept, cached, serial, told, news, passed, mishaps>>

\* A push message about a move of a service request.
MachineMessage ==
  /\ InUse /\ news < work
  /\ \E n \in (news + 1) .. work : news' = n
  /\ ReadAnew(kept)
  /\ UNCHANGED <<number, taken, work, away, at, kept, cached, serial, told, passed, mishaps>>

-----------------------------------------------------------------------------
(***************************************************************************)
(* The serial number                                                       *)
(***************************************************************************)

FormShown == cached["machine"].known /\ ~cached["machine"].failed /\ cached["machine"].number = 0

SubmitSerial(n) ==
  /\ InUse /\ at = "machine" /\ FormShown /\ serial.stage = "idle"
  /\ serial' = [NoSerial EXCEPT !.stage = "sent", !.number = n]
  /\ UNCHANGED <<number, taken, work, away, at, kept, cached, pending, shared, told, news,
                 passed, mishaps>>

\* complete_serial(): refused when the machine has a number, or another has this one.
CompleteSerial ==
  /\ serial.stage = "sent"
  /\ IF number # 0 \/ serial.number \in taken
     THEN serial' = [serial EXCEPT !.stage = "refused"] /\ UNCHANGED number
     ELSE /\ number' = serial.number
          /\ serial' = [serial EXCEPT !.stage = "done", !.work = work]
  /\ UNCHANGED <<taken, work, away, at, kept, cached, pending, shared, told, news,
                 passed, mishaps>>

\* Mutant: only the list learns of the number.
CompletedOnList == UNCHANGED cached /\ ReadAnew(kept \intersect {"machines"})

\* The page takes the machine of the answer, the list is asked for anew.
Completed ==
  /\ cached' = [cached EXCEPT !["machine"] = [known |-> TRUE, failed |-> FALSE,
                                          number |-> serial.number, work |-> serial.work]]
  /\ ReadAnew(kept \intersect {"machines"})

SerialSaved ==
  /\ serial.stage = "done"
  /\ Completed
  /\ serial' = NoSerial
  /\ told' = TRUE
  /\ passed' = (passed \/ pending["machine"].stage # "idle" \/ serial.work < news)
  /\ UNCHANGED <<number, taken, work, away, at, kept, news, mishaps>>

\* The form says so and can be sent again; nothing is read anew.
SerialRefused ==
  /\ serial.stage = "refused"
  /\ serial' = NoSerial
  /\ UNCHANGED <<number, taken, work, away, at, kept, cached, pending, shared, told, news,
                 passed, mishaps>>

SerialLost ==
  /\ serial.stage # "idle" /\ mishaps < MaxMishaps
  /\ mishaps' = mishaps + 1
  /\ serial' = NoSerial
  /\ UNCHANGED <<number, taken, work, away, at, kept, cached, pending, shared, told, news,
                 passed>>

MachineNext ==
  \/ WorkMoves \/ \E n \in Numbers : OthersRegister(n) \/ SubmitSerial(n)
  \/ \E q \in Pages : ServeMachine(q) \/ PageShown(q) \/ PageFails(q)
  \/ VisitMachines \/ OpenMachine \/ PullMachine \/ CloseMachine \/ VisitHome
  \/ MachineToBack \/ MachineToFront \/ MachineMessage
  \/ CompleteSerial \/ SerialSaved \/ SerialRefused \/ SerialLost

-----------------------------------------------------------------------------
(***************************************************************************)
(* Properties                                                              *)
(***************************************************************************)

Settled(q) ==
  q \in kept /\ cached[q].known /\ ~cached[q].failed /\ pending[q].stage = "idle" /\ ~shared[q]

\* The form never comes back for a number the customer was told is saved, and the
\* list has the number too as soon as it is answered; no screen and not the card of
\* the home stays behind a push message; unless a read of the page was on its way
\* when the number's answer came, or that answer was older than a message: the
\* later of the two answers counts, whichever is newer (machines/queries.ts:76).
MachineIsCurrent ==
  /\ told /\ ~passed => ~FormShown
  /\ told /\ Settled("machines") => cached["machines"].number = number
  /\ \A q \in Pages : Settled(q) /\ ~passed => cached[q].work >= news
=============================================================================
