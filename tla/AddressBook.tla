---------------------------- MODULE AddressBook -----------------------------
(***************************************************************************)
(* The saved addresses of a customer and the one list of them the phone    *)
(* has cached, which three screens show and change, each in its own way:   *)
(* the checkout appends what it added to the list and replaces the list by *)
(* what it saw when it asked for a removal; the pickup of a service        *)
(* request replaces it by what it saw and what it added; the profile asks  *)
(* the API for a new list.  Screens of other tabs stay mounted.            *)
(*                                                                         *)
(* An address is its id; what it says, and an edit of that, is left out.   *)
(* Which one is the default, and stands in where nothing was chosen, is    *)
(* left open.                                                              *)
(***************************************************************************)
EXTENDS Naturals, Sequences, FiniteSets

CONSTANTS
  MaxRows,       \* bound: addresses ever saved
  MaxAtOnce,     \* bound: changes on their way at the same time
  MaxBookFaults  \* bound: requests without an answer

ASSUME BookAssumption ==
  MaxRows \in Nat \ {0} /\ MaxAtOnce \in Nat /\ MaxBookFaults \in Nat

VARIABLES
  book,        \* the API's rows, in the order of their creation
  rows,        \* rows created so far
  listed,      \* the cached list
  load,        \* the list's request
  edit,        \* edit[s]: the change a part of a screen has asked for
  till,        \* the checkout: open, and the address chosen
  bookFaults,  \* counted for its bound
  mixed        \* history: a list without, or with, what it should not have

bookVars == <<book, rows, listed, load, edit, till, bookFaults, mixed>>

Parts == {"add", "remove", "profile", "pickup"}

NoEdit == [stage |-> "idle", verb |-> "none", id |-> 0, seen |-> <<>>,
           selected |-> FALSE, mine |-> FALSE]
NoLoad == [stage |-> "idle", rows |-> <<>>]
NoTill == [open |-> FALSE, chosen |-> 0]

BookInit ==
  /\ book = <<1>> /\ rows = 1
  /\ listed = [known |-> FALSE, failed |-> FALSE, rows |-> <<>>] /\ load = NoLoad
  /\ edit = [s \in Parts |-> NoEdit]
  /\ till = NoTill
  /\ bookFaults = 0 /\ mixed = FALSE

IdsOf(list) == {list[i] : i \in DOMAIN list}

\* The list filtered: what is kept stays in its order.
Without(list, id) ==
  LET kept == {i \in DOMAIN list : list[i] # id}
      place(i) == Cardinality({j \in kept : j < i}) + 1
  IN [k \in 1 .. Cardinality(kept) |-> list[CHOOSE i \in kept : place(i) = k]]

\* What is asked for and not answered; its answer brings the list up to date.
Unanswered == {edit[s].id : s \in {p \in Parts : edit[p].stage = "done"}}

\* Rows one of two lists has and the other has not.
Apart(list, other) ==
  (IdsOf(list) \ IdsOf(other)) \union (IdsOf(other) \ IdsOf(list))

Shows(list) == listed' = [known |-> TRUE, failed |-> FALSE, rows |-> list]

-----------------------------------------------------------------------------
(***************************************************************************)
(* The list                                                                *)
(***************************************************************************)

\* On mount, on focus, by a retry or after a change: the newest request counts.
BeginLoad ==
  /\ load' = [stage |-> "sent", rows |-> <<>>]
  /\ UNCHANGED <<book, rows, listed, edit, till, bookFaults, mixed>>

ServeLoad ==
  /\ load.stage = "sent"
  /\ load' = [stage |-> "served", rows |-> book]
  /\ UNCHANGED <<book, rows, listed, edit, till, bookFaults, mixed>>

LoadShown ==
  /\ load.stage = "served"
  /\ Shows(load.rows)
  /\ load' = NoLoad
  /\ mixed' = ~(Apart(load.rows, book) \subseteq Unanswered)
  /\ UNCHANGED <<book, rows, edit, till, bookFaults>>

\* The old list stays in the cache; the screens show the error.
BookFails ==
  /\ load.stage # "idle" /\ bookFaults < MaxBookFaults
  /\ bookFaults' = bookFaults + 1
  /\ load' = NoLoad
  /\ listed' = [listed EXCEPT !.failed = TRUE]
  /\ UNCHANGED <<book, rows, edit, till, mixed>>

-----------------------------------------------------------------------------
(***************************************************************************)
(* The checkout                                                            *)
(***************************************************************************)

\* What the checkout shows: a spinner or an error, or the addresses.
Ready == till.open /\ listed.known /\ ~listed.failed

\* The address tapped or added last, as long as it is on the list; else the
\* default or the first, as none was chosen.
Selected == IF till.chosen \in IdsOf(listed.rows) THEN till.chosen ELSE 0

OpenTill ==
  /\ ~till.open
  /\ till' = [NoTill EXCEPT !.open = TRUE]
  /\ UNCHANGED <<book, rows, listed, load, edit, bookFaults, mixed>>

\* Answers still change the list; the selection is gone.
LeaveTill ==
  /\ till.open
  /\ till' = NoTill
  /\ edit' = [edit EXCEPT !["add"].mine = FALSE, !["remove"].mine = FALSE]
  /\ UNCHANGED <<book, rows, listed, load, bookFaults, mixed>>

SelectAddress(id) ==
  /\ Ready /\ id \in IdsOf(listed.rows) /\ ~(edit["remove"].mine /\ edit["remove"].id = id)
  /\ till' = [till EXCEPT !.chosen = id]
  /\ UNCHANGED <<book, rows, listed, load, edit, bookFaults, mixed>>

OnTheirWay(verb) == {p \in Parts : edit[p].stage = "sent" /\ edit[p].verb = verb}

\* A part asks for one change at a time; some go by the list they see.
AskChange(s, verb, id) ==
  /\ edit[s].stage = "idle"
  /\ Cardinality({p \in Parts : edit[p].stage # "idle"}) < MaxAtOnce
  /\ verb = "create" => rows + Cardinality(OnTheirWay("create")) < MaxRows
  /\ edit' = [edit EXCEPT ![s] =
       [stage |-> "sent", verb |-> verb, id |-> id,
        seen |-> IF s \in {"remove", "pickup"} THEN listed.rows ELSE <<>>,
        selected |-> s = "remove" /\ id = Selected, mine |-> TRUE]]
  /\ UNCHANGED <<book, rows, listed, load, till, bookFaults, mixed>>

\* The form is open, and validateAddressForm() accepts what was entered.
SaveAddress == Ready /\ AskChange("add", "create", 0)

RemoveAddress(id) ==
  /\ Ready /\ id \in IdsOf(listed.rows)
  /\ AskChange("remove", "remove", id)

\* setQueryData() on the list of that moment.
AddressSaved ==
  LET new == edit["add"].id IN
  /\ edit["add"].stage = "done"
  /\ Shows(Append(listed.rows, new))
  /\ till' = IF edit["add"].mine THEN [till EXCEPT !.chosen = new] ELSE till
  /\ edit' = [edit EXCEPT !["add"] = NoEdit]
  /\ mixed' = (mixed \/ listed.failed
                   \/ new \in IdsOf(listed.rows) \/ new \notin IdsOf(book))
  /\ UNCHANGED <<book, rows, load, bookFaults>>

\* Mutant: the removed address stays on the list.
RemainingAll == edit["remove"].seen

\* The list of the moment the removal was asked for, without the address.
Remaining == Without(edit["remove"].seen, edit["remove"].id)

\* The default address of the list, or its first.
Preferred(list) == IF list = <<>> THEN {0} ELSE IdsOf(list)

AddressRemoved ==
  /\ edit["remove"].stage = "done"
  /\ Shows(Remaining)
  /\ IF edit["remove"].mine /\ edit["remove"].selected
     THEN \E id \in Preferred(Remaining) : till' = [till EXCEPT !.chosen = id]
     ELSE UNCHANGED till
  /\ edit' = [edit EXCEPT !["remove"] = NoEdit]
  /\ mixed' = (mixed \/ listed.failed \/ edit["remove"].seen # listed.rows)
  /\ UNCHANGED <<book, rows, load, bookFaults>>

-----------------------------------------------------------------------------
(***************************************************************************)
(* The profile                                                             *)
(***************************************************************************)

LeaveProfile ==
  /\ edit["profile"].mine
  /\ edit' = [edit EXCEPT !["profile"].mine = FALSE]
  /\ UNCHANGED <<book, rows, listed, load, till, bookFaults, mixed>>

\* An address is added, or deleted after a confirmation.
ProfileChanges(verb, id) ==
  /\ IF verb = "create" THEN id = 0 ELSE id \in IdsOf(listed.rows)
  /\ AskChange("profile", verb, id)

\* Mutant: the profile shows its change and asks for no new list.
ReloadedNot == UNCHANGED load

\* invalidateQueries()
Reloaded == load' = [stage |-> "sent", rows |-> <<>>]

\* A profile that was left asks for nothing: the other screens keep the old list.
ProfileChanged ==
  /\ edit["profile"].stage = "done"
  /\ IF edit["profile"].mine
     THEN Reloaded /\ UNCHANGED mixed
     ELSE UNCHANGED load /\ mixed' = TRUE
  /\ edit' = [edit EXCEPT !["profile"] = NoEdit]
  /\ UNCHANGED <<book, rows, listed, till, bookFaults>>

-----------------------------------------------------------------------------
(***************************************************************************)
(* The pickup of a service request                                         *)
(***************************************************************************)

LeavePickup ==
  /\ edit["pickup"].mine
  /\ edit' = [edit EXCEPT !["pickup"].mine = FALSE]
  /\ UNCHANGED <<book, rows, listed, load, till, bookFaults, mixed>>

\* Which address the draft then takes is the draft's (ServiceIntake).
PickupSaves == AskChange("pickup", "create", 0)

PickupSaved ==
  LET new == edit["pickup"].id IN
  /\ edit["pickup"].stage = "done"
  /\ IF edit["pickup"].mine
     THEN /\ Shows(Append(edit["pickup"].seen, new))
          /\ mixed' = (mixed \/ listed.failed \/ ~listed.known \/ new \notin IdsOf(book)
                           \/ edit["pickup"].seen # listed.rows)
     ELSE UNCHANGED listed /\ mixed' = TRUE
  /\ edit' = [edit EXCEPT !["pickup"] = NoEdit]
  /\ UNCHANGED <<book, rows, load, till, bookFaults>>

-----------------------------------------------------------------------------
(***************************************************************************)
(* The API                                                                 *)
(***************************************************************************)

Served(s, id) == edit' = [edit EXCEPT ![s].stage = "done", ![s].id = id]

ServeCreate(s) ==
  /\ edit[s].stage = "sent" /\ edit[s].verb = "create"
  /\ rows' = rows + 1
  /\ book' = Append(book, rows')
  /\ Served(s, rows')
  /\ UNCHANGED <<listed, load, till, bookFaults, mixed>>

ServeRemove(s) ==
  /\ edit[s].stage = "sent" /\ edit[s].verb = "remove" /\ edit[s].id \in IdsOf(book)
  /\ book' = Without(book, edit[s].id)
  /\ Served(s, edit[s].id)
  /\ UNCHANGED <<rows, listed, load, till, bookFaults, mixed>>

\* Refused because the address is gone, or not answered, before or after the
\* change was made: the screen says that it failed.
EditFails(s) ==
  /\ \/ /\ edit[s].stage = "sent" /\ edit[s].verb # "create" /\ edit[s].id \notin IdsOf(book)
        /\ UNCHANGED <<bookFaults, mixed>>
     \/ /\ edit[s].stage \in {"sent", "done"} /\ bookFaults < MaxBookFaults
        /\ bookFaults' = bookFaults + 1
        /\ mixed' = (mixed \/ edit[s].stage = "done")
  /\ edit' = [edit EXCEPT ![s] = NoEdit]
  /\ UNCHANGED <<book, rows, listed, load, till>>

BookNext ==
  \/ BeginLoad \/ ServeLoad \/ LoadShown \/ BookFails
  \/ OpenTill \/ LeaveTill \/ SaveAddress \/ AddressSaved \/ AddressRemoved
  \/ \E id \in 1 .. MaxRows : SelectAddress(id) \/ RemoveAddress(id)
  \/ LeaveProfile \/ ProfileChanged \/ LeavePickup \/ PickupSaves \/ PickupSaved
  \/ \E verb \in {"create", "remove"}, id \in 0 .. MaxRows :
       ProfileChanges(verb, id)
  \/ \E s \in Parts : ServeCreate(s) \/ ServeRemove(s) \/ EditFails(s)

BookSpec == BookInit /\ [][BookNext]_bookVars

-----------------------------------------------------------------------------
(***************************************************************************)
(* Properties                                                              *)
(***************************************************************************)

\* Between changes the cached list has the saved addresses, each once, and the
\* checkout sends the order to the address the customer tapped or added last as
\* long as it is saved; unless a list or a removal overtook a change, a change was
\* written into another list than the one on the screen, or an answer was lost
\* or came to a screen that had been left (checkout.tsx:221, PickupAddress.tsx:73,
\* addresses.tsx:44).
AddressesAgree ==
  ~mixed /\ listed.known /\ ~listed.failed /\ load.stage = "idle" =>
    /\ Apart(listed.rows, book) \subseteq Unanswered
    /\ Cardinality(IdsOf(listed.rows)) = Len(listed.rows)
    /\ till.chosen \in IdsOf(book) \ Unanswered => Selected = till.chosen
=============================================================================
