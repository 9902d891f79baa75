---------------------------- MODULE PhoneAccount ----------------------------
(***************************************************************************)
(* The customer's account on the phone: signing in with a code, the        *)
(* session, the saved addresses and the notifications.  They share no      *)
(* state but the session that every request carries (PhoneSession), so     *)
(* that a behaviour here is about one of them.                             *)
(***************************************************************************)
EXTENDS PhoneSession, CodeSignIn, AddressBook, Inbox, TLC

VARIABLE topic  \* the part of the account this behaviour is about

accountVars == <<topic, vars, codeVars, bookVars, inboxVars>>

AccountInit ==
  /\ topic \in {"session", "code", "addresses", "inbox"}
  /\ Init /\ CodeInit /\ BookInit /\ InboxInit
  /\ topic # "inbox" => inbox = <<>>

AccountNext ==
  /\ UNCHANGED topic
  /\ \/ topic = "session" /\ Next /\ UNCHANGED <<codeVars, bookVars, inboxVars>>
     \/ topic = "code" /\ CodeNext /\ UNCHANGED <<vars, bookVars, inboxVars>>
     \/ topic = "addresses" /\ BookNext /\ UNCHANGED <<vars, codeVars, inboxVars>>
     \/ topic = "inbox" /\ InboxNext /\ UNCHANGED <<vars, codeVars, bookVars>>

AccountSpec == AccountInit /\ [][AccountNext]_accountVars

\* Customers and requests are interchangeable.
Symmetry == Permutations(Users) \union Permutations(Calls)
=============================================================================
