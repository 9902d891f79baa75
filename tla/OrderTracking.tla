---------------------------- MODULE OrderTracking ----------------------------
(***************************************************************************)
(* Following an order on the phone: the list of orders and the page of     *)
(* one, each with a cached answer of its own that is asked for anew when   *)
(* its screen is opened or comes back into focus, when a push message      *)
(* arrives and when the application returns to the front; and the taps on  *)
(* notifications, which are looked up before they open the page.           *)
(*                                                                         *)
(* The order is one; an answer is the number of its moves it has seen      *)
(* (OrderTimeline).                                                        *)
(* Push messages come late, more than once, in any order or not at all     *)
(* (PushDelivery); one stands for the notification of one move.            *)
(***************************************************************************)
EXTENDS Naturals, Sequences, FiniteSets

CONSTANTS
  MaxMoves,        \* bound: moves of the order
  MaxReplacements, \* bound: ends of the process and returns to the front
  MaxTrackFaults   \* bound: requests without an answer

ASSUME TrackingAssumption ==
  {MaxMoves, MaxReplacements, MaxTrackFaults} \subseteq Nat

VARIABLES
  moves,                \* moves of the order so far
  mode,                 \* the application: "front", "back" or "closed"
  focus,                \* the screen in focus, or "elsewhere"
  mounted,              \* the screens of orders that are mounted
  answer,               \* answer[q]: the cached answer of a screen's query
  asking,               \* asking[q]: its request
  joined,               \* joined[q]: was to be asked for anew while its first load was on its way
  received,             \* messages this push session has taken
  heard,                \* the latest message taken by any
  look,                 \* the tapped notification that is looked up
  owed,                 \* notifications a tap has marked as read and not led to yet
  returns, orderFaults  \* counted for their bounds

orderVars == <<moves, mode, focus, mounted, answer, asking, joined, received,
               heard, look, owed, returns, orderFaults>>

Queries == {"list", "detail"}
NoAnswer == [known |-> FALSE, failed |-> FALSE, seen |-> 0]
NotAsking == [stage |-> "idle", seen |-> 0]
NoLook == [stage |-> "idle", n |-> 0, live |-> FALSE]
Notices == 1 .. MaxMoves

TrackingInit ==
  /\ moves = 0 /\ mode = "front" /\ focus = "elsewhere" /\ mounted = {}
  /\ answer = [q \in Queries |-> NoAnswer] /\ asking = [q \in Queries |-> NotAsking]
  /\ joined = [q \in Queries |-> FALSE]
  /\ received = {} /\ heard = 0 /\ look = NoLook /\ owed = {}
  /\ returns = 0 /\ orderFaults = 0

\* Staff, a webhook or the worker.
OrderMoves ==
  /\ moves < MaxMoves
  /\ moves' = moves + 1
  /\ UNCHANGED <<mode, focus, mounted, answer, asking, joined, received, heard,
                 look, owed, returns, orderFaults>>

-----------------------------------------------------------------------------
(***************************************************************************)
(* The two queries                                                         *)
(***************************************************************************)

\* A request on its way gives way to a new one, unless it is the first load:
\* who asks then shares its answer.
Joins(q) == ~answer[q].known /\ asking[q].stage # "idle"

AskAnew(queries) ==
  /\ asking' = [q \in Queries |-> IF q \in queries /\ ~Joins(q)
                                  THEN [stage |-> "sent", seen |-> 0] ELSE asking[q]]
  /\ joined' = [q \in Queries |-> IF q \in queries THEN Joins(q) ELSE joined[q]]

ServeOrders(q) ==
  /\ asking[q].stage = "sent"
  /\ asking' = [asking EXCEPT ![q] = [stage |-> "served", seen |-> moves]]
  /\ UNCHANGED <<moves, mode, focus, mounted, answer, joined, received, heard,
                 look, owed, returns, orderFaults>>

OrdersShown(q) ==
  /\ asking[q].stage = "served"
  /\ answer' = [answer EXCEPT ![q] = [known |-> TRUE, failed |-> FALSE, seen |-> asking[q].seen]]
  /\ asking' = [asking EXCEPT ![q] = NotAsking]
  /\ UNCHANGED <<moves, mode, focus, mounted, joined, received, heard,
                 look, owed, returns, orderFaults>>

OrdersFail(q) ==
  /\ asking[q].stage # "idle" /\ orderFaults < MaxTrackFaults
  /\ orderFaults' = orderFaults + 1
  /\ answer' = [answer EXCEPT ![q].failed = TRUE]
  /\ asking' = [asking EXCEPT ![q] = NotAsking]
  /\ UNCHANGED <<moves, mode, focus, mounted, joined, received, heard,
                 look, owed, returns>>

-----------------------------------------------------------------------------
(***************************************************************************)
(* The screens                                                             *)
(***************************************************************************)

\* Opened, or back in focus: a screen asks anew; so does a pull on it.
Focus(screen) ==
  /\ focus' = screen
  /\ mounted' = mounted \union {screen}
  /\ AskAnew({screen})

Running == mode = "front"

VisitOrders ==
  /\ Running
  /\ Focus(IF focus # "detail" /\ "detail" \in mounted THEN "detail" ELSE "list")
  /\ UNCHANGED <<moves, mode, answer, received, heard, look, owed, returns, orderFaults>>

\* A card of the list.
OpenOrder ==
  /\ Running /\ focus = "list" /\ answer["list"].known /\ ~answer["list"].failed
  /\ Focus("detail")
  /\ UNCHANGED <<moves, mode, answer, received, heard, look, owed, returns, orderFaults>>

\* The page is popped; its request goes on.
CloseOrder ==
  /\ Running /\ focus = "detail"
  /\ focus' = "list" /\ mounted' = {"list"}
  /\ AskAnew({"list"})
  /\ UNCHANGED <<moves, mode, answer, received, heard, look, owed, returns, orderFaults>>

\* Another tab: what is mounted stays.
LeaveOrders ==
  /\ Running /\ focus # "elsewhere"
  /\ focus' = "elsewhere"
  /\ UNCHANGED <<moves, mode, mounted, answer, asking, joined, received, heard,
                 look, owed, returns, orderFaults>>

-----------------------------------------------------------------------------
(***************************************************************************)
(* Push messages and the application's life                                *)
(***************************************************************************)

\* Mutant: a message brings the page up to date and forgets the list.
HintForPage(n) ==
  /\ received' = received \union {n}
  /\ heard' = IF n > heard THEN n ELSE heard
  /\ IF n \in received THEN UNCHANGED <<asking, joined>> ELSE AskAnew(mounted \ {"list"})

\* message(): once per notification and session, every mounted query of the
\* customer is asked anew; nothing of the message itself is shown.
Hint(n) ==
  /\ received' = received \union {n}
  /\ heard' = IF n > heard THEN n ELSE heard
  /\ IF n \in received THEN UNCHANGED <<asking, joined>> ELSE AskAnew(mounted)

Message(n) ==
  /\ Running /\ n <= moves
  /\ Hint(n)
  /\ UNCHANGED <<moves, mode, focus, mounted, answer, look, owed, returns, orderFaults>>

ToBack ==
  /\ Running /\ returns < MaxReplacements
  /\ returns' = returns + 1
  /\ mode' = "back"
  /\ UNCHANGED <<moves, focus, mounted, answer, asking, joined, received, heard,
                 look, owed, orderFaults>>

\* The change to 'active': every mounted query is asked anew, and the push
\* session is replaced by one that has taken no message; the lookups of the one
\* before lead nowhere.
Resume ==
  /\ mode = "back"
  /\ mode' = "front"
  /\ AskAnew(mounted)
  /\ received' = {}
  /\ look' = [look EXCEPT !.live = FALSE]
  /\ UNCHANGED <<moves, focus, mounted, answer, heard, owed, returns, orderFaults>>

\* A tap on the notification brings the application to the front: the push
\* session hears of the tap first, or (Resume alone) is replaced by then.
TapBehind(n) ==
  /\ mode = "back" /\ look = NoLook /\ n <= moves
  /\ Hint(n)
  /\ look' = [stage |-> "reading", n |-> n, live |-> TRUE]
  /\ UNCHANGED <<moves, mode, focus, mounted, answer, owed, returns, orderFaults>>

CloseApp ==
  /\ mode # "closed" /\ returns < MaxReplacements
  /\ returns' = returns + 1
  /\ mode' = "closed" /\ focus' = "elsewhere" /\ mounted' = {}
  /\ answer' = [q \in Queries |-> NoAnswer] /\ asking' = [q \in Queries |-> NotAsking]
  /\ joined' = [q \in Queries |-> FALSE]
  /\ received' = {} /\ look' = NoLook /\ owed' = {}
  /\ UNCHANGED <<moves, heard, orderFaults>>

\* Started by its icon, or by a tap the first push session finds (initial()).
StartApp ==
  /\ mode = "closed"
  /\ mode' = "front"
  /\ \/ UNCHANGED <<received, heard, look>>
     \/ \E n \in 1 .. moves :
          /\ received' = {n} /\ heard' = IF n > heard THEN n ELSE heard
          /\ look' = [stage |-> "reading", n |-> n, live |-> TRUE]
  /\ UNCHANGED <<moves, focus, mounted, answer, asking, joined, owed, returns, orderFaults>>

-----------------------------------------------------------------------------
(***************************************************************************)
(* The lookup of a tapped notification                                     *)
(***************************************************************************)

\* The API marks it as read and names what it is about.
LookRead ==
  /\ look.stage = "reading"
  /\ owed' = owed \union {look.n}
  /\ look' = [look EXCEPT !.stage = "loading"]
  /\ UNCHANGED <<moves, mode, focus, mounted, answer, asking, joined, received, heard,
                 returns, orderFaults>>

\* Its order is the customer's: the page opens, if the push session is the same.
LookLeads ==
  /\ look.stage = "loading"
  /\ look' = NoLook
  /\ owed' = owed \ {look.n}
  /\ IF look.live THEN Focus("detail") ELSE UNCHANGED <<focus, mounted, asking, joined>>
  /\ UNCHANGED <<moves, mode, answer, received, heard, returns, orderFaults>>

LookLost ==
  /\ look.stage # "idle" /\ orderFaults < MaxTrackFaults
  /\ orderFaults' = orderFaults + 1
  /\ look' = NoLook
  /\ UNCHANGED <<moves, mode, mounted, answer, asking, joined, received, heard, returns>>

\* Mutant: a lookup that fails leads nowhere.
LookFailsSilently == LookLost /\ UNCHANGED <<focus, owed>>

\* Without an answer the inbox opens.
LookFails ==
  /\ LookLost
  /\ owed' = owed \ {look.n}
  /\ focus' = IF look.live THEN "elsewhere" ELSE focus

TrackingNext ==
  \/ OrderMoves
  \/ \E q \in Queries : ServeOrders(q) \/ OrdersShown(q) \/ OrdersFail(q)
  \/ VisitOrders \/ OpenOrder \/ CloseOrder \/ LeaveOrders
  \/ \E n \in Notices : Message(n) \/ TapBehind(n)
  \/ ToBack \/ Resume \/ CloseApp \/ StartApp
  \/ LookRead \/ LookLeads \/ LookFails

-----------------------------------------------------------------------------
(***************************************************************************)
(* Properties                                                              *)
(***************************************************************************)

\* No mounted screen stays behind a message that was taken: what it shows when
\* its request has been answered has the move the message was about; unless the
\* message only joined the first load, whose answer may be older.
ScreensCatchUp ==
  \A q \in mounted :
    asking[q].stage = "idle" /\ ~answer[q].failed /\ ~joined[q] => answer[q].seen >= heard

\* A notification that a tap has marked as read has opened its page or the
\* inbox, or is being looked up; unless the push session that looked it up was
\* replaced by the return to the front the tap itself caused, or the
\* application was closed (PushProvider.tsx:44).
TapsLead == owed \subseteq {look.n}

\* Following an order never misleads.
TrackingIsCurrent == ScreensCatchUp /\ TapsLead
=============================================================================
