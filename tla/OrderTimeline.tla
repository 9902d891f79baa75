---------------------------- MODULE OrderTimeline ----------------------------
(***************************************************************************)
(* The history of an order as the API writes it and as the phone tells it. *)
(* Staff, webhooks and the worker move the order, each with a clock of its *)
(* own; the phone sorts what it is given by the text of the times, and     *)
(* draws a bar and a label from the state.                                 *)
(***************************************************************************)
EXTENDS Naturals, Sequences, FiniteSets

CONSTANTS
  Second,     \* clock ticks of a second; a multiple of it is a whole one
  MaxStamp,   \* bound: what the clocks say
  MaxEntries  \* bound: moves of the order

ASSUME TimelineAssumption ==
  Second \in Nat \ {0} /\ MaxStamp \in Nat /\ MaxEntries \in Nat

VARIABLE history  \* the states so far, each with its time

State == history[Len(history)].state

TimelineInit ==
  history \in {<<[state |-> "pending_payment", stamp |-> t]>> : t \in 0 .. MaxStamp}

\* TRANSITIONS
Following(state) ==
  CASE state = "pending_payment" -> {"paid", "cancelled", "payment_expired"}
    [] state = "paid" -> {"processing", "refunded"}
    [] state = "processing" -> {"shipped", "refunded"}
    [] state = "shipped" -> {"delivered", "refunded"}
    [] state = "delivered" -> {"refunded"}
    [] OTHER -> {}

\* Mutant: the time is the clock's, whatever was written before.
StampOfClock(now) == now

\* _next_history_time(): after what was written last, though a clock be behind.
Stamp(now) ==
  LET latest == history[Len(history)].stamp
  IN IF latest >= now THEN latest + 1 ELSE now

Move(now) ==
  /\ Len(history) <= MaxEntries
  /\ \E state \in Following(State) :
       history' = Append(history, [state |-> state, stamp |-> Stamp(now)])

TimelineNext == \E now \in 0 .. MaxStamp : Move(now)

-----------------------------------------------------------------------------
(***************************************************************************)
(* What the page shows                                                     *)
(***************************************************************************)

\* compareEntries() compares the times as text: within a second, a whole second
\* ("...00Z") comes after its fractions ("...00.000001Z").
TextBefore(s, t) ==
  \/ s \div Second < t \div Second
  \/ /\ s \div Second = t \div Second
     /\ IF t % Second = 0 THEN s % Second # 0 ELSE s % Second # 0 /\ s < t

\* buildTimeline(): the entries in the order of their times, then of the answer.
Precedes(entries, i, j) ==
  \/ TextBefore(entries[i].stamp, entries[j].stamp)
  \/ entries[i].stamp = entries[j].stamp /\ i < j

Timeline(entries) ==
  [k \in DOMAIN entries |->
     entries[CHOOSE i \in DOMAIN entries :
               Cardinality({j \in DOMAIN entries : Precedes(entries, j, i)}) = k - 1].state]

\* PROGRESS_BY_STATUS: the steps that are filled, if the state is on the way.
Steps == [pending_payment |-> 0, paid |-> 1, processing |-> 2, shipped |-> 3, delivered |-> 4]

\* TERMINAL_EXPLANATIONS
Explained == {"cancelled", "payment_expired", "refunded"}

\* STATUS_META: the filter an order is listed under.
Bucket(state) ==
  IF state \in Explained \union {"delivered"} THEN "done" ELSE "active"

-----------------------------------------------------------------------------
(***************************************************************************)
(* Properties                                                              *)
(***************************************************************************)

\* The timeline tells the moves in the order they were made and ends with the
\* state above it, though the clocks that stamp them disagree, as long as none
\* was made in the same second after one on the whole second (status.ts:93);
\* the bar under it never falls back, a state without a bar is explained, and an
\* order listed as done has no move left but a refund.
TimelineTellsTheMoves ==
  LET steps == [i \in DOMAIN history |-> history[i].state]
      told == \A i, j \in DOMAIN history :
                i < j /\ history[i].stamp % Second = 0 =>
                  history[i].stamp \div Second < history[j].stamp \div Second
  IN /\ told => Timeline(history) = steps
     /\ \A i, j \in DOMAIN history :
          i < j /\ steps[j] \in DOMAIN Steps => Steps[steps[i]] < Steps[steps[j]]
     /\ steps[Len(history)] \in (DOMAIN Steps \union Explained)
     /\ Bucket(State) = "done" => Following(State) \subseteq {"refunded"}
=============================================================================
