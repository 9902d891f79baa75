-------------------------------- MODULE Inbox --------------------------------
(***************************************************************************)
(* The customer's notifications on the phone: a list that is loaded page   *)
(* by page with offsets, each page with a request of its own, while new    *)
(* notifications come in; opening one, which marks it as read; and marking *)
(* all as read, which walks the whole inbox with requests of its own.      *)
(*                                                                         *)
(* The API lists the newest first by the time their transaction began, so  *)
(* that one that is committed late comes in below others.                  *)
(***************************************************************************)
EXTENDS Naturals, Sequences, SequencesExt

CONSTANTS
  PageSize,       \* notifications on a page; a shorter page is the last
  MaxNotices,     \* bound: notifications ever
  MaxLate,        \* bound: how far below the newest one may come in
  MaxInboxFaults  \* bound: requests without an answer

ASSUME InboxAssumption ==
  PageSize \in Nat \ {0} /\ {MaxNotices, MaxLate, MaxInboxFaults} \subseteq Nat

VARIABLES
  inbox,        \* the API's notifications in the order it lists them
  seen,         \* those it has marked as read
  pages,        \* the cached pages, each a list of rows
  whole,        \* history: what was in the inbox when the first page was read
  loading,      \* the list's request, and the pages it has so far
  walk,         \* the command under way: marking all, or opening one
  before,       \* history: what was in the inbox when the walk began
  screen,       \* the inbox is the screen that is mounted
  inboxFaults   \* counted for its bound

inboxVars == <<inbox, seen, pages, whole, loading, walk, before, screen, inboxFaults>>

NotLoading == [stage |-> "idle", more |-> FALSE, pages |-> <<>>, whole |-> {}]
NoWalk == [stage |-> "idle", offset |-> 0, page |-> <<>>, live |-> FALSE]

InboxInit ==
  /\ inbox \in {[i \in 1 .. n |-> n + 1 - i] : n \in 0 .. MaxNotices - 1}
  /\ seen = {} /\ pages = <<>> /\ whole = {} /\ loading = NotLoading
  /\ walk = NoWalk /\ before = {}
  /\ screen = FALSE /\ inboxFaults = 0

\* A page of a list of notifications, as the API answers with it now.
PageOf(list, offset) ==
  LET last == IF Len(list) < offset + PageSize THEN Len(list) ELSE offset + PageSize
  IN [i \in 1 .. (IF offset < last THEN last - offset ELSE 0) |->
        [id |-> list[offset + i], read |-> list[offset + i] \in seen]]

\* Mutant: the unread come first, as an inbox might list them.
ListedUnreadFirst(offset) ==
  PageOf(SelectSeq(inbox, LAMBDA id : id \notin seen)
           \o SelectSeq(inbox, LAMBDA id : id \in seen), offset)

\* list_for_recipient(): the order does not depend on what is read.
Listed(offset) == PageOf(inbox, offset)

\* A notification comes in, at the top or, committed late, below others.
Arrive ==
  /\ Len(inbox) < MaxNotices
  /\ \E at \in 1 .. MaxLate + 1 :
       at <= Len(inbox) + 1 /\ inbox' = InsertAt(inbox, at, Len(inbox) + 1)
  /\ UNCHANGED <<seen, pages, whole, loading, walk, before, screen, inboxFaults>>

-----------------------------------------------------------------------------
(***************************************************************************)
(* The list                                                                *)
(***************************************************************************)

\* Opening the screen, focus, a pull, a message and the end of a command load
\* the pages again from the first; a load under way is dropped, unless it is the
\* first of all.
Reloading ==
  IF pages = <<>> /\ loading.stage # "idle" THEN loading
  ELSE [NotLoading EXCEPT !.stage = "asked"]

Visit ==
  /\ ~screen
  /\ screen' = TRUE /\ loading' = Reloading
  /\ UNCHANGED <<inbox, seen, pages, whole, walk, before, inboxFaults>>

Refresh ==
  /\ screen
  /\ loading' = Reloading
  /\ UNCHANGED <<inbox, seen, pages, whole, walk, before, screen, inboxFaults>>

\* A load under way goes on, and so does the request a command is waiting for.
Leave ==
  /\ screen
  /\ screen' = FALSE
  /\ walk' = [walk EXCEPT !.live = FALSE]
  /\ UNCHANGED <<inbox, seen, pages, whole, loading, before, inboxFaults>>

\* getNextPageParam: there is a next page when the last one is full.
HasNext(list) == list # <<>> /\ Len(list[Len(list)]) = PageSize

\* fetchNextPage(): takes the place of a load under way.
LoadMore ==
  /\ screen /\ HasNext(pages) /\ ~loading.more
  /\ loading' = [stage |-> "asked", more |-> TRUE, pages |-> pages, whole |-> whole]
  /\ UNCHANGED <<inbox, seen, pages, whole, walk, before, screen, inboxFaults>>

\* The next page starts after as many rows as the pages so far have.
NextOffset == Len(loading.pages) * PageSize

\* A page is read: the first one, the next, or one of those loaded again.
ServePage ==
  /\ loading.stage = "asked"
  /\ LET first == loading.pages = <<>>
         next == Append(loading.pages, Listed(NextOffset))
         done == loading.more \/ Len(next) >= Len(pages) \/ ~HasNext(next)
     IN loading' = [loading EXCEPT !.pages = next,
                                   !.stage = IF done THEN "served" ELSE "asked",
                                   !.whole = IF first THEN ToSet(inbox) ELSE @]
  /\ UNCHANGED <<inbox, seen, pages, whole, walk, before, screen, inboxFaults>>

PagesShown ==
  /\ loading.stage = "served"
  /\ pages' = loading.pages /\ whole' = loading.whole
  /\ loading' = NotLoading
  /\ UNCHANGED <<inbox, seen, walk, before, screen, inboxFaults>>

InboxFault == inboxFaults < MaxInboxFaults /\ inboxFaults' = inboxFaults + 1

\* The pages so far stay.
LoadFails ==
  /\ InboxFault /\ loading.stage # "idle"
  /\ loading' = NotLoading
  /\ UNCHANGED <<inbox, seen, pages, whole, walk, before, screen>>

\* Where the pages have rows: <<page, row>>, in the order they are drawn.
Spots == UNION {{p} \X DOMAIN pages[p] : p \in DOMAIN pages}
RowAt(s) == pages[s[1]][s[2]]
Above(s, t) == s[1] < t[1] \/ (s[1] = t[1] /\ s[2] < t[2])
SpotsOf(id) == {s \in Spots : RowAt(s).id = id}
Firsts(id) == {s \in SpotsOf(id) : \A t \in SpotsOf(id) : ~Above(t, s)}
Latest(id) == {s \in SpotsOf(id) : \A t \in SpotsOf(id) : ~Above(s, t)}

\* One row for each notification: the place of the first, the state of the last.
Shown ==
  {[id |-> RowAt(s).id, place |-> s, read |-> \E t \in Latest(RowAt(s).id) : RowAt(t).read] :
     s \in {t \in Spots : t \in Firsts(RowAt(t).id)}}

-----------------------------------------------------------------------------
(***************************************************************************)
(* The commands                                                            *)
(***************************************************************************)

\* perform(): one at a time; all are marked when a shown one is unread.
MarkAll ==
  /\ screen /\ walk = NoWalk
  /\ \E row \in Shown : ~row.read
  /\ walk' = [stage |-> "list", offset |-> 0, page |-> <<>>, live |-> TRUE]
  /\ before' = ToSet(inbox)
  /\ UNCHANGED <<inbox, seen, pages, whole, loading, screen, inboxFaults>>

ServeWalk ==
  /\ walk.stage = "list"
  /\ walk' = [walk EXCEPT !.stage = "page", !.page = Listed(walk.offset)]
  /\ UNCHANGED <<inbox, seen, pages, whole, loading, before, screen, inboxFaults>>

Unread(page) == {i \in DOMAIN page : ~page[i].read}
First(places) == CHOOSE i \in places : \A j \in places : i <= j

\* The rows of a page are marked one by one, as long as the screen is mounted;
\* a request and its effect are one step.
ServeMark ==
  /\ walk.stage = "page" /\ walk.live /\ Unread(walk.page) # {}
  /\ LET next == First(Unread(walk.page)) IN
       /\ seen' = seen \union {walk.page[next].id}
       /\ walk' = [walk EXCEPT !.page[next].read = TRUE]
  /\ UNCHANGED <<inbox, pages, whole, loading, before, screen, inboxFaults>>

WalkOn ==
  /\ walk.stage = "page" /\ Unread(walk.page) = {} /\ Len(walk.page) = PageSize
  /\ walk' = [walk EXCEPT !.stage = "list", !.offset = @ + PageSize, !.page = <<>>]
  /\ UNCHANGED <<inbox, seen, pages, whole, loading, before, screen, inboxFaults>>

\* A short page ends the walk.
Walked == walk.stage = "page" /\ Unread(walk.page) = {} /\ Len(walk.page) < PageSize

\* The list is loaded again, as long as the screen is mounted.
Unlocked ==
  /\ walk' = NoWalk /\ before' = {}
  /\ loading' = IF walk.live THEN Reloading ELSE loading
  /\ UNCHANGED <<inbox, pages, whole, screen>>

WalkEnds ==
  /\ \/ Walked
     \/ walk.stage = "page" /\ ~walk.live
  /\ Unlocked
  /\ UNCHANGED <<seen, inboxFaults>>

\* notificationDestination(): marked as read, then looked up and opened.
Open(id) ==
  /\ screen /\ walk = NoWalk
  /\ \E row \in Shown : row.id = id
  /\ walk' = [stage |-> "open", offset |-> id, page |-> <<>>, live |-> TRUE]
  /\ UNCHANGED <<inbox, seen, pages, whole, loading, before, screen, inboxFaults>>

ServeOpen ==
  /\ walk.stage = "open"
  /\ seen' = seen \union {walk.offset}
  /\ Unlocked
  /\ UNCHANGED inboxFaults

\* A request of a command has no answer, or its answer is lost.
CommandFails ==
  /\ InboxFault /\ walk.stage # "idle"
  /\ seen' = IF walk.stage = "open" THEN seen \union {walk.offset} ELSE seen
  /\ Unlocked

InboxNext ==
  \/ Arrive \/ Visit \/ Refresh \/ Leave \/ LoadMore
  \/ ServePage \/ PagesShown \/ LoadFails
  \/ MarkAll \/ ServeWalk \/ ServeMark \/ WalkOn \/ WalkEnds
  \/ \E id \in 1 .. MaxNotices : Open(id)
  \/ ServeOpen \/ CommandFails

InboxSpec == InboxInit /\ [][InboxNext]_inboxVars

-----------------------------------------------------------------------------
(***************************************************************************)
(* Properties                                                              *)
(***************************************************************************)

PlaceIn(list, id) == CHOOSE i \in DOMAIN list : list[i] = id

\* The list has no gap: of what was in the inbox when its first page was read,
\* everything above a shown notification is shown, above it, whatever came in
\* between its pages; and what it shows as read is read.
ListHasNoGap ==
  /\ \A row \in Shown, id \in whole :
       PlaceIn(inbox, id) < PlaceIn(inbox, row.id) =>
         \E other \in Shown : other.id = id /\ Above(other.place, row.place)
  /\ \A row \in Shown : row.read => row.id \in seen

\* A walk that comes to its end has marked everything that was in the inbox when
\* it was asked for, whatever came in meanwhile (notifications.tsx:47: "read
\* mutations do not change its stable ordering").
WalkReadsAll == Walked => before \subseteq seen

\* Neither the list nor the walk ever skips a notification.
NothingIsSkipped == ListHasNoGap /\ WalkReadsAll
=============================================================================
