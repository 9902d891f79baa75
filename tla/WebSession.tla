----------------------------- MODULE WebSession -----------------------------
(***************************************************************************)
(* The staff session of the dashboard, open in several tabs of one         *)
(* browser.  The tabs share the refresh cookie and keep everything else in *)
(* memory.  Commands on the cookie (refresh, sign-in, sign-out) take the   *)
(* browser's lock in turn; requests of a tab share one refresh.  A tab     *)
(* learns that another signed out, or in as someone else, only from the    *)
(* answers it gets.                                                        *)
(*                                                                         *)
(* Between two answers of the network a tab runs to completion: a refresh  *)
(* and the requests that waited for it continue in one step.               *)
(***************************************************************************)
EXTENDS SessionFamilies, FiniteSets, Sequences, SequencesExt

CONSTANTS
  Tabs,      \* tabs of the browser
  Calls,     \* requests that may be under way at the same time
  TabOf,     \* TabOf[c]: the tab that makes request c
  KindOf,    \* KindOf[c]: "request", or "upload" of a file
  MaxAged,   \* bound: access tokens that age
  MaxFaults  \* bound: reloads and lost answers

ASSUME WebAssumption ==
  /\ IsFiniteSet(Tabs) /\ TabOf \in [Calls -> Tabs]
  /\ KindOf \in [Calls -> {"request", "upload"}]
  /\ MaxAged \in Nat /\ MaxFaults \in Nat

VARIABLES
  family, aged,  \* the API's sessions
  cookie,        \* the refresh cookie of the browser
  queue,         \* tabs that hold or await the lock 'coffix-web-session'
  tab,           \* tab[t]: the snapshot, signingOut, and whose data is cached
  call,          \* call[c]: where request c is
  command,       \* command[t]: the cookie command of tab t
  faults,        \* counted for its bound
  lost,          \* history: a cookie command ended without its answer
  reused,        \* history: the API revoked a session for reuse
  misrun         \* history: kinds of request the API ran for another user

server == <<family, aged>>
history == <<lost, reused, misrun>>
vars == <<server, cookie, queue, tab, call, command, faults, history>>

NoCall == [stage |-> "idle", author |-> Nobody, changed |-> FALSE,
           token |-> NoToken, again |-> FALSE]
NoCommand == [kind |-> "none", stage |-> "idle", user |-> Nobody, token |-> NoToken]
Failed == <<1, 0>>  \* no answer, in the place of a token
FreshTab == [session |-> NoToken, ready |-> FALSE, signingOut |-> FALSE, cached |-> Nobody]

Shown(t) == UserOf(family, tab[t].session)
SignedIn(t) == tab[t].session # NoToken

Init ==
  /\ family = NoFamilies /\ aged = NoneAged
  /\ cookie = NoToken /\ queue = <<>>
  /\ tab = [t \in Tabs |-> FreshTab]
  /\ call = [c \in Calls |-> NoCall] /\ command = [t \in Tabs |-> NoCommand]
  /\ faults = 0 /\ lost = FALSE /\ reused = FALSE /\ misrun = {}

Fault == faults < MaxFaults /\ faults' = faults + 1

Age ==
  /\ FoldFunction(+, 0, aged) < MaxAged
  /\ \E s \in Sessions : aged[s] < family[s].gen /\ aged' = [aged EXCEPT ![s] = @ + 1]
  /\ UNCHANGED <<family, cookie, queue, tab, call, command, faults, history>>

-----------------------------------------------------------------------------
(***************************************************************************)
(* The snapshot                                                            *)
(***************************************************************************)

\* Mutant: the cache survives a change of user.
PublishedKeepingCache(t, s) == [tab[t] EXCEPT !.session = s, !.ready = TRUE]

\* publish(): another user's cache is dropped.
Published(t, s) ==
  [tab[t] EXCEPT !.session = s, !.ready = TRUE,
                 !.cached = IF UserOf(family, s) = Shown(t) THEN @ ELSE Nobody]

\* sessionVersion moves with the user: requests under way are of another
\* session from now on.
Noted(t, s, c) ==
  [call[c] EXCEPT !.changed =
    @ \/ (call[c].stage # "idle" /\ TabOf[c] = t /\ UserOf(family, s) # Shown(t))]

Publish(t, s) ==
  /\ tab' = [tab EXCEPT ![t] = Published(t, s)]
  /\ call' = [c \in Calls |-> Noted(t, s, c)]

-----------------------------------------------------------------------------
(***************************************************************************)
(* Requests                                                                *)
(***************************************************************************)

Request(c) ==
  /\ SignedIn(TabOf[c]) /\ call[c] = NoCall
  /\ call' = [call EXCEPT ![c] =
       [stage |-> "sent", author |-> Shown(TabOf[c]), changed |-> FALSE,
        token |-> tab[TabOf[c]].session, again |-> FALSE]]
  /\ UNCHANGED <<server, cookie, queue, tab, command, faults, history>>

Accepted(c) == call[c].stage = "sent" /\ Authenticates(family, aged, call[c].token)
Unauthorized(c) == call[c].stage = "sent" /\ ~Authenticates(family, aged, call[c].token)

\* The API runs the request for the token's user.
Serve(c) ==
  /\ Accepted(c)
  /\ call' = [call EXCEPT ![c].stage = "done"]
  /\ misrun' = IF UserOf(family, call[c].token) = call[c].author
               THEN misrun ELSE misrun \union {KindOf[c]}
  /\ UNCHANGED <<server, cookie, queue, tab, command, faults, lost, reused>>

\* fetch() fails: so does the request.
Disconnect(c) ==
  /\ call[c].stage \in {"sent", "done"}
  /\ call' = [call EXCEPT ![c] = NoCall]
  /\ UNCHANGED <<server, cookie, queue, tab, command, faults, history>>

\* requireSameSession(): an answer for another session is discarded.
Receive(c) ==
  /\ call[c].stage = "done"
  /\ tab' = [tab EXCEPT ![TabOf[c]].cached =
       IF KindOf[c] = "request" /\ ~call[c].changed
       THEN UserOf(family, call[c].token) ELSE @]
  /\ call' = [call EXCEPT ![c] = NoCall]
  /\ UNCHANGED <<server, cookie, queue, command, faults, history>>

\* A 401 nothing can be done about ends a request's session in this tab.
GiveUp(c) ==
  /\ Unauthorized(c)
  /\ call[c].again \/ call[c].changed \/ tab[TabOf[c]].signingOut
  /\ IF KindOf[c] = "request" /\ ~call[c].changed
     THEN LET t == TabOf[c] IN
          /\ tab' = [tab EXCEPT ![t] = Published(t, NoToken)]
          /\ call' = [[d \in Calls |-> Noted(t, NoToken, d)] EXCEPT ![c] = NoCall]
     ELSE UNCHANGED tab /\ call' = [call EXCEPT ![c] = NoCall]
  /\ UNCHANGED <<server, cookie, queue, command, faults, history>>

Retriable(c) ==
  /\ Unauthorized(c) /\ ~call[c].again /\ ~call[c].changed
  /\ ~tab[TabOf[c]].signingOut

Resent(c, token) == [call[c] EXCEPT !.stage = "sent", !.token = token, !.again = TRUE]

\* A parallel request has refreshed the token already.
ResendAtOnce(c) ==
  /\ Retriable(c) /\ KindOf[c] = "request" /\ tab[TabOf[c]].session # call[c].token
  /\ call' = [call EXCEPT ![c] = Resent(c, tab[TabOf[c]].session)]
  /\ UNCHANGED <<server, cookie, queue, tab, command, faults, history>>

\* refresh(): the one under way, or a new one that queues for the lock.
JoinRefresh(c) ==
  /\ Retriable(c) /\ (KindOf[c] = "request" => tab[TabOf[c]].session = call[c].token)
  /\ call' = [call EXCEPT ![c].stage = "waiting"]
  /\ LET t == TabOf[c] IN
     IF command[t] = NoCommand
     THEN /\ command' = [command EXCEPT ![t] = [NoCommand EXCEPT !.kind = "refresh", !.stage = "queued"]]
          /\ queue' = Append(queue, t)
     ELSE UNCHANGED <<command, queue>>
  /\ UNCHANGED <<server, cookie, tab, faults, history>>

-----------------------------------------------------------------------------
(***************************************************************************)
(* Cookie commands                                                         *)
(***************************************************************************)

Queue(t, kind, user) ==
  /\ command[t] = NoCommand
  /\ command' = [command EXCEPT ![t] =
       [NoCommand EXCEPT !.kind = kind, !.stage = "queued", !.user = user]]
  /\ queue' = Append(queue, t)

\* restore() at the start of a tab.
Restore(t) ==
  /\ ~tab[t].ready
  /\ Queue(t, "refresh", Nobody)
  /\ UNCHANGED <<server, cookie, tab, call, faults, history>>

\* login() on the sign-in page.
Login(t, u) ==
  /\ tab[t].ready /\ ~SignedIn(t) /\ ~tab[t].signingOut
  /\ Queue(t, "verify", u)
  /\ UNCHANGED <<server, cookie, tab, call, faults, history>>

\* logout() refuses new refreshes at once and waits for the one under way.
Logout(t) ==
  /\ SignedIn(t) /\ ~tab[t].signingOut
  /\ tab' = [tab EXCEPT ![t].signingOut = TRUE]
  /\ UNCHANGED <<server, cookie, queue, call, command, faults, history>>

LogoutCommand(t) ==
  /\ tab[t].signingOut
  /\ Queue(t, "logout", Nobody)
  /\ UNCHANGED <<server, cookie, tab, call, faults, history>>

\* Mutant: commands do not take turns.
TakeWithoutLock(t) ==
  /\ command[t].stage = "queued"
  /\ command' = [command EXCEPT ![t].stage = "sent", ![t].token = cookie]
  /\ UNCHANGED <<server, cookie, queue, tab, call, faults, history>>

\* The lock is granted in turn; the browser attaches the cookie.
TakeLock(t) ==
  /\ command[t].stage = "queued" /\ Head(queue) = t
  /\ command' = [command EXCEPT ![t].stage = "sent", ![t].token = cookie]
  /\ UNCHANGED <<server, cookie, queue, tab, call, faults, history>>

Answered(t, token) ==
  command' = [command EXCEPT ![t].stage = "answered", ![t].token = token]

ServeRefresh(t) ==
  /\ command[t].stage = "sent" /\ command[t].kind = "refresh"
  /\ LET held == command[t].token IN
     /\ family' = Refreshed(family, held)
     /\ reused' = (reused \/ Reuses(family, held))
     /\ Answered(t, IF Rotates(family, held) THEN Rotated(held) ELSE NoToken)
  /\ UNCHANGED <<aged, cookie, queue, tab, call, faults, lost, misrun>>

\* The code is right and opens a session, or is refused.
ServeVerify(t) ==
  /\ command[t].stage = "sent" /\ command[t].kind = "verify"
  /\ \/ \E s \in Unopened(family) :
          /\ \A r \in Unopened(family) : s <= r
          /\ family' = Opened(family, s, command[t].user)
          /\ Answered(t, <<s, 1>>)
     \/ Answered(t, NoToken) /\ UNCHANGED family
  /\ UNCHANGED <<aged, cookie, queue, tab, call, faults, history>>

ServeLogout(t) ==
  /\ command[t].stage = "sent" /\ command[t].kind = "logout"
  /\ family' = LoggedOut(family, command[t].token)
  /\ Answered(t, NoToken)
  /\ UNCHANGED <<aged, cookie, queue, tab, call, faults, history>>

\* The command's answer comes, or the connection fails before or after the API
\* has run it.
Arrives(t, token) ==
  \/ command[t].stage = "answered" /\ token = command[t].token /\ UNCHANGED <<faults, lost>>
  \/ /\ Fault /\ command[t].stage \in {"sent", "answered"}
     /\ token = Failed /\ lost' = TRUE

\* The lock is released with the answer.
Released(t) ==
  /\ queue' = RemoveFirst(queue, t)
  /\ command' = [command EXCEPT ![t] = NoCommand]

\* Mutant: an upload is sent again without a look at the session.
AfterRefreshUnchecked(t, s, c) ==
  IF call[c].stage # "waiting" \/ TabOf[c] # t THEN Noted(t, s, c)
  ELSE IF s = NoToken THEN NoCall
  ELSE [Resent(c, s) EXCEPT !.changed = Noted(t, s, c).changed]

\* What a request that waited for the refresh does next: an upload looks at
\* the session before it is sent again, any other request is sent first.
AfterRefresh(t, s, c) ==
  IF call[c].stage # "waiting" \/ TabOf[c] # t THEN Noted(t, s, c)
  ELSE IF s = NoToken \/ (KindOf[c] = "upload" /\ Noted(t, s, c).changed) THEN NoCall
  ELSE [Resent(c, s) EXCEPT !.changed = Noted(t, s, c).changed]

\* A refresh ends with a session, with 401 or with a failure: the last two
\* show the sign-in page.
RefreshEnds(t) ==
  /\ command[t].kind = "refresh"
  /\ \E answer \in {NoToken, Failed} \union Tokens :
       /\ Arrives(t, answer)
       /\ LET s == IF answer = Failed THEN NoToken ELSE answer IN
          /\ cookie' = IF s = NoToken THEN cookie ELSE s
          /\ tab' = [tab EXCEPT ![t] = Published(t, s)]
          /\ call' = [c \in Calls |-> AfterRefresh(t, s, c)]
  /\ Released(t)
  /\ UNCHANGED <<server, reused, misrun>>

LoginEnds(t) ==
  /\ command[t].kind = "verify"
  /\ \E answer \in {NoToken, Failed} \union Tokens :
       /\ Arrives(t, answer)
       /\ IF answer \in Tokens THEN cookie' = answer /\ Publish(t, answer)
          ELSE UNCHANGED <<cookie, tab, call>>
  /\ Released(t)
  /\ UNCHANGED <<server, reused, misrun>>

\* A failed sign-out leaves the session shown.
LogoutEnds(t) ==
  /\ command[t].kind = "logout"
  /\ \/ /\ Arrives(t, NoToken)
        /\ cookie' = NoToken
        /\ tab' = [tab EXCEPT ![t] =
             [Published(t, NoToken) EXCEPT !.signingOut = FALSE, !.cached = Nobody]]
        /\ call' = [c \in Calls |-> Noted(t, NoToken, c)]
     \/ /\ Arrives(t, Failed)
        /\ tab' = [tab EXCEPT ![t].signingOut = FALSE]
        /\ UNCHANGED <<cookie, call>>
  /\ Released(t)
  /\ UNCHANGED <<server, reused, misrun>>

\* A tab is reloaded: its memory and its turn are gone, and the answer to a
\* command that was sent.
Reload(t) ==
  /\ Fault
  /\ tab' = [tab EXCEPT ![t] = FreshTab]
  /\ call' = [c \in Calls |-> IF TabOf[c] = t THEN NoCall ELSE call[c]]
  /\ lost' = (lost \/ command[t].stage \in {"sent", "answered"})
  /\ Released(t)
  /\ UNCHANGED <<server, cookie, reused, misrun>>

-----------------------------------------------------------------------------
CallStep(c) ==
  \/ Serve(c) \/ Receive(c) \/ GiveUp(c) \/ ResendAtOnce(c) \/ JoinRefresh(c)

CommandStep(t) ==
  \/ Restore(t) \/ LogoutCommand(t) \/ TakeLock(t)
  \/ ServeRefresh(t) \/ ServeVerify(t) \/ ServeLogout(t)
  \/ RefreshEnds(t) \/ LoginEnds(t) \/ LogoutEnds(t)

Next ==
  \/ Age
  \/ \E c \in Calls : Request(c) \/ CallStep(c) \/ Disconnect(c)
  \/ \E t \in Tabs :
       \/ CommandStep(t) \/ Logout(t) \/ Reload(t)
       \/ \E u \in Users : Login(t, u)

Spec == Init /\ [][Next]_vars

-----------------------------------------------------------------------------
(***************************************************************************)
(* Properties                                                              *)
(***************************************************************************)

Holder == {NoToken} \union Tokens

TypeOK ==
  /\ family \in Families /\ aged \in [Sessions -> 0 .. MaxGen]
  /\ cookie \in Holder /\ queue \in Seq(Tabs)
  /\ tab \in [Tabs -> [session: Holder, ready: BOOLEAN, signingOut: BOOLEAN,
                       cached: Users \union {Nobody}]]
  /\ call \in [Calls -> [stage: {"idle", "sent", "done", "waiting"},
                         author: Users \union {Nobody}, changed: BOOLEAN,
                         token: Holder, again: BOOLEAN]]
  /\ command \in [Tabs -> [kind: {"none", "refresh", "verify", "logout"},
                           stage: {"idle", "queued", "sent", "answered"},
                           user: Users \union {Nobody}, token: Holder]]
  /\ faults \in 0 .. MaxFaults /\ lost \in BOOLEAN /\ reused \in BOOLEAN
  /\ misrun \subseteq {"request", "upload"}

\* What a tab has cached was answered to the user it shows (admin/README.md:
\* requests in flight are discarded after a change of session, and cached
\* queries cleared).
CacheIsTheUsers ==
  \A t \in Tabs : tab[t].cached # Nobody => tab[t].cached = Shown(t)

\* Tabs never make the API take a rotated token for reused, however they
\* reload and refresh together, unless a command's answer was lost.
ReuseOnlyAfterLoss == reused => lost

\* A file is stored in the name of the user who chose it, although the retry
\* after a refresh uses whatever session the refresh brought.
UploadsRunAsTheirAuthor == "upload" \notin misrun
=============================================================================
