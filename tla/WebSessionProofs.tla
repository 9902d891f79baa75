--------------------------- MODULE WebSessionProofs ---------------------------
(***************************************************************************)
(* Theorems about WebSession, for any tabs, requests and users and any     *)
(* bounds, proved with TLAPS: type correctness and the run's three         *)
(* invariants.  WebInvariant carries them.  It says what the browser's     *)
(* lock gives: the tabs with a command stand in the queue once and only    *)
(* the first of them has a command under way, so that the refresh cookie   *)
(* is the token the API expects, or the answer with the new one is on its  *)
(* way.                                                                    *)
(***************************************************************************)
EXTENDS WebSession, SequenceTheorems, TLAPS

-----------------------------------------------------------------------------
(***************************************************************************)
(* The inductive invariant                                                 *)
(***************************************************************************)
\* A session that was opened has a user and a generation.
FamilyShape == \A s \in Sessions : family[s].user = Nobody <=> family[s].gen = 0

\* A token is of a session that was opened.
Issued(token) == token = NoToken \/ family[token[1]].user # Nobody

TokensIssued ==
  /\ Issued(cookie)
  /\ \A t \in Tabs : Issued(tab[t].session) /\ Issued(command[t].token)
  /\ \A c \in Calls : Issued(call[c].token)

\* A command that was sent and is not over.
Active(t) == command[t].stage \in {"sent", "answered"}

\* The tabs with a command stand in the queue once, the active one in front.
Turns ==
  /\ \A i, j \in DOMAIN queue : queue[i] = queue[j] => i = j
  /\ \A t \in Tabs : command[t].stage = "idle" <=> \A i \in DOMAIN queue : queue[i] # t
  /\ \A t \in Tabs : command[t].stage = "idle" => command[t] = NoCommand
  /\ \A t \in Tabs : Active(t) => queue # <<>> /\ queue[1] = t
  /\ \A t \in Tabs : command[t].kind = "verify" => command[t].user \in Users

Refreshes(t) == command[t].stage = "answered" /\ command[t].kind = "refresh" /\ command[t].token # NoToken

\* While no answer is lost the browser holds the token the API expects, or
\* the answer with it is on its way.
CookieIsCurrent ==
  ~lost =>
    /\ ~reused
    /\ \A t \in Tabs : command[t].stage = "sent" => command[t].token = cookie
    /\ \A t \in Tabs : command[t].stage = "answered" /\ command[t].token # NoToken => Hashed(family, command[t].token)
    /\ (\A t \in Tabs : ~Refreshes(t)) => cookie = NoToken \/ Hashed(family, cookie)

\* What is under way for the session that is shown was asked and is answered
\* for its user; a file goes out in the name of who chose it.
CallsFollow ==
  \A c \in Calls :
    /\ call[c].stage # "idle" /\ ~call[c].changed =>
         call[c].author = Shown(TabOf[c]) /\ UserOf(family, call[c].token) = call[c].author
    /\ call[c].stage # "idle" /\ KindOf[c] = "upload" => UserOf(family, call[c].token) = call[c].author

WebInvariant == TypeOK /\ FamilyShape /\ TokensIssued /\ Turns /\ CookieIsCurrent /\ CallsFollow
                /\ CacheIsTheUsers /\ UploadsRunAsTheirAuthor

-----------------------------------------------------------------------------
(***************************************************************************)
(* Types, tokens and the queue                                             *)
(***************************************************************************)
TabRows == [session: Holder, ready: BOOLEAN, signingOut: BOOLEAN, cached: Users \union {Nobody}]
CallRows == [stage: {"idle", "sent", "done", "waiting"}, author: Users \union {Nobody}, changed: BOOLEAN,
             token: Holder, again: BOOLEAN]
CommandRows == [kind: {"none", "refresh", "verify", "logout"}, stage: {"idle", "queued", "sent", "answered"},
                user: Users \union {Nobody}, token: Holder]

LEMMA Bounds == MaxSessions \in Nat /\ MaxSessions > 0 /\ MaxGen \in Nat /\ MaxGen > 0 /\ Nobody \notin Users
                /\ MaxFaults \in Nat
  BY FamilyAssumption, WebAssumption

\* A token names a session and a generation, and is not NoToken.
LEMMA TokenParts ==
  ASSUME NEW t \in Tokens
  PROVE  t[1] \in Sessions /\ t[2] \in 1 .. MaxGen /\ t = <<t[1], t[2]>> /\ t # NoToken
  BY Bounds DEF Tokens, NoToken, Sessions

LEMMA TokenMade ==
  ASSUME NEW s \in Sessions, NEW g \in 1 .. MaxGen
  PROVE  <<s, g>> \in Tokens
  BY DEF Tokens

LEMMA HeldToken ==
  ASSUME NEW t \in Holder, t # NoToken
  PROVE  t \in Tokens /\ t[1] \in Sessions /\ t[2] \in 1 .. MaxGen
  BY TokenParts DEF Holder

LEMMA UserOfType ==
  ASSUME NEW F \in Families, NEW t \in Holder
  PROVE  /\ UserOf(F, t) \in Users \union {Nobody}
         /\ t # NoToken => UserOf(F, t) = F[t[1]].user
         /\ UserOf(F, NoToken) = Nobody
<1>1. NoToken \notin Tokens
  BY TokenParts
<1> QED
  BY <1>1, TokenParts DEF UserOf, Families, Holder

\* What presenting a token makes of the API's sessions.
LEMMA RefreshedShape ==
  ASSUME NEW F \in Families, NEW t \in Holder
  PROVE  /\ Refreshed(F, t) \in Families
         /\ \A s \in Sessions : /\ Refreshed(F, t)[s].user = F[s].user
                                /\ Refreshed(F, t)[s].gen =
                                     IF Rotates(F, t) /\ s = t[1] THEN F[s].gen + 1 ELSE F[s].gen
         /\ Rotates(F, t) => /\ t \in Tokens /\ F[t[1]].gen = t[2]
                             /\ Rotated(t) \in Tokens /\ Rotated(t)[1] = t[1] /\ Rotated(t)[2] = t[2] + 1
<1>1. CASE Rotates(F, t)
  <2>1. t \in Tokens /\ F[t[1]].gen = t[2] /\ t[2] # MaxGen
    BY <1>1 DEF Rotates, IsOpen, Expired, Hashed
  <2>2. t[1] \in Sessions /\ t[2] \in 1 .. MaxGen
    BY <2>1, TokenParts
  <2>3. t[2] + 1 \in 1 .. MaxGen
    BY <2>1, <2>2, Bounds
  <2>4. Rotated(t) \in Tokens
    BY <2>2, <2>3, TokenMade DEF Rotated
  <2>5. Refreshed(F, t) = [F EXCEPT ![t[1]].gen = @ + 1]
    BY <1>1 DEF Refreshed
  <2>6. Refreshed(F, t) \in Families
    BY <2>1, <2>2, <2>3, <2>5, Bounds DEF Families
  <2> QED
    BY <1>1, <2>1, <2>2, <2>4, <2>5, <2>6 DEF Families, Rotated
<1>2. CASE ~Rotates(F, t) /\ Reuses(F, t)
  <2>1. t \in Tokens
    BY <1>2 DEF Reuses, IsOpen
  <2>2. t[1] \in Sessions
    BY <2>1, TokenParts
  <2>3. Refreshed(F, t) = [F EXCEPT ![t[1]].open = FALSE]
    BY <1>2 DEF Refreshed
  <2>4. Refreshed(F, t) \in Families
    BY <2>2, <2>3 DEF Families
  <2>5. ASSUME NEW s \in Sessions
        PROVE  Refreshed(F, t)[s].user = F[s].user /\ Refreshed(F, t)[s].gen = F[s].gen
    BY <2>2, <2>3 DEF Families
  <2> QED
    BY <1>2, <2>4, <2>5
<1>3. CASE ~Rotates(F, t) /\ ~Reuses(F, t)
  BY <1>3 DEF Refreshed
<1> QED
  BY <1>1, <1>2, <1>3

LEMMA LoggedOutShape ==
  ASSUME NEW F \in Families, NEW t \in Holder
  PROVE  /\ LoggedOut(F, t) \in Families
         /\ \A s \in Sessions : LoggedOut(F, t)[s].user = F[s].user /\ LoggedOut(F, t)[s].gen = F[s].gen
<1>1. CASE IsOpen(F, t) /\ Hashed(F, t)
  <2>1. t[1] \in Sessions
    BY <1>1, TokenParts DEF IsOpen
  <2> QED
    BY <1>1, <2>1 DEF LoggedOut, Families
<1>2. CASE ~(IsOpen(F, t) /\ Hashed(F, t))
  BY <1>2 DEF LoggedOut
<1> QED
  BY <1>1, <1>2

LEMMA OpenedShape ==
  ASSUME NEW F \in Families, NEW s \in Unopened(F), NEW u \in Users \union {Nobody}
  PROVE  /\ Opened(F, s, u) \in Families /\ s \in Sessions /\ <<s, 1>> \in Tokens
         /\ F[s].user = Nobody
         /\ Opened(F, s, u)[s].user = u /\ Opened(F, s, u)[s].gen = 1
         /\ \A r \in Sessions \ {s} : Opened(F, s, u)[r] = F[r]
<1>1. s \in Sessions /\ F[s].user = Nobody
  BY DEF Unopened
<1>2. <<s, 1>> \in Tokens
  BY <1>1, Bounds, TokenMade
<1>3. [user |-> u, gen |-> 1, open |-> TRUE] \in [user: Users \union {Nobody}, gen: 0 .. MaxGen, open: BOOLEAN]
  BY Bounds
<1> QED
  BY <1>1, <1>2, <1>3 DEF Opened, Families

-----------------------------------------------------------------------------
\* The queue after a tab has left it.
LEMMA NobodyLeaves ==
  ASSUME NEW S, NEW q \in Seq(S), NEW e, \A i \in DOMAIN q : q[i] # e
  PROVE  RemoveFirst(q, e) = q
<1>1. DOMAIN q = 1 .. Len(q)
  OBVIOUS
<1> QED
  BY <1>1 DEF RemoveFirst

LEMMA LeavesQueue ==
  ASSUME NEW S, NEW q \in Seq(S), \A i, j \in DOMAIN q : q[i] = q[j] => i = j,
         NEW e, NEW k \in DOMAIN q, q[k] = e
  PROVE  /\ RemoveFirst(q, e) \in Seq(S) /\ Len(RemoveFirst(q, e)) = Len(q) - 1
         /\ \A i \in 1 .. Len(q) - 1 : RemoveFirst(q, e)[i] = IF i < k THEN q[i] ELSE q[i + 1]
<1>1. DOMAIN q = 1 .. Len(q) /\ Len(q) \in Nat /\ {i \in 1 .. Len(q) : q[i] = e} = {k}
  OBVIOUS
<1>2. Min({k}) = k
  BY <1>1 DEF Min
<1>3. SelectInSeq(q, LAMBDA v : v = e) = k
  BY <1>1, <1>2 DEF SelectInSeq
<1>4. RemoveFirst(q, e) = SubSeq(q, 1, k - 1) \o SubSeq(q, k + 1, Len(q))
  BY <1>1, <1>3 DEF RemoveFirst, RemoveAt
<1> DEFINE a == SubSeq(q, 1, k - 1)
           b == SubSeq(q, k + 1, Len(q))
<1>5. a = [i \in 1 .. k - 1 |-> q[i]] /\ Len(a) = k - 1 /\ a \in Seq(S)
  BY <1>1
<1>6. /\ b \in Seq(S) /\ Len(b) = Len(q) - k
      /\ \A i \in 1 .. Len(q) - k : b[i] = q[k + i]
  BY <1>1, SubSeqProperties
<1>7. /\ Len(a) + Len(b) = Len(q) - 1 /\ a \o b \in Seq(S) /\ Len(a \o b) = Len(q) - 1
      /\ \A i \in 1 .. Len(q) - 1 : (a \o b)[i] = IF i <= k - 1 THEN a[i] ELSE b[i - (k - 1)]
  <2>1. Len(a) + Len(b) = Len(q) - 1
    BY <1>1, <1>5, <1>6
  <2> HIDE DEF a, b
  <2>2. /\ a \o b \in Seq(S) /\ Len(a \o b) = Len(a) + Len(b)
        /\ \A i \in 1 .. Len(a) + Len(b) : (a \o b)[i] = IF i <= Len(a) THEN a[i] ELSE b[i - Len(a)]
    BY <1>5, <1>6, ConcatProperties
  <2> QED
    BY <1>5, <2>1, <2>2
<1>8. ASSUME NEW i \in 1 .. Len(q) - 1
      PROVE  (IF i <= k - 1 THEN a[i] ELSE b[i - (k - 1)]) = IF i < k THEN q[i] ELSE q[i + 1]
  <2>1. CASE i <= k - 1
    BY <1>1, <1>5, <2>1
  <2>2. CASE ~(i <= k - 1)
    <3>1. i - (k - 1) \in 1 .. Len(q) - k /\ k + (i - (k - 1)) = i + 1 /\ ~(i < k)
      BY <1>1, <2>2
    <3> QED
      BY <1>6, <2>2, <3>1
  <2> QED
    BY <2>1, <2>2
<1>9. RemoveFirst(q, e) = a \o b
  BY <1>4
<1> HIDE DEF a, b
<1>10. \A i \in 1 .. Len(q) - 1 : (a \o b)[i] = IF i < k THEN q[i] ELSE q[i + 1]
  BY <1>7, <1>8
<1> QED
  BY <1>7, <1>9, <1>10

LEMMA RowsMade ==
  /\ FreshTab \in TabRows /\ NoCall \in CallRows /\ NoCommand \in CommandRows
  /\ NoToken \in Holder
  BY DEF FreshTab, TabRows, NoCall, CallRows, NoCommand, CommandRows, Holder

LEMMA Typed ==
  ASSUME TypeOK
  PROVE  /\ family \in Families /\ cookie \in Holder /\ queue \in Seq(Tabs)
         /\ tab \in [Tabs -> TabRows] /\ call \in [Calls -> CallRows] /\ command \in [Tabs -> CommandRows]
         /\ \A t \in Tabs : tab[t].session \in Holder /\ command[t].token \in Holder
         /\ \A c \in Calls : call[c].token \in Holder /\ TabOf[c] \in Tabs
  BY WebAssumption DEF TypeOK, TabRows, CallRows, CommandRows

LEMMA PublishedRow ==
  ASSUME TypeOK, NEW t \in Tabs, NEW s \in Holder
  PROVE  Published(t, s) \in TabRows
<1>1. tab[t] \in TabRows
  BY Typed
<1> QED
  BY <1>1 DEF Published, TabRows

\* What becomes of a request when its tab's session changes, or when it is
\* sent again.
LEMMA RowsKeep ==
  ASSUME TypeOK, NEW t, NEW s \in Holder, NEW c \in Calls
  PROVE  /\ Noted(t, s, c) \in CallRows
         /\ Resent(c, s) \in CallRows
         /\ AfterRefresh(t, s, c) \in CallRows
<1>1. call[c] \in CallRows
  BY Typed
<1>2. Noted(t, s, c) \in CallRows /\ Noted(t, s, c).changed \in BOOLEAN
  BY <1>1 DEF Noted, CallRows
<1>3. Resent(c, s) \in CallRows
  BY <1>1 DEF Resent, CallRows
<1>4. [Resent(c, s) EXCEPT !.changed = Noted(t, s, c).changed] \in CallRows
  BY <1>2, <1>3 DEF CallRows
<1>5. AfterRefresh(t, s, c) \in CallRows
  BY <1>2, <1>4, RowsMade DEF AfterRefresh
<1> QED
  BY <1>2, <1>3, <1>5

LEMMA QueueGrows ==
  ASSUME TypeOK, Turns, NEW t \in Tabs, command[t] = NoCommand, NEW new \in CommandRows, new.stage = "queued",
         new.kind = "verify" => new.user \in Users,
         queue' = Append(queue, t), command' = [command EXCEPT ![t] = new]
  PROVE  queue' \in Seq(Tabs) /\ command' \in [Tabs -> CommandRows] /\ Turns'
<1> USE Typed
<1>1. command' \in [Tabs -> CommandRows] /\ command'[t] = new
      /\ \A u \in Tabs \ {t} : command'[u] = command[u]
  OBVIOUS
<1>2. /\ Len(queue) \in Nat /\ DOMAIN queue = 1 .. Len(queue)
      /\ queue' \in Seq(Tabs) /\ Len(queue') = Len(queue) + 1 /\ DOMAIN queue' = 1 .. Len(queue) + 1
      /\ queue' # <<>>
  BY AppendProperties, LenProperties
<1>3. /\ \A i \in 1 .. Len(queue) : queue'[i] = queue[i]
      /\ queue'[Len(queue) + 1] = t
  BY AppendProperties
<1>4. command[t].stage = "idle" /\ \A i \in DOMAIN queue : queue[i] # t
  BY DEF Turns, NoCommand
<1>5. \A i, j \in DOMAIN queue' : queue'[i] = queue'[j] => i = j
  <2>1. \A i, j \in DOMAIN queue : queue[i] = queue[j] => i = j
    BY DEF Turns
  <2> QED
    BY <1>2, <1>3, <1>4, <2>1
<1>6. ASSUME NEW u \in Tabs
      PROVE  /\ command'[u].stage = "idle" <=> \A i \in DOMAIN queue' : queue'[i] # u
             /\ command'[u].stage = "idle" => command'[u] = NoCommand
  <2>1. CASE u = t
    BY <1>1, <1>2, <1>3, <2>1
  <2>2. CASE u # t
    <3>1. /\ command[u].stage = "idle" <=> \A i \in DOMAIN queue : queue[i] # u
          /\ command[u].stage = "idle" => command[u] = NoCommand
      BY DEF Turns
    <3> QED
      BY <1>1, <1>2, <1>3, <2>2, <3>1
  <2> QED
    BY <2>1, <2>2
<1>7. ASSUME NEW u \in Tabs, Active(u)'
      PROVE  queue' # <<>> /\ queue'[1] = u
  <2>1. u # t /\ Active(u)
    BY <1>1, <1>7 DEF Active
  <2>2. queue # <<>> /\ queue[1] = u
    BY <2>1 DEF Turns
  <2>3. 1 \in 1 .. Len(queue)
    BY <1>2, <2>2, EmptySeq
  <2> QED
    BY <1>2, <1>3, <2>2, <2>3
<1>8. \A u \in Tabs : command'[u].kind = "verify" => command'[u].user \in Users
  BY <1>1 DEF Turns
<1> QED
  BY <1>1, <1>2, <1>5, <1>6, <1>7, <1>8 DEF Turns

LEMMA QueueShrinks ==
  ASSUME TypeOK, Turns, NEW t \in Tabs, Released(t)
  PROVE  queue' \in Seq(Tabs) /\ command' \in [Tabs -> CommandRows] /\ Turns'
<1> USE Typed
<1>1. command' \in [Tabs -> CommandRows] /\ command'[t] = NoCommand
      /\ \A u \in Tabs \ {t} : command'[u] = command[u]
  BY RowsMade DEF Released
<1>2. queue' = RemoveFirst(queue, t) /\ Len(queue) \in Nat /\ DOMAIN queue = 1 .. Len(queue)
      /\ \A i, j \in DOMAIN queue : queue[i] = queue[j] => i = j
  BY LenProperties DEF Released, Turns
<1>3. CASE \A i \in DOMAIN queue : queue[i] # t
  <2>1. queue' = queue
    BY <1>2, <1>3, NobodyLeaves
  <2>2. command[t] = NoCommand
    BY <1>3 DEF Turns
  <2>3. command' = command
    BY <1>1, <2>2
  <2> QED
    BY <2>1, <2>3 DEF Turns, Active
<1>4. ASSUME NEW k \in DOMAIN queue, queue[k] = t
      PROVE  queue' \in Seq(Tabs) /\ Turns'
  <2>1. /\ queue' \in Seq(Tabs) /\ Len(queue') = Len(queue) - 1
        /\ \A i \in 1 .. Len(queue) - 1 : queue'[i] = IF i < k THEN queue[i] ELSE queue[i + 1]
    <3>1. queue \in Seq(Tabs) /\ \A i, j \in DOMAIN queue : queue[i] = queue[j] => i = j
      BY <1>2
    <3>2. /\ RemoveFirst(queue, t) \in Seq(Tabs) /\ Len(RemoveFirst(queue, t)) = Len(queue) - 1
          /\ \A i \in 1 .. Len(queue) - 1 : RemoveFirst(queue, t)[i] = IF i < k THEN queue[i] ELSE queue[i + 1]
      BY SMTT(30), <1>4, <3>1, LeavesQueue
    <3>3. queue' = RemoveFirst(queue, t)
      BY <1>2
    <3> QED
      BY <3>2, <3>3
  <2>2. k \in 1 .. Len(queue) /\ Len(queue) - 1 \in Nat
    BY <1>2
  <2>4. queue' \in Seq(Tabs) /\ Len(queue') = Len(queue) - 1 /\ DOMAIN queue' = 1 .. Len(queue) - 1
    BY <2>1, <2>2, LenProperties
  <2>5. \A i \in DOMAIN queue' : queue'[i] = IF i < k THEN queue[i] ELSE queue[i + 1]
    BY <2>1, <2>4
  <2>6. \A i, j \in DOMAIN queue' : queue'[i] = queue'[j] => i = j
    <3> DEFINE was(i) == IF i < k THEN i ELSE i + 1
    <3>1. \A i \in DOMAIN queue' : was(i) \in DOMAIN queue /\ queue'[i] = queue[was(i)]
      BY <1>2, <2>2, <2>4, <2>5
    <3>2. \A i, j \in DOMAIN queue' : was(i) = was(j) => i = j
      BY <2>2, <2>4
    <3> HIDE DEF was
    <3> QED
      BY <1>2, <3>1, <3>2
  <2>7. \A i \in DOMAIN queue' : queue'[i] # t
    BY <1>2, <1>4, <2>2, <2>4, <2>5
  <2>8. ASSUME NEW u \in Tabs \ {t}, NEW i \in DOMAIN queue, queue[i] = u
        PROVE  \E j \in DOMAIN queue' : queue'[j] = u
    <3>1. CASE i < k
      BY <1>2, <2>2, <2>4, <2>5, <2>8, <3>1
    <3>2. CASE ~(i < k)
      <4>1. i # k
        BY <1>4, <2>8
      <4>2. i - 1 \in DOMAIN queue' /\ ~(i - 1 < k) /\ (i - 1) + 1 = i
        BY <1>2, <2>2, <2>4, <3>2, <4>1
      <4> QED
        BY <2>5, <2>8, <4>2
    <3> QED
      BY <3>1, <3>2
  <2>9. ASSUME NEW u \in Tabs
        PROVE  /\ command'[u].stage = "idle" <=> \A i \in DOMAIN queue' : queue'[i] # u
               /\ command'[u].stage = "idle" => command'[u] = NoCommand
    <3>1. CASE u = t
      BY <1>1, <2>7, <3>1 DEF NoCommand
    <3>2. CASE u # t
      <4>1. /\ command[u].stage = "idle" <=> \A i \in DOMAIN queue : queue[i] # u
            /\ command[u].stage = "idle" => command[u] = NoCommand
        BY DEF Turns
      <4>2. (\A i \in DOMAIN queue : queue[i] # u) => \A i \in DOMAIN queue' : queue'[i] # u
        BY <1>2, <2>2, <2>4, <2>5
      <4> QED
        BY <1>1, <2>8, <3>2, <4>1, <4>2
    <3> QED
      BY <3>1, <3>2
  <2>10. ASSUME NEW u \in Tabs, Active(u)'
         PROVE  queue' # <<>> /\ queue'[1] = u
    <3>1. u # t /\ Active(u)
      BY <1>1, <2>10 DEF Active, NoCommand
    <3>2. queue # <<>> /\ queue[1] = u
      BY <3>1 DEF Turns
    <3>3. k # 1
      BY <1>4, <3>1, <3>2
    <3>4. 1 \in DOMAIN queue' /\ 1 < k
      BY <2>2, <2>4, <3>3
    <3> QED
      BY <2>4, <2>5, <3>2, <3>4, EmptySeq
  <2>11. \A u \in Tabs : command'[u].kind = "verify" => command'[u].user \in Users
    BY <1>1 DEF Turns, NoCommand
  <2> QED
    BY <2>4, <2>6, <2>9, <2>10, <2>11 DEF Turns
<1> QED
  BY <1>1, <1>3, <1>4

-----------------------------------------------------------------------------
(***************************************************************************)
(* Types and turns are kept                                                *)
(***************************************************************************)
\* The type, in named parts.
Parts ==
  /\ family \in Families /\ aged \in [Sessions -> 0 .. MaxGen] /\ cookie \in Holder /\ queue \in Seq(Tabs)
  /\ tab \in [Tabs -> TabRows] /\ call \in [Calls -> CallRows] /\ command \in [Tabs -> CommandRows]
  /\ faults \in 0 .. MaxFaults /\ lost \in BOOLEAN /\ reused \in BOOLEAN
  /\ misrun \subseteq {"request", "upload"}

LEMMA TypeIsParts == TypeOK <=> Parts
  BY DEF TypeOK, Parts, TabRows, CallRows, CommandRows

LEMMA TypeIsPartsNext == TypeOK' <=> Parts'
  BY DEF TypeOK, Parts, TabRows, CallRows, CommandRows

\* Faults are counted up to their bound.
LEMMA Counted == ASSUME TypeOK, Fault PROVE faults' \in 0 .. MaxFaults
  BY Bounds DEF TypeOK, Fault

LEMMA AgeTypes ==
  ASSUME TypeOK, Turns, Age
  PROVE  TypeOK' /\ Turns'
<1> USE TypeIsParts DEF Parts
<1>1. aged' \in [Sessions -> 0 .. MaxGen]
  <2>1. PICK s \in Sessions : aged[s] < family[s].gen /\ aged' = [aged EXCEPT ![s] = @ + 1]
    BY DEF Age
  <2>2. family[s].gen \in 0 .. MaxGen /\ aged[s] \in 0 .. MaxGen
    BY DEF Families
  <2>3. aged[s] + 1 \in 0 .. MaxGen
    BY <2>1, <2>2, Bounds
  <2> QED
    BY <2>1, <2>3
<1>2. UNCHANGED <<family, cookie, queue, tab, call, command, faults, lost, reused, misrun>>
  BY DEF Age, history
<1>3. Turns'
  BY <1>2 DEF Turns, Active
<1> QED
  BY <1>1, <1>2, <1>3, TypeIsPartsNext

\* A step of a request that leaves the commands alone.
LEMMA CallTypes ==
  ASSUME TypeOK, Turns, NEW c \in Calls,
         Request(c) \/ Serve(c) \/ Disconnect(c) \/ Receive(c) \/ GiveUp(c) \/ ResendAtOnce(c)
  PROVE  TypeOK' /\ Turns'
<1> USE TypeIsParts DEF Parts
<1>1. UNCHANGED <<family, aged, cookie, queue, command, faults, lost, reused>>
  BY DEF Request, Serve, Disconnect, Receive, GiveUp, ResendAtOnce, server, history
<1>2. Turns'
  BY <1>1 DEF Turns, Active
<1>3. /\ TabOf[c] \in Tabs /\ tab[TabOf[c]] \in TabRows /\ tab[TabOf[c]].session \in Holder /\ call[c] \in CallRows
      /\ call[c].token \in Holder /\ NoToken \in Holder /\ KindOf[c] \in {"request", "upload"}
  BY WebAssumption, RowsMade DEF CallRows, TabRows
<1>4. call' \in [Calls -> CallRows]
  <2>1. CASE Request(c)
    <3>1. Shown(TabOf[c]) \in Users \union {Nobody}
      BY <1>3, UserOfType DEF Shown
    <3>2. [stage |-> "sent", author |-> Shown(TabOf[c]), changed |-> FALSE,
           token |-> tab[TabOf[c]].session, again |-> FALSE] \in CallRows
      BY <1>3, <3>1 DEF CallRows
    <3> QED
      BY <2>1, <3>2 DEF Request
  <2>2. CASE Serve(c)
    <3>1. [call[c] EXCEPT !.stage = "done"] \in CallRows
      BY <1>3 DEF CallRows
    <3> QED
      BY <2>2, <3>1 DEF Serve
  <2>3. CASE Disconnect(c) \/ Receive(c)
    BY <2>3, RowsMade DEF Disconnect, Receive
  <2>4. CASE GiveUp(c)
    <3>1. \A d \in Calls : Noted(TabOf[c], NoToken, d) \in CallRows
      BY <1>3, RowsKeep
    <3> QED
      BY ZenonT(30), <2>4, <3>1, RowsMade DEF GiveUp
  <2>5. CASE ResendAtOnce(c)
    <3>1. Resent(c, tab[TabOf[c]].session) \in CallRows
      BY <1>3, RowsKeep
    <3> QED
      BY <2>5, <3>1 DEF ResendAtOnce
  <2> QED
    BY <2>1, <2>2, <2>3, <2>4, <2>5
<1>5. tab' \in [Tabs -> TabRows]
  <2>1. CASE Receive(c)
    <3>1. UserOf(family, call[c].token) \in Users \union {Nobody}
      BY <1>3, UserOfType
    <3>2. [tab[TabOf[c]] EXCEPT !.cached =
             IF KindOf[c] = "request" /\ ~call[c].changed THEN UserOf(family, call[c].token) ELSE @] \in TabRows
      BY <1>3, <3>1 DEF TabRows
    <3> QED
      BY <2>1, <3>2 DEF Receive
  <2>2. CASE GiveUp(c)
    <3>1. Published(TabOf[c], NoToken) \in TabRows
      BY <1>3, PublishedRow
    <3> QED
      BY <2>2, <3>1 DEF GiveUp
  <2>3. CASE ~Receive(c) /\ ~GiveUp(c)
    BY <2>3 DEF Request, Serve, Disconnect, ResendAtOnce
  <2> QED
    BY <2>1, <2>2, <2>3
<1>6. misrun' \subseteq {"request", "upload"}
  BY <1>3 DEF Request, Serve, Disconnect, Receive, GiveUp, ResendAtOnce, history
<1> QED
  BY <1>1, <1>2, <1>4, <1>5, <1>6, TypeIsPartsNext

\* A step that queues a command.
LEMMA QueueTypes ==
  ASSUME TypeOK, Turns, NEW t \in Tabs, NEW kind \in {"refresh", "verify", "logout"},
         NEW user \in Users \union {Nobody}, kind = "verify" => user \in Users, Queue(t, kind, user)
  PROVE  queue' \in Seq(Tabs) /\ command' \in [Tabs -> CommandRows] /\ Turns'
<1> DEFINE new == [NoCommand EXCEPT !.kind = kind, !.stage = "queued", !.user = user]
<1>1. new \in CommandRows /\ new.stage = "queued" /\ (new.kind = "verify" => new.user \in Users)
  BY DEF NoCommand, CommandRows, Holder
<1> QED
  BY <1>1, QueueGrows DEF Queue

LEMMA StartTypes ==
  ASSUME TypeOK, Turns, NEW t \in Tabs, NEW u,
         Restore(t) \/ (u \in Users /\ Login(t, u)) \/ LogoutCommand(t) \/ Logout(t)
  PROVE  TypeOK' /\ Turns'
<1> USE TypeIsParts DEF Parts
<1>1. CASE Logout(t)
  <2>1. UNCHANGED <<family, aged, cookie, queue, call, command, faults, lost, reused, misrun>>
    BY <1>1 DEF Logout, server, history
  <2>2. [tab[t] EXCEPT !.signingOut = TRUE] \in TabRows
    BY DEF TabRows
  <2>3. tab' \in [Tabs -> TabRows]
    BY <1>1, <2>2 DEF Logout
  <2> QED
    BY <2>1, <2>3, TypeIsPartsNext DEF Turns, Active
<1>2. CASE Restore(t) \/ (u \in Users /\ Login(t, u)) \/ LogoutCommand(t)
  <2>1. UNCHANGED <<family, aged, cookie, tab, call, faults, lost, reused, misrun>>
    BY <1>2 DEF Restore, Login, LogoutCommand, server, history
  <2>2. queue' \in Seq(Tabs) /\ command' \in [Tabs -> CommandRows] /\ Turns'
    BY <1>2, QueueTypes DEF Restore, Login, LogoutCommand
  <2> QED
    BY <2>1, <2>2, TypeIsPartsNext
<1> QED
  BY <1>1, <1>2

LEMMA JoinTypes ==
  ASSUME TypeOK, Turns, NEW c \in Calls, JoinRefresh(c)
  PROVE  TypeOK' /\ Turns'
<1> USE TypeIsParts DEF Parts
<1>1. UNCHANGED <<family, aged, cookie, tab, faults, lost, reused, misrun>>
  BY DEF JoinRefresh, server, history
<1>2. [call[c] EXCEPT !.stage = "waiting"] \in CallRows
  BY DEF CallRows
<1>3. call' \in [Calls -> CallRows]
  BY <1>2 DEF JoinRefresh
<1> DEFINE t == TabOf[c]
           new == [NoCommand EXCEPT !.kind = "refresh", !.stage = "queued"]
<1>4. t \in Tabs /\ new \in CommandRows /\ new.stage = "queued" /\ new.kind = "refresh"
  BY WebAssumption DEF NoCommand, CommandRows, Holder
<1>5. CASE command[t] = NoCommand
  <2>1. queue' = Append(queue, t) /\ command' = [command EXCEPT ![t] = new]
    BY <1>5 DEF JoinRefresh
  <2> HIDE DEF t, new
  <2>2. queue' \in Seq(Tabs) /\ command' \in [Tabs -> CommandRows] /\ Turns'
    BY <1>4, <1>5, <2>1, QueueGrows
  <2> QED
    BY <1>1, <1>3, <2>2, TypeIsPartsNext
<1>6. CASE command[t] # NoCommand
  <2>1. UNCHANGED <<queue, command>>
    BY <1>6 DEF JoinRefresh
  <2> QED
    BY <1>1, <1>3, <2>1, TypeIsPartsNext DEF Turns, Active
<1> QED
  BY <1>5, <1>6

\* A command that goes on keeps its turn.
LEMMA TurnKept ==
  ASSUME TypeOK, Turns, NEW t \in Tabs, NEW new \in CommandRows, new.stage \in {"sent", "answered"},
         new.kind = command[t].kind, new.user = command[t].user,
         Active(t) \/ (command[t].stage = "queued" /\ Head(queue) = t), command' = [command EXCEPT ![t] = new],
         queue' = queue
  PROVE  command' \in [Tabs -> CommandRows] /\ Turns'
<1> USE Typed
<1>1. /\ command' \in [Tabs -> CommandRows] /\ command'[t] = new
      /\ \A u \in Tabs \ {t} : command'[u] = command[u]
  OBVIOUS
<1>2. command[t].stage # "idle"
  BY DEF Active
<1>3. \E i \in DOMAIN queue : queue[i] = t
  BY <1>2 DEF Turns
<1>4. queue # <<>> /\ queue[1] = t
  <2>1. queue # <<>>
    BY <1>3
  <2> QED
    BY <2>1 DEF Turns
<1> QED
  BY <1>1, <1>2, <1>3, <1>4 DEF Turns, Active

\* What the API makes of a command: its sessions, and the answer.
LEMMA ServeEffect ==
  ASSUME TypeOK, Turns, FamilyShape, TokensIssued, NEW t \in Tabs, ServeRefresh(t) \/ ServeVerify(t) \/ ServeLogout(t)
  PROVE  /\ command[t].stage = "sent"
         /\ family' \in Families
         /\ \E token \in Holder :
              /\ command' = [command EXCEPT ![t].stage = "answered", ![t].token = token]
              /\ token = NoToken \/ (Hashed(family', token) /\ family'[token[1]].user # Nobody)
         /\ FamilyShape'
         /\ \A s \in Sessions : family[s].user # Nobody => family'[s].user = family[s].user
<1> USE Typed
<1> DEFINE held == command[t].token
<1>1. held \in Holder /\ command[t].stage = "sent" /\ (held # NoToken => family[held[1]].user # Nobody)
  BY DEF TokensIssued, Issued, ServeRefresh, ServeVerify, ServeLogout
<1>2. CASE ServeRefresh(t)
  <2> DEFINE token == IF Rotates(family, held) THEN Rotated(held) ELSE NoToken
  <2>1. family' = Refreshed(family, held) /\ command' = [command EXCEPT ![t].stage = "answered", ![t].token = token]
    BY <1>2 DEF ServeRefresh, Answered
  <2>2. /\ family' \in Families
        /\ \A s \in Sessions : /\ family'[s].user = family[s].user
                               /\ family'[s].gen = IF Rotates(family, held) /\ s = held[1] THEN family[s].gen + 1 ELSE family[s].gen
        /\ Rotates(family, held) => /\ held \in Tokens /\ family[held[1]].gen = held[2]
                                    /\ Rotated(held) \in Tokens /\ Rotated(held)[1] = held[1] /\ Rotated(held)[2] = held[2] + 1
    BY <1>1, <2>1, RefreshedShape
  <2>3. token \in Holder
    BY <2>2 DEF Holder
  <2>4. ASSUME Rotates(family, held)
        PROVE  Hashed(family', token) /\ family'[token[1]].user # Nobody
    <3>1. held[1] \in Sessions /\ held # NoToken
      BY <2>2, <2>4, TokenParts
    <3> QED
      BY <1>1, <2>2, <2>4, <3>1 DEF Hashed
  <2>5. FamilyShape'
    <3>1. ASSUME NEW s \in Sessions PROVE family'[s].user = Nobody <=> family'[s].gen = 0
      <4>1. family[s].user = Nobody <=> family[s].gen = 0
        BY DEF FamilyShape
      <4>2. family[s].gen \in Nat
        BY DEF Families
      <4>3. CASE Rotates(family, held) /\ s = held[1]
        <5>1. held \in Tokens /\ family[s].gen = held[2]
          BY <2>2, <4>3
        <5>2. held[2] \in 1 .. MaxGen
          BY <5>1, TokenParts
        <5> QED
          BY <2>2, <4>1, <4>2, <4>3, <5>1, <5>2
      <4>4. CASE ~(Rotates(family, held) /\ s = held[1])
        BY <2>2, <4>1, <4>4
      <4> QED
        BY <4>3, <4>4
    <3> QED
      BY <3>1 DEF FamilyShape
  <2> HIDE DEF token, held
  <2> QED
    BY <1>1, <2>1, <2>2, <2>3, <2>4, <2>5 DEF token
<1>3. CASE ServeVerify(t)
  <2>1. CASE Answered(t, NoToken) /\ UNCHANGED family
    <3>1. NoToken \in Holder /\ command' = [command EXCEPT ![t].stage = "answered", ![t].token = NoToken]
      BY <2>1, RowsMade DEF Answered
    <3>2. FamilyShape'
      BY <2>1 DEF FamilyShape
    <3> QED
      BY <1>1, <2>1, <3>1, <3>2
  <2>2. ASSUME NEW s \in Unopened(family), family' = Opened(family, s, command[t].user), Answered(t, <<s, 1>>)
        PROVE  /\ family' \in Families /\ FamilyShape'
               /\ \E token \in Holder :
                    /\ command' = [command EXCEPT ![t].stage = "answered", ![t].token = token]
                    /\ token = NoToken \/ (Hashed(family', token) /\ family'[token[1]].user # Nobody)
               /\ \A r \in Sessions : family[r].user # Nobody => family'[r].user = family[r].user
    <3>1. command[t].user \in Users
      BY <1>3 DEF ServeVerify, Turns
    <3> DEFINE u == command[t].user
    <3>2. /\ family' \in Families /\ s \in Sessions /\ <<s, 1>> \in Tokens /\ family[s].user = Nobody
          /\ family'[s].user = u /\ family'[s].gen = 1 /\ \A r \in Sessions \ {s} : family'[r] = family[r]
      BY <2>2, <3>1, OpenedShape
    <3>3. FamilyShape'
      BY <3>1, <3>2, Bounds DEF FamilyShape
    <3>4. <<s, 1>> \in Holder /\ Hashed(family', <<s, 1>>) /\ family'[s].user # Nobody
      BY <3>1, <3>2, Bounds DEF Holder, Hashed
    <3> QED
      BY <2>2, <3>2, <3>3, <3>4 DEF Answered
  <2> QED
    BY <1>1, <1>3, <2>1, <2>2 DEF ServeVerify
<1>4. CASE ServeLogout(t)
  <2>1. family' = LoggedOut(family, held) /\ command' = [command EXCEPT ![t].stage = "answered", ![t].token = NoToken]
    BY <1>4 DEF ServeLogout, Answered
  <2>2. family' \in Families /\ \A s \in Sessions : family'[s].user = family[s].user /\ family'[s].gen = family[s].gen
    BY <1>1, <2>1, LoggedOutShape
  <2>3. FamilyShape' /\ NoToken \in Holder
    BY <2>2, RowsMade DEF FamilyShape
  <2> QED
    BY <1>1, <2>1, <2>2, <2>3
<1> QED
  BY <1>2, <1>3, <1>4

LEMMA TakeTypes ==
  ASSUME TypeOK, Turns, NEW t \in Tabs, TakeLock(t)
  PROVE  TypeOK' /\ Turns'
<1> USE TypeIsParts DEF Parts
<1> DEFINE new == [command[t] EXCEPT !.stage = "sent", !.token = cookie]
<1>1. UNCHANGED <<family, aged, cookie, queue, tab, call, faults, lost, reused, misrun>>
  BY DEF TakeLock, server, history
<1>2. new \in CommandRows /\ new.stage = "sent" /\ new.kind = command[t].kind /\ new.user = command[t].user
  BY DEF CommandRows
<1>3. command' = [command EXCEPT ![t] = new]
  BY DEF TakeLock
<1> HIDE DEF new
<1>4. command' \in [Tabs -> CommandRows] /\ Turns'
  BY <1>1, <1>2, <1>3, TurnKept DEF TakeLock
<1> QED
  BY <1>1, <1>4, TypeIsPartsNext

LEMMA ServeTypes ==
  ASSUME TypeOK, Turns, FamilyShape, TokensIssued, NEW t \in Tabs, ServeRefresh(t) \/ ServeVerify(t) \/ ServeLogout(t)
  PROVE  TypeOK' /\ Turns'
<1> USE TypeIsParts DEF Parts
<1>1. UNCHANGED <<aged, cookie, queue, tab, call, faults, lost, misrun>>
  BY DEF ServeRefresh, ServeVerify, ServeLogout, history
<1>2. reused' \in BOOLEAN
  BY DEF ServeRefresh, ServeVerify, ServeLogout, history
<1>3. PICK token \in Holder : command' = [command EXCEPT ![t].stage = "answered", ![t].token = token]
  BY ServeEffect
<1> DEFINE new == [command[t] EXCEPT !.stage = "answered", !.token = token]
<1>4. new \in CommandRows /\ new.stage = "answered" /\ new.kind = command[t].kind /\ new.user = command[t].user
  BY DEF CommandRows
<1>5. command' = [command EXCEPT ![t] = new] /\ Active(t)
  BY <1>3, ServeEffect DEF Active
<1> HIDE DEF new
<1>6. command' \in [Tabs -> CommandRows] /\ Turns'
  BY <1>1, <1>4, <1>5, TurnKept
<1>7. family' \in Families
  BY ServeEffect
<1> QED
  BY <1>1, <1>2, <1>6, <1>7, TypeIsPartsNext

\* How a command ends: with which session, if the tab's changes, with which
\* cookie, and what it costs.
LEMMA EndEffect ==
  ASSUME TypeOK, Turns, NEW t \in Tabs, RefreshEnds(t) \/ LoginEnds(t) \/ LogoutEnds(t)
  PROVE  /\ Released(t) /\ Active(t) /\ UNCHANGED <<family, aged, reused, misrun>>
         /\ \/ UNCHANGED <<faults, lost>> /\ command[t].stage = "answered"
               /\ (Refreshes(t) => cookie' = command[t].token)
            \/ faults' \in 0 .. MaxFaults /\ lost'
         /\ cookie' \in {cookie, NoToken} \/ (cookie' \in Tokens /\ cookie' = command[t].token /\ command[t].stage = "answered")
         /\ \/ /\ UNCHANGED call /\ (tab' = tab \/ tab' = [tab EXCEPT ![t].signingOut = FALSE])
            \/ \E s \in Holder :
                 /\ s # NoToken => s = command[t].token
                 /\ \/ tab' = [tab EXCEPT ![t] = Published(t, s)]
                    \/ tab' = [tab EXCEPT ![t] = [Published(t, s) EXCEPT !.signingOut = FALSE, !.cached = Nobody]]
                 /\ \/ call' = [c \in Calls |-> AfterRefresh(t, s, c)]
                    \/ call' = [c \in Calls |-> Noted(t, s, c)]
<1> USE RowsMade
<1>1. ASSUME NEW answer, Arrives(t, answer)
      PROVE  /\ Active(t)
             /\ \/ UNCHANGED <<faults, lost>> /\ command[t].stage = "answered" /\ answer = command[t].token
                \/ faults' \in 0 .. MaxFaults /\ lost'
             /\ answer = Failed \/ (answer = command[t].token /\ command[t].stage = "answered")
  BY <1>1, Counted DEF Arrives, Active
<1>2. Failed # NoToken /\ Failed \notin Tokens
  BY TokenParts DEF Failed, NoToken
<1>3. CASE RefreshEnds(t)
  <2>1. PICK answer \in {NoToken, Failed} \union Tokens :
          /\ Arrives(t, answer)
          /\ cookie' = IF (IF answer = Failed THEN NoToken ELSE answer) = NoToken THEN cookie ELSE (IF answer = Failed THEN NoToken ELSE answer)
          /\ tab' = [tab EXCEPT ![t] = Published(t, IF answer = Failed THEN NoToken ELSE answer)]
          /\ call' = [c \in Calls |-> AfterRefresh(t, IF answer = Failed THEN NoToken ELSE answer, c)]
    BY <1>3 DEF RefreshEnds
  <2> DEFINE s == IF answer = Failed THEN NoToken ELSE answer
  <2>2. s \in Holder /\ (s # NoToken => s = command[t].token /\ command[t].stage = "answered" /\ s \in Tokens)
    BY <1>1, <2>1 DEF Holder
  <2>3. cookie' = (IF s = NoToken THEN cookie ELSE s) /\ tab' = [tab EXCEPT ![t] = Published(t, s)]
        /\ call' = [c \in Calls |-> AfterRefresh(t, s, c)]
    BY <2>1
  <2>4. Released(t) /\ UNCHANGED <<family, aged, reused, misrun>>
    BY <1>3 DEF RefreshEnds, server
  <2>5. answer = command[t].token => answer # Failed
    BY <1>2, Typed DEF Holder
  <2>6. answer = command[t].token /\ command[t].token # NoToken => s # NoToken /\ s = command[t].token
    BY <2>5
  <2> HIDE DEF s
  <2>7. answer = command[t].token /\ Refreshes(t) => cookie' = command[t].token
    BY <2>3, <2>6 DEF Refreshes
  <2>8. cookie' \in {cookie, NoToken} \/ (cookie' \in Tokens /\ cookie' = command[t].token /\ command[t].stage = "answered")
    BY <2>2, <2>3
  <2> QED
    BY <1>1, <2>1, <2>2, <2>3, <2>4, <2>7, <2>8
<1>4. CASE LoginEnds(t)
  <2> ~Refreshes(t)
    BY <1>4 DEF LoginEnds, Refreshes
  <2>1. PICK answer \in {NoToken, Failed} \union Tokens :
          /\ Arrives(t, answer)
          /\ IF answer \in Tokens THEN cookie' = answer /\ Publish(t, answer) ELSE UNCHANGED <<cookie, tab, call>>
    BY <1>4 DEF LoginEnds
  <2>2. Released(t) /\ UNCHANGED <<family, aged, reused, misrun>>
    BY <1>4 DEF LoginEnds, server
  <2>3. CASE answer \in Tokens
    <3>1. /\ answer \in Holder /\ answer = command[t].token /\ command[t].stage = "answered" /\ cookie' = answer
          /\ tab' = [tab EXCEPT ![t] = Published(t, answer)] /\ call' = [c \in Calls |-> Noted(t, answer, c)]
      BY <1>1, <1>2, <2>1, <2>3 DEF Publish, Holder
    <3> QED
      BY <1>1, <2>1, <2>2, <2>3, <3>1
  <2>4. CASE answer \notin Tokens
    BY <1>1, <2>1, <2>2, <2>4
  <2> QED
    BY <2>3, <2>4
<1>5. CASE LogoutEnds(t)
  <2> ~Refreshes(t)
    BY <1>5 DEF LogoutEnds, Refreshes
  <2>1. Released(t) /\ UNCHANGED <<family, aged, reused, misrun>>
    BY <1>5 DEF LogoutEnds, server
  <2>2. CASE /\ Arrives(t, NoToken) /\ cookie' = NoToken
             /\ tab' = [tab EXCEPT ![t] = [Published(t, NoToken) EXCEPT !.signingOut = FALSE, !.cached = Nobody]]
             /\ call' = [c \in Calls |-> Noted(t, NoToken, c)]
    BY <1>1, <2>1, <2>2
  <2>3. CASE Arrives(t, Failed) /\ tab' = [tab EXCEPT ![t].signingOut = FALSE] /\ UNCHANGED <<cookie, call>>
    BY <1>1, <2>1, <2>3
  <2> QED
    BY <1>5, <2>2, <2>3 DEF LogoutEnds
<1> QED
  BY <1>3, <1>4, <1>5

LEMMA EndTypes ==
  ASSUME TypeOK, Turns, NEW t \in Tabs, RefreshEnds(t) \/ LoginEnds(t) \/ LogoutEnds(t)
  PROVE  TypeOK' /\ Turns'
<1> USE TypeIsParts DEF Parts
<1>1. queue' \in Seq(Tabs) /\ command' \in [Tabs -> CommandRows] /\ Turns'
  BY EndEffect, QueueShrinks
<1>2. UNCHANGED <<family, aged, reused, misrun>> /\ faults' \in 0 .. MaxFaults /\ lost' \in BOOLEAN
  BY EndEffect
<1>3. cookie' \in Holder
  BY EndEffect, RowsMade DEF Holder
<1>4. [tab[t] EXCEPT !.signingOut = FALSE] \in TabRows
  BY DEF TabRows
<1>5. tab' \in [Tabs -> TabRows] /\ call' \in [Calls -> CallRows]
  <2>1. CASE UNCHANGED call /\ (tab' = tab \/ tab' = [tab EXCEPT ![t].signingOut = FALSE])
    BY <1>4, <2>1
  <2>2. ASSUME NEW s \in Holder,
               \/ tab' = [tab EXCEPT ![t] = Published(t, s)]
               \/ tab' = [tab EXCEPT ![t] = [Published(t, s) EXCEPT !.signingOut = FALSE, !.cached = Nobody]],
               \/ call' = [c \in Calls |-> AfterRefresh(t, s, c)]
               \/ call' = [c \in Calls |-> Noted(t, s, c)]
        PROVE  tab' \in [Tabs -> TabRows] /\ call' \in [Calls -> CallRows]
    <3>1. Published(t, s) \in TabRows
      BY PublishedRow
    <3>3. ASSUME NEW c \in Calls PROVE AfterRefresh(t, s, c) \in CallRows /\ Noted(t, s, c) \in CallRows
      BY RowsKeep
    <3>2. [Published(t, s) EXCEPT !.signingOut = FALSE, !.cached = Nobody] \in TabRows
      BY <3>1 DEF TabRows
    <3> QED
      BY <2>2, <3>1, <3>2, <3>3
  <2>3. \/ /\ UNCHANGED call /\ (tab' = tab \/ tab' = [tab EXCEPT ![t].signingOut = FALSE])
        \/ \E s \in Holder :
             /\ \/ tab' = [tab EXCEPT ![t] = Published(t, s)]
                \/ tab' = [tab EXCEPT ![t] = [Published(t, s) EXCEPT !.signingOut = FALSE, !.cached = Nobody]]
             /\ \/ call' = [c \in Calls |-> AfterRefresh(t, s, c)]
                \/ call' = [c \in Calls |-> Noted(t, s, c)]
    BY EndEffect
  <2> QED
    BY <2>1, <2>2, <2>3
<1> QED
  BY <1>1, <1>2, <1>3, <1>5, TypeIsPartsNext

LEMMA ReloadTypes ==
  ASSUME TypeOK, Turns, NEW t \in Tabs, Reload(t)
  PROVE  TypeOK' /\ Turns'
<1> USE TypeIsParts DEF Parts
<1>1. queue' \in Seq(Tabs) /\ command' \in [Tabs -> CommandRows] /\ Turns'
  BY QueueShrinks DEF Reload
<1>2. UNCHANGED <<family, aged, cookie, reused, misrun>> /\ faults' \in 0 .. MaxFaults
  BY Counted DEF Reload, server
<1>3. lost' \in BOOLEAN
  BY DEF Reload
<1>4. tab' \in [Tabs -> TabRows] /\ call' \in [Calls -> CallRows]
  BY RowsMade DEF Reload
<1> QED
  BY <1>1, <1>2, <1>3, <1>4, TypeIsPartsNext

LEMMA TypesKeep ==
  ASSUME TypeOK, Turns, FamilyShape, TokensIssued, Next
  PROVE  TypeOK' /\ Turns'
  BY AgeTypes, CallTypes, StartTypes, JoinTypes, TakeTypes, ServeTypes, EndTypes, ReloadTypes
     DEF Next, CallStep, CommandStep

-----------------------------------------------------------------------------
(***************************************************************************)
(* Tokens are of sessions that were opened                                 *)
(***************************************************************************)
UsersKept == \A s \in Sessions : family[s].user # Nobody => family'[s].user = family[s].user

\* A session that was opened has a generation, and stays its user's.
LEMMA FamilyKeeps ==
  ASSUME TypeOK, Turns, FamilyShape, TokensIssued, Next
  PROVE  FamilyShape' /\ UsersKept
<1>1. CASE \E t \in Tabs : ServeRefresh(t) \/ ServeVerify(t) \/ ServeLogout(t)
  BY <1>1, ServeEffect DEF UsersKept
<1>2. CASE ~(\E t \in Tabs : ServeRefresh(t) \/ ServeVerify(t) \/ ServeLogout(t))
  <2>1. UNCHANGED family
    BY <1>2 DEF Next, Age, Request, CallStep, Serve, Receive, GiveUp, ResendAtOnce,
       JoinRefresh, Disconnect,
       CommandStep, Restore, LogoutCommand, TakeLock, RefreshEnds, LoginEnds, LogoutEnds, Logout, Reload, Login, server
  <2> QED
    BY <2>1 DEF FamilyShape, UsersKept
<1> QED
  BY <1>1, <1>2

\* A session that was opened stays its user's.
LEMMA IssuedKept ==
  ASSUME TypeOK, family' \in Families, UsersKept, NEW token \in Holder, Issued(token)
  PROVE  /\ token = NoToken \/ family'[token[1]].user # Nobody
         /\ UserOf(family', token) = UserOf(family, token)
<1>1. CASE token = NoToken
  BY <1>1, UserOfType DEF TypeOK
<1>2. CASE token # NoToken
  <2>1. token \in Tokens /\ token[1] \in Sessions
    BY <1>2, HeldToken
  <2>2. family[token[1]].user # Nobody
    BY <1>2 DEF Issued
  <2> QED
    BY <2>1, <2>2 DEF UsersKept, UserOf
<1> QED
  BY <1>1, <1>2

LEMMA ShownKept ==
  ASSUME TypeOK, TokensIssued, family' \in Families, UsersKept
  PROVE  /\ \A t \in Tabs : UserOf(family', tab[t].session) = Shown(t)
         /\ \A c \in Calls : UserOf(family', call[c].token) = UserOf(family, call[c].token)
  BY Typed, IssuedKept DEF TokensIssued, Shown

\* The tokens a step moves are those it found, but for the API's answer.
LEMMA AnswerIssued ==
  ASSUME TypeOK, Turns, FamilyShape, TokensIssued, NEW t \in Tabs, ServeRefresh(t) \/ ServeVerify(t) \/ ServeLogout(t)
  PROVE  TokensIssued'
<1> USE Typed
<1>1. UNCHANGED <<cookie, tab, call>> /\ family' \in Families /\ UsersKept
  BY ServeEffect DEF ServeRefresh, ServeVerify, ServeLogout, UsersKept
<1>2. PICK token \in Holder :
        /\ command' = [command EXCEPT ![t].stage = "answered", ![t].token = token]
        /\ token = NoToken \/ (Hashed(family', token) /\ family'[token[1]].user # Nobody)
  BY ServeEffect
<1>3. \A u \in Tabs : command'[u].token = IF u = t THEN token ELSE command[u].token
  BY <1>2 DEF CommandRows
<1>4. \A h \in Holder : Issued(h) => h = NoToken \/ family'[h[1]].user # Nobody
  BY <1>1, IssuedKept
<1>5. Issued(cookie)'
  BY <1>1, <1>4 DEF TokensIssued, Issued
<1>6. \A u \in Tabs : Issued(tab[u].session)' /\ Issued(command[u].token)'
  BY <1>1, <1>2, <1>3, <1>4 DEF TokensIssued, Issued
<1>7. \A c \in Calls : Issued(call[c].token)'
  BY <1>1, <1>4 DEF TokensIssued, Issued
<1> QED
  BY <1>5, <1>6, <1>7 DEF TokensIssued

\* A command that ends hands out the token it was answered.
LEMMA EndIssued ==
  ASSUME TypeOK, Turns, FamilyShape, TokensIssued, NEW t \in Tabs, RefreshEnds(t) \/ LoginEnds(t) \/ LogoutEnds(t)
  PROVE  TokensIssued'
<1> USE Typed
<1>1. family' = family /\ Released(t)
  BY EndEffect
<1>2. Issued(NoToken) /\ NoToken \in Holder
  BY RowsMade DEF Issued
<1>3. Issued(cookie)'
  <2>1. cookie' \in {cookie, NoToken, command[t].token}
    BY EndEffect
  <2> QED
    BY <1>1, <1>2, <2>1 DEF TokensIssued, Issued
<1>4. \A u \in Tabs : command'[u].token \in {NoToken, command[u].token}
  BY <1>1 DEF Released, NoCommand
<1>5. /\ \A u \in Tabs : tab'[u].session \in {NoToken, tab[u].session, command[t].token}
      /\ \A c \in Calls : call'[c].token \in {NoToken, call[c].token, command[t].token}
  <2>1. CASE UNCHANGED call /\ (tab' = tab \/ tab' = [tab EXCEPT ![t].signingOut = FALSE])
    BY <2>1 DEF TabRows
  <2>2. ASSUME NEW s \in Holder, s # NoToken => s = command[t].token,
               \/ tab' = [tab EXCEPT ![t] = Published(t, s)]
               \/ tab' = [tab EXCEPT ![t] = [Published(t, s) EXCEPT !.signingOut = FALSE, !.cached = Nobody]],
               \/ call' = [c \in Calls |-> AfterRefresh(t, s, c)]
               \/ call' = [c \in Calls |-> Noted(t, s, c)]
        PROVE  /\ \A u \in Tabs : tab'[u].session \in {NoToken, tab[u].session, command[t].token}
               /\ \A c \in Calls : call'[c].token \in {NoToken, call[c].token, command[t].token}
    <3>1. tab[t] \in TabRows
      OBVIOUS
    <3>2. Published(t, s).session = s /\ [Published(t, s) EXCEPT !.signingOut = FALSE, !.cached = Nobody].session = s
      BY <3>1 DEF Published, TabRows
    <3>3. \A u \in Tabs : tab'[u].session \in {s, tab[u].session}
      BY <2>2, <3>2
    <3>4. ASSUME NEW c \in Calls
          PROVE  Noted(t, s, c).token = call[c].token /\ AfterRefresh(t, s, c).token \in {NoToken, s, call[c].token}
      <4>1. call[c] \in CallRows
        OBVIOUS
      <4> QED
        BY <4>1 DEF Noted, AfterRefresh, Resent, NoCall, CallRows
    <3> QED
      BY <2>2, <3>3, <3>4
  <2> QED
    BY <2>1, <2>2, EndEffect
<1> QED
  BY <1>1, <1>2, <1>3, <1>4, <1>5 DEF TokensIssued, Issued

\* A step that moves no token but the cookie into a command and a tab's own
\* into its requests.
TokensMove ==
  /\ UNCHANGED <<family, cookie>>
  /\ \A t \in Tabs : tab'[t].session \in {NoToken, tab[t].session}
  /\ \A t \in Tabs : command'[t].token \in {NoToken, command[t].token, cookie}
  /\ \A c \in Calls : call'[c].token \in {NoToken, call[c].token, tab[TabOf[c]].session}

LEMMA CallMoves ==
  ASSUME TypeOK, NEW c \in Calls, Request(c) \/ CallStep(c) \/ Disconnect(c)
  PROVE  TokensMove
<1> USE Typed
<1>1. UNCHANGED <<family, cookie>>
  BY DEF Request, CallStep, Disconnect, Serve, Receive, GiveUp, ResendAtOnce, JoinRefresh,
     server
<1>2. ASSUME NEW t \in Tabs PROVE command'[t].token \in {NoToken, command[t].token, cookie}
  <2>1. CASE JoinRefresh(c)
    <3> DEFINE new == [NoCommand EXCEPT !.kind = "refresh", !.stage = "queued"]
    <3>1. new.token = NoToken
      BY DEF NoCommand
    <3>2. command' = [command EXCEPT ![TabOf[c]] = new] \/ command' = command
      BY <2>1 DEF JoinRefresh
    <3> HIDE DEF new
    <3> QED
      BY <3>1, <3>2
  <2>2. CASE ~JoinRefresh(c)
    BY <2>2 DEF Request, CallStep, Disconnect, Serve, Receive, GiveUp, ResendAtOnce
  <2> QED
    BY <2>1, <2>2
<1>3. ASSUME NEW t \in Tabs PROVE tab'[t].session \in {NoToken, tab[t].session}
  <2>1. tab[t] \in TabRows
    OBVIOUS
  <2>2. CASE Receive(c)
    BY <2>1, <2>2 DEF Receive, TabRows
  <2>3. CASE GiveUp(c)
    <3>1. tab[TabOf[c]] \in TabRows
      OBVIOUS
    <3>2. Published(TabOf[c], NoToken).session = NoToken
      BY <3>1 DEF Published, TabRows
    <3>3. tab' = [tab EXCEPT ![TabOf[c]] = Published(TabOf[c], NoToken)] \/ tab' = tab
      BY <2>3 DEF GiveUp
    <3> QED
      BY <3>2, <3>3
  <2>4. CASE ~Receive(c) /\ ~GiveUp(c)
    BY <2>4 DEF Request, CallStep, Disconnect, Serve, ResendAtOnce, JoinRefresh
  <2> QED
    BY <2>2, <2>3, <2>4
<1>4. ASSUME NEW d \in Calls PROVE call'[d].token \in {NoToken, call[d].token, tab[TabOf[d]].session}
  <2>1. call[d] \in CallRows /\ call[c] \in CallRows
    OBVIOUS
  <2>2. CASE Request(c) \/ Disconnect(c) \/ Receive(c)
    BY <2>1, <2>2 DEF Request, Disconnect, Receive, NoCall
  <2>3. CASE Serve(c) \/ JoinRefresh(c)
    <3>1. PICK stage : call' = [call EXCEPT ![c].stage = stage]
      BY <2>3 DEF Serve, JoinRefresh
    <3>2. [call[c] EXCEPT !.stage = stage].token = call[c].token
      BY <2>1 DEF CallRows
    <3> QED
      BY <3>1, <3>2
  <2>4. CASE GiveUp(c)
    <3>1. Noted(TabOf[c], NoToken, d).token = call[d].token
      BY <2>1 DEF Noted, CallRows
    <3>2. \/ call' = [[e \in Calls |-> Noted(TabOf[c], NoToken, e)] EXCEPT ![c] = NoCall]
          \/ call' = [call EXCEPT ![c] = NoCall]
      BY <2>4 DEF GiveUp
    <3>3. NoCall.token = NoToken
      BY DEF NoCall
    <3> QED
      BY <3>1, <3>2, <3>3
  <2>5. CASE ResendAtOnce(c)
    <3>1. Resent(c, tab[TabOf[c]].session).token = tab[TabOf[c]].session
      BY <2>1 DEF Resent, CallRows
    <3> QED
      BY <2>5, <3>1 DEF ResendAtOnce
  <2> QED
    BY <2>2, <2>3, <2>4, <2>5 DEF CallStep
<1> QED
  BY <1>1, <1>2, <1>3, <1>4 DEF TokensMove

LEMMA TabMoves ==
  ASSUME TypeOK, NEW t \in Tabs, NEW u,
         Logout(t) \/ Restore(t) \/ LogoutCommand(t) \/ TakeLock(t) \/ Reload(t) \/ Login(t, u)
  PROVE  TokensMove
<1> USE Typed
<1>1. UNCHANGED <<family, cookie>>
  BY DEF Logout, Restore, LogoutCommand, TakeLock, Reload, Login, server
<1>2. ASSUME NEW s \in Tabs PROVE command'[s].token \in {NoToken, command[s].token, cookie}
  <2>1. command[s] \in CommandRows
    OBVIOUS
  <2>2. CASE Logout(t)
    BY <2>2 DEF Logout
  <2>3. CASE TakeLock(t)
    BY <2>1, <2>3 DEF TakeLock, CommandRows
  <2>4. CASE Reload(t)
    BY <2>4 DEF Reload, Released, NoCommand
  <2>5. CASE Restore(t) \/ LogoutCommand(t) \/ Login(t, u)
    BY <2>5 DEF Restore, LogoutCommand, Login, Queue, NoCommand
  <2> QED
    BY <2>2, <2>3, <2>4, <2>5
<1>3. ASSUME NEW s \in Tabs PROVE tab'[s].session \in {NoToken, tab[s].session}
  <2>1. tab[s] \in TabRows
    OBVIOUS
  <2>2. CASE Logout(t) \/ Reload(t)
    BY <2>1, <2>2 DEF Logout, Reload, FreshTab, TabRows
  <2>3. CASE ~Logout(t) /\ ~Reload(t)
    BY <2>3 DEF Restore, LogoutCommand, TakeLock, Login
  <2> QED
    BY <2>2, <2>3
<1>4. ASSUME NEW d \in Calls PROVE call'[d].token \in {NoToken, call[d].token, tab[TabOf[d]].session}
  BY DEF Logout, Restore, LogoutCommand, TakeLock, Reload, Login, NoCall
<1> QED
  BY <1>1, <1>2, <1>3, <1>4 DEF TokensMove

LEMMA IssuedKeeps ==
  ASSUME TypeOK, Turns, FamilyShape, TokensIssued, Next
  PROVE  TokensIssued'
<1> USE Typed
<1>1. CASE TokensMove
  BY <1>1 DEF TokensMove, TokensIssued, Issued
<1>2. CASE Age
  <2>1. TokensMove
    BY <1>2 DEF TokensMove, Age
  <2> QED
    BY <1>1, <2>1
<1> QED
  BY <1>1, <1>2, CallMoves, TabMoves, AnswerIssued, EndIssued DEF Next, CommandStep

-----------------------------------------------------------------------------
(***************************************************************************)
(* The cookie is current                                                   *)
(***************************************************************************)
LEMMA OneIsActive ==
  ASSUME Turns, NEW t \in Tabs, NEW u \in Tabs, Active(t), Active(u)
  PROVE  t = u
  BY DEF Turns

\* A step that neither sends, answers nor ends a command.
LEMMA CommandsRest ==
  ASSUME CookieIsCurrent, UNCHANGED <<family, cookie, lost, reused>>,
         \A t \in Tabs : command'[t] = command[t] \/ (command'[t].stage \notin {"sent", "answered"} /\ ~Active(t))
  PROVE  CookieIsCurrent'
<1>1. \A t \in Tabs : Refreshes(t)' <=> Refreshes(t)
  BY DEF Refreshes, Active
<1> QED
  BY <1>1 DEF CookieIsCurrent

LEMMA TakeIsCurrent ==
  ASSUME TypeOK, CookieIsCurrent, NEW t \in Tabs, TakeLock(t)
  PROVE  CookieIsCurrent'
<1> USE Typed
<1>1. UNCHANGED <<family, cookie, lost, reused>> /\ command[t].stage = "queued"
      /\ (\A u \in Tabs \ {t} : command'[u] = command[u])
      /\ command'[t].stage = "sent" /\ command'[t].token = cookie
  BY DEF TakeLock, server, history, CommandRows
<1>2. \A u \in Tabs : Refreshes(u)' <=> Refreshes(u)
  BY <1>1 DEF Refreshes
<1> QED
  BY <1>1, <1>2 DEF CookieIsCurrent

LEMMA ServeIsCurrent ==
  ASSUME TypeOK, Turns, FamilyShape, TokensIssued, CookieIsCurrent, NEW t \in Tabs,
         ServeRefresh(t) \/ ServeVerify(t) \/ ServeLogout(t)
  PROVE  CookieIsCurrent'
<1> USE Typed
<1> SUFFICES ASSUME ~lost PROVE CookieIsCurrent'
  BY DEF CookieIsCurrent, ServeRefresh, ServeVerify, ServeLogout, history
<1>1. command[t].stage = "sent" /\ UNCHANGED <<cookie, lost>>
  BY ServeEffect DEF ServeRefresh, ServeVerify, ServeLogout, history
<1>2. command[t].token = cookie /\ ~reused
  BY <1>1 DEF CookieIsCurrent
<1>3. \A u \in Tabs \ {t} : ~Active(u)
  BY <1>1, OneIsActive DEF Active
<1>4. cookie = NoToken \/ Hashed(family, cookie)
  <2>1. \A u \in Tabs : ~Refreshes(u)
    BY <1>1, <1>3 DEF Refreshes, Active
  <2> QED
    BY <2>1 DEF CookieIsCurrent
<1>5. PICK token \in Holder :
        /\ command' = [command EXCEPT ![t].stage = "answered", ![t].token = token]
        /\ token = NoToken \/ (Hashed(family', token) /\ family'[token[1]].user # Nobody)
  BY ServeEffect
<1>6. /\ command'[t].stage = "answered" /\ command'[t].token = token /\ command'[t].kind = command[t].kind
      /\ \A u \in Tabs \ {t} : command'[u] = command[u]
  BY <1>5 DEF CommandRows
<1>7. ~reused'
  <2>1. ~Reuses(family, cookie)
    BY <1>4, TokenParts DEF Reuses, IsOpen
  <2> QED
    BY <1>2, <2>1 DEF ServeRefresh, ServeVerify, ServeLogout, history
<1>8. \A u \in Tabs : command'[u].stage = "sent" => FALSE
  BY <1>3, <1>6 DEF Active
<1>9. \A u \in Tabs : command'[u].stage = "answered" /\ command'[u].token # NoToken => Hashed(family', command'[u].token)
  BY <1>3, <1>5, <1>6 DEF Active
<1>10. ASSUME ~Refreshes(t)' PROVE cookie = NoToken \/ Hashed(family', cookie)
  <2> SUFFICES ASSUME cookie # NoToken PROVE Hashed(family', cookie)
    OBVIOUS
  <2>1. cookie \in Tokens /\ cookie[1] \in Sessions /\ family[cookie[1]].gen = cookie[2] /\ family[cookie[1]].user # Nobody
    BY <1>4, HeldToken DEF Hashed, TokensIssued, Issued
  <2>2. family'[cookie[1]].gen = family[cookie[1]].gen
    <3>1. CASE ServeRefresh(t)
      <4>1. ~Rotates(family, cookie)
        <5>1. ASSUME Rotates(family, cookie) PROVE FALSE
          <6>1. command' = [command EXCEPT ![t].stage = "answered", ![t].token = Rotated(cookie)]
            BY <1>2, <3>1, <5>1 DEF ServeRefresh, Answered
          <6>2. Rotated(cookie) \in Tokens
            BY <5>1, RefreshedShape
          <6>3. command'[t].token = Rotated(cookie) /\ command'[t].kind = "refresh"
            BY <1>6, <3>1, <6>1 DEF ServeRefresh, CommandRows
          <6> QED
            BY <1>6, <1>10, <6>2, <6>3, TokenParts DEF Refreshes
        <5> QED
          BY <5>1
      <4>2. family' = Refreshed(family, cookie)
        BY <1>2, <3>1 DEF ServeRefresh
      <4> QED
        BY <2>1, <4>1, <4>2, RefreshedShape
    <3>2. CASE ServeVerify(t)
      <4>1. CASE UNCHANGED family
        BY <4>1
      <4>2. ASSUME NEW s \in Unopened(family), family' = Opened(family, s, command[t].user)
            PROVE  family'[cookie[1]].gen = family[cookie[1]].gen
        <5>1. command[t].user \in Users \union {Nobody}
          BY DEF CommandRows
        <5>2. family[s].user = Nobody /\ \A r \in Sessions \ {s} : Opened(family, s, command[t].user)[r] = family[r]
          BY <5>1, OpenedShape
        <5> QED
          BY <2>1, <4>2, <5>2
      <4> QED
        BY <3>2, <4>1, <4>2 DEF ServeVerify
    <3>3. CASE ServeLogout(t)
      BY <1>2, <2>1, <3>3, LoggedOutShape DEF ServeLogout
    <3> QED
      BY <3>1, <3>2, <3>3
  <2> QED
    BY <2>1, <2>2 DEF Hashed
<1> QED
  BY <1>1, <1>7, <1>8, <1>9, <1>10 DEF CookieIsCurrent

LEMMA EndIsCurrent ==
  ASSUME TypeOK, Turns, FamilyShape, TokensIssued, CookieIsCurrent, NEW t \in Tabs,
         RefreshEnds(t) \/ LoginEnds(t) \/ LogoutEnds(t)
  PROVE  CookieIsCurrent'
<1> USE Typed
<1>1. Released(t) /\ Active(t) /\ UNCHANGED <<family, reused>>
  BY EndEffect
<1>2. CASE lost'
  BY <1>2 DEF CookieIsCurrent
<1>3. CASE ~lost'
  <2>1. ~lost /\ command[t].stage = "answered" /\ (Refreshes(t) => cookie' = command[t].token)
    BY <1>3, EndEffect
  <2>2. \A u \in Tabs \ {t} : ~Active(u)
    BY <1>1, OneIsActive
  <2>3. \A u \in Tabs : ~Active(u)'
    BY <1>1, <2>2 DEF Released, Active, NoCommand
  <2>4. cookie' = NoToken \/ Hashed(family, cookie')
    <3>1. CASE cookie' = command[t].token
      BY <2>1, <3>1 DEF CookieIsCurrent
    <3>2. CASE cookie' = cookie /\ cookie' # command[t].token
      <4>1. \A u \in Tabs : ~Refreshes(u)
        BY <2>1, <2>2, <3>2 DEF Refreshes, Active
      <4> QED
        BY <2>1, <3>2, <4>1 DEF CookieIsCurrent
    <3> QED
      BY <3>1, <3>2, EndEffect
  <2> QED
    BY <1>1, <2>1, <2>3, <2>4 DEF CookieIsCurrent, Active
<1> QED
  BY <1>2, <1>3

LEMMA CookieKeeps ==
  ASSUME TypeOK, Turns, FamilyShape, TokensIssued, CookieIsCurrent, Next
  PROVE  CookieIsCurrent'
<1> USE Typed
<1>1. CASE Age \/ \E t \in Tabs : Logout(t)
  BY <1>1, CommandsRest DEF Age, Logout, server, history
<1>2. ASSUME NEW c \in Calls, Request(c) \/ CallStep(c) \/ Disconnect(c)
      PROVE  CookieIsCurrent'
  <2>1. UNCHANGED <<family, cookie, lost, reused>>
    BY <1>2 DEF Request, CallStep, Disconnect, Serve, Receive, GiveUp, ResendAtOnce,
       JoinRefresh, server, history
  <2>2. CASE JoinRefresh(c)
    <3> DEFINE new == [NoCommand EXCEPT !.kind = "refresh", !.stage = "queued"]
    <3>1. new.stage = "queued" /\ NoCommand.stage = "idle"
      BY DEF NoCommand
    <3>2. (command' = [command EXCEPT ![TabOf[c]] = new] /\ command[TabOf[c]] = NoCommand) \/ command' = command
      BY <2>2 DEF JoinRefresh
    <3> HIDE DEF new
    <3> QED
      BY <2>1, <3>1, <3>2, CommandsRest DEF Active
  <2>3. CASE ~JoinRefresh(c)
    <3>1. command' = command
      BY <1>2, <2>3 DEF Request, CallStep, Disconnect, Serve, Receive, GiveUp, ResendAtOnce
    <3> QED
      BY <2>1, <3>1, CommandsRest
  <2> QED
    BY <2>2, <2>3
<1>3. ASSUME NEW t \in Tabs, NEW u, Restore(t) \/ LogoutCommand(t) \/ Login(t, u)
      PROVE  CookieIsCurrent'
  <2>1. UNCHANGED <<family, cookie, lost, reused>>
    BY <1>3 DEF Restore, LogoutCommand, Login, server, history
  <2>2. PICK kind \in {"refresh", "verify", "logout"}, user \in {u, Nobody} : Queue(t, kind, user)
    BY <1>3 DEF Restore, LogoutCommand, Login
  <2>3. command[t].stage = "idle" /\ command'[t].stage = "queued" /\ \A v \in Tabs \ {t} : command'[v] = command[v]
    BY <2>2 DEF Queue, NoCommand
  <2> QED
    BY <2>1, <2>3, CommandsRest DEF Active
<1>4. ASSUME NEW t \in Tabs, Reload(t)
      PROVE  CookieIsCurrent'
  <2>1. CASE Active(t)
    BY <1>4, <2>1 DEF Reload, Active, CookieIsCurrent
  <2>2. CASE ~Active(t)
    <3>1. UNCHANGED <<family, cookie, reused>> /\ lost' = lost /\ command'[t].stage = "idle"
          /\ \A v \in Tabs \ {t} : command'[v] = command[v]
      BY <1>4, <2>2 DEF Reload, Active, Released, NoCommand, server, TypeOK
    <3> QED
      BY <2>2, <3>1, CommandsRest
  <2> QED
    BY <2>1, <2>2
<1> QED
  BY <1>1, <1>2, <1>3, <1>4, TakeIsCurrent, ServeIsCurrent, EndIsCurrent DEF Next, CommandStep

-----------------------------------------------------------------------------
(***************************************************************************)
(* Requests and caches follow the session                                  *)
(***************************************************************************)
\* A step in which no tab changes its session.
LEMMA SessionsRest ==
  ASSUME TypeOK, CallsFollow, CacheIsTheUsers, family' = family,
         \A t \in Tabs : tab'[t].session = tab[t].session /\ tab'[t].cached = tab[t].cached,
         \A c \in Calls : \/ call'[c].stage = "idle"
                          \/ /\ call[c].stage # "idle" /\ call'[c].author = call[c].author
                             /\ call'[c].changed = call[c].changed /\ call'[c].token = call[c].token
  PROVE  CallsFollow' /\ CacheIsTheUsers'
<1>1. \A t \in Tabs : Shown(t)' = Shown(t)
  BY DEF Shown
<1>2. CacheIsTheUsers'
  BY <1>1 DEF CacheIsTheUsers
<1>3. \A c \in Calls : TabOf[c] \in Tabs
  BY Typed
<1> QED
  BY <1>1, <1>2, <1>3 DEF CallsFollow

\* A step of the API, or of a tab's command in its queue.
LEMMA TabsRest ==
  ASSUME TypeOK, TokensIssued, CallsFollow, CacheIsTheUsers,
         family' \in Families, UsersKept, UNCHANGED <<tab, call>>
  PROVE  CallsFollow' /\ CacheIsTheUsers'
<1>1. /\ \A t \in Tabs : Shown(t)' = Shown(t)
      /\ \A c \in Calls : UserOf(family, call[c].token)' = UserOf(family, call[c].token)
  BY ShownKept DEF Shown
<1>2. \A c \in Calls : TabOf[c] \in Tabs
  BY Typed
<1> QED
  BY <1>1, <1>2 DEF CallsFollow, CacheIsTheUsers

\* A tab changes to session s.
LEMMA SessionChanges ==
  ASSUME TypeOK, CallsFollow, CacheIsTheUsers, UNCHANGED family, NEW t \in Tabs, NEW s \in Holder,
         \/ tab' = [tab EXCEPT ![t] = Published(t, s)]
         \/ tab' = [tab EXCEPT ![t] = [Published(t, s) EXCEPT !.signingOut = FALSE, !.cached = Nobody]],
         \A c \in Calls : call'[c] \in {NoCall, Noted(t, s, c), AfterRefresh(t, s, c)}
  PROVE  CallsFollow' /\ CacheIsTheUsers'
<1> USE Typed
<1> DEFINE new == UserOf(family, s)
<1>1. tab[t] \in TabRows
  OBVIOUS
<1>2. /\ Published(t, s).session = s
      /\ Published(t, s).cached = IF new = Shown(t) THEN tab[t].cached ELSE Nobody
      /\ Published(t, s) \in TabRows
  BY <1>1, PublishedRow DEF Published, TabRows
<1>3. [Published(t, s) EXCEPT !.signingOut = FALSE, !.cached = Nobody].session = s
      /\ [Published(t, s) EXCEPT !.signingOut = FALSE, !.cached = Nobody].cached = Nobody
  BY <1>2 DEF TabRows
<1>4. /\ tab'[t].session = s /\ tab'[t].cached \in {Nobody, IF new = Shown(t) THEN tab[t].cached ELSE Nobody}
      /\ \A u \in Tabs \ {t} : tab'[u] = tab[u]
  BY <1>2, <1>3
<1>5. Shown(t)' = new /\ \A u \in Tabs \ {t} : Shown(u)' = Shown(u)
  BY <1>4 DEF Shown
<1>6. CacheIsTheUsers'
  BY <1>4, <1>5 DEF CacheIsTheUsers
<1>7. ASSUME NEW c \in Calls, call'[c].stage # "idle"
      PROVE  /\ ~call'[c].changed => call'[c].author = Shown(TabOf[c])' /\ UserOf(family, call'[c].token) = call'[c].author
             /\ KindOf[c] = "upload" => UserOf(family, call'[c].token) = call'[c].author
  <2> DEFINE noted == Noted(t, s, c)
             resent == [Resent(c, s) EXCEPT !.changed = noted.changed]
  <2>1. call[c] \in CallRows /\ TabOf[c] \in Tabs
    OBVIOUS
  <2>2. /\ noted.changed = (call[c].changed \/ (call[c].stage # "idle" /\ TabOf[c] = t /\ new # Shown(t)))
        /\ noted.author = call[c].author /\ noted.token = call[c].token /\ noted.stage = call[c].stage
    BY <2>1 DEF Noted, CallRows
  <2>3. resent.changed = noted.changed /\ resent.author = call[c].author /\ resent.token = s
    BY <2>1 DEF Resent, CallRows
  <2>4. NoCall.stage = "idle"
    BY DEF NoCall
  <2> HIDE DEF noted, resent, new
  <2>5. CASE call'[c] = noted
    <3>1. call[c].stage # "idle"
      BY <1>7, <2>2, <2>5
    <3>2. /\ KindOf[c] = "upload" => UserOf(family, call[c].token) = call[c].author
          /\ ~call[c].changed => call[c].author = Shown(TabOf[c]) /\ UserOf(family, call[c].token) = call[c].author
      BY <3>1 DEF CallsFollow
    <3>3. ASSUME ~noted.changed PROVE call[c].author = Shown(TabOf[c])' /\ UserOf(family, call[c].token) = call[c].author
      <4>1. ~call[c].changed /\ (TabOf[c] = t => new = Shown(t))
        BY <2>2, <3>1, <3>3
      <4> QED
        BY <1>5, <2>1, <3>2, <4>1
    <3> QED
      BY <2>2, <2>5, <3>2, <3>3
  <2>6. CASE /\ call'[c] = resent /\ call[c].stage = "waiting" /\ TabOf[c] = t
             /\ ~(KindOf[c] = "upload" /\ noted.changed)
    <3>1. ASSUME ~noted.changed PROVE call[c].author = Shown(t)' /\ UserOf(family, s) = call[c].author
      <4>1. ~call[c].changed /\ new = Shown(t)
        BY <2>2, <2>6, <3>1
      <4>2. call[c].author = Shown(t)
        BY <2>6, <4>1 DEF CallsFollow
      <4> QED
        BY <1>5, <4>1, <4>2 DEF new
    <3> QED
      BY <2>3, <2>6, <3>1
  <2>7. \/ call'[c] = noted
        \/ /\ call'[c] = resent /\ call[c].stage = "waiting" /\ TabOf[c] = t
           /\ ~(KindOf[c] = "upload" /\ noted.changed)
    BY <1>7, <2>4 DEF AfterRefresh, noted, resent
  <2> QED
    BY <2>5, <2>6, <2>7
<1>8. CallsFollow'
  BY <1>7 DEF CallsFollow
<1> QED
  BY <1>6, <1>8

\* A request is asked, answered and sent again for the user of its session.
LEMMA CallFollows ==
  ASSUME TypeOK, CallsFollow, CacheIsTheUsers, NEW c \in Calls, Request(c) \/ CallStep(c) \/ Disconnect(c)
  PROVE  CallsFollow' /\ CacheIsTheUsers'
<1> USE Typed
<1>1. UNCHANGED family /\ TabOf[c] \in Tabs /\ call[c] \in CallRows /\ tab[TabOf[c]] \in TabRows
      /\ NoCall.stage = "idle" /\ NoToken \in Holder
  BY RowsMade DEF Request, CallStep, Disconnect, Serve, Receive, GiveUp, ResendAtOnce,
     JoinRefresh, server, NoCall
<1>2. CASE Request(c)
  <2> DEFINE new == [stage |-> "sent", author |-> Shown(TabOf[c]), changed |-> FALSE,
                     token |-> tab[TabOf[c]].session, again |-> FALSE]
  <2>1. call' = [call EXCEPT ![c] = new] /\ tab' = tab
    BY <1>2 DEF Request
  <2>2. UserOf(family, new.token) = new.author /\ new.author = Shown(TabOf[c])
    BY DEF Shown
  <2>3. CacheIsTheUsers' /\ \A u \in Tabs : Shown(u)' = Shown(u)
    BY <1>1, <2>1 DEF CacheIsTheUsers, Shown
  <2> HIDE DEF new
  <2> QED
    BY <1>1, <2>1, <2>2, <2>3 DEF CallsFollow
<1>3. CASE Serve(c) \/ JoinRefresh(c)
  <2>1. tab' = tab /\ call[c].stage = "sent"
        /\ \/ call' = [call EXCEPT ![c].stage = "done"]
           \/ call' = [call EXCEPT ![c].stage = "waiting"]
    BY <1>3 DEF Serve, JoinRefresh, Accepted, Retriable, Unauthorized
  <2>2. call'[c].author = call[c].author /\ call'[c].changed = call[c].changed /\ call'[c].token = call[c].token
    BY <1>1, <2>1 DEF CallRows
  <2>3. \A d \in Calls \ {c} : call'[d] = call[d]
    BY <2>1
  <2>4. \A d \in Calls : \/ call'[d].stage = "idle"
                         \/ /\ call[d].stage # "idle" /\ call'[d].author = call[d].author
                            /\ call'[d].changed = call[d].changed /\ call'[d].token = call[d].token
    BY <1>1, <2>1, <2>2, <2>3, RowsMade, CallTypes DEF CallRows
  <2> QED
    BY <1>1, <2>1, <2>4, SessionsRest
<1>4. CASE Disconnect(c) \/ (GiveUp(c) /\ UNCHANGED tab /\ call' = [call EXCEPT ![c] = NoCall])
  <2>1. tab' = tab /\ call' = [call EXCEPT ![c] = NoCall]
    BY <1>4 DEF Disconnect
  <2>2. \A d \in Calls : \/ call'[d].stage = "idle"
                         \/ /\ call[d].stage # "idle" /\ call'[d].author = call[d].author
                            /\ call'[d].changed = call[d].changed /\ call'[d].token = call[d].token
    BY <1>1, <2>1
  <2> QED
    BY <1>1, <2>1, <2>2, SessionsRest
<1>5. CASE Receive(c)
  <2> DEFINE answered == IF KindOf[c] = "request" /\ ~call[c].changed
                         THEN UserOf(family, call[c].token) ELSE tab[TabOf[c]].cached
  <2>1. call[c].stage = "done" /\ call' = [call EXCEPT ![c] = NoCall]
        /\ tab' = [tab EXCEPT ![TabOf[c]].cached = answered]
    BY <1>5 DEF Receive
  <2>2. \A u \in Tabs : tab'[u].session = tab[u].session /\ tab'[u].cached = IF u = TabOf[c] THEN answered ELSE tab[u].cached
    BY <1>1, <2>1 DEF TabRows
  <2>3. \A u \in Tabs : Shown(u)' = Shown(u)
    BY <1>1, <2>2 DEF Shown
  <2>4. answered # Nobody => answered = Shown(TabOf[c])
    BY <1>1, <2>1 DEF CallsFollow, CacheIsTheUsers
  <2> HIDE DEF answered
  <2>5. CacheIsTheUsers'
    BY <2>2, <2>3, <2>4 DEF CacheIsTheUsers
  <2>6. CallsFollow'
    BY <1>1, <2>1, <2>3 DEF CallsFollow
  <2> QED
    BY <2>5, <2>6
<1>6. CASE /\ GiveUp(c) /\ tab' = [tab EXCEPT ![TabOf[c]] = Published(TabOf[c], NoToken)]
           /\ call' = [[d \in Calls |-> Noted(TabOf[c], NoToken, d)] EXCEPT ![c] = NoCall]
  <2>1. \A d \in Calls : call'[d] \in {NoCall, Noted(TabOf[c], NoToken, d)}
    BY <1>6
  <2> QED
    BY <1>1, <1>6, <2>1, SessionChanges
<1>7. CASE ResendAtOnce(c)
  <2> DEFINE new == Resent(c, tab[TabOf[c]].session)
  <2>1. call' = [call EXCEPT ![c] = new] /\ tab' = tab /\ call[c].stage = "sent" /\ ~call[c].changed
        /\ KindOf[c] = "request"
    BY <1>7 DEF ResendAtOnce, Retriable, Unauthorized
  <2>2. new.token = tab[TabOf[c]].session /\ new.author = call[c].author
    BY <1>1 DEF Resent, CallRows
  <2>3. call[c].author = Shown(TabOf[c])
    BY <2>1 DEF CallsFollow
  <2>4. UserOf(family, new.token) = new.author /\ new.author = Shown(TabOf[c])
    BY <2>2, <2>3 DEF Shown
  <2>5. CacheIsTheUsers' /\ \A u \in Tabs : Shown(u)' = Shown(u)
    BY <1>1, <2>1 DEF CacheIsTheUsers, Shown
  <2> HIDE DEF new
  <2> QED
    BY <1>1, <2>1, <2>4, <2>5 DEF CallsFollow
<1>8. GiveUp(c) => \/ UNCHANGED tab /\ call' = [call EXCEPT ![c] = NoCall]
                   \/ /\ tab' = [tab EXCEPT ![TabOf[c]] = Published(TabOf[c], NoToken)]
                      /\ call' = [[d \in Calls |-> Noted(TabOf[c], NoToken, d)] EXCEPT ![c] = NoCall]
  BY DEF GiveUp
<1> QED
  BY <1>2, <1>3, <1>4, <1>5, <1>6, <1>7, <1>8 DEF CallStep

LEMMA EndFollows ==
  ASSUME TypeOK, Turns, CallsFollow, CacheIsTheUsers, NEW t \in Tabs, RefreshEnds(t) \/ LoginEnds(t) \/ LogoutEnds(t)
  PROVE  CallsFollow' /\ CacheIsTheUsers'
<1> USE Typed
<1>1. UNCHANGED family
  BY EndEffect
<1>2. CASE UNCHANGED call /\ (tab' = tab \/ tab' = [tab EXCEPT ![t].signingOut = FALSE])
  <2>1. \A u \in Tabs : tab'[u].session = tab[u].session /\ tab'[u].cached = tab[u].cached
    BY <1>2 DEF TabRows
  <2> QED
    BY <1>1, <1>2, <2>1, SessionsRest
<1>3. ASSUME NEW s \in Holder,
             \/ tab' = [tab EXCEPT ![t] = Published(t, s)]
             \/ tab' = [tab EXCEPT ![t] = [Published(t, s) EXCEPT !.signingOut = FALSE, !.cached = Nobody]],
             \/ call' = [c \in Calls |-> AfterRefresh(t, s, c)]
             \/ call' = [c \in Calls |-> Noted(t, s, c)]
      PROVE  CallsFollow' /\ CacheIsTheUsers'
  <2>1. \A c \in Calls : call'[c] \in {NoCall, Noted(t, s, c), AfterRefresh(t, s, c)}
    BY <1>3
  <2> QED
    BY <1>1, <1>3, <2>1, SessionChanges
<1> QED
  BY <1>2, <1>3, EndEffect

LEMMA TabFollows ==
  ASSUME TypeOK, CallsFollow, CacheIsTheUsers, NEW t \in Tabs, Logout(t) \/ Reload(t)
  PROVE  CallsFollow' /\ CacheIsTheUsers'
<1> USE Typed
<1>1. UNCHANGED family /\ tab[t] \in TabRows
  BY DEF Logout, Reload, server
<1>2. CASE Logout(t)
  <2>1. \A u \in Tabs : tab'[u].session = tab[u].session /\ tab'[u].cached = tab[u].cached
    BY <1>1, <1>2 DEF Logout, TabRows
  <2>2. call' = call
    BY <1>2 DEF Logout
  <2> QED
    BY <1>1, <2>1, <2>2, SessionsRest
<1>3. CASE Reload(t)
  <2>1. tab' = [tab EXCEPT ![t] = FreshTab] /\ FreshTab.cached = Nobody /\ NoCall.stage = "idle"
        /\ \A c \in Calls : call'[c] = IF TabOf[c] = t THEN NoCall ELSE call[c]
    BY <1>3 DEF Reload, FreshTab, NoCall
  <2>2. \A u \in Tabs \ {t} : tab'[u] = tab[u] /\ Shown(u)' = Shown(u)
    BY <1>1, <2>1 DEF Shown
  <2>3. CacheIsTheUsers'
    BY <2>1, <2>2 DEF CacheIsTheUsers
  <2>4. \A c \in Calls : call'[c].stage # "idle" => TabOf[c] \in Tabs \ {t} /\ call'[c] = call[c]
    BY <2>1
  <2>5. CallsFollow'
    BY <1>1, <2>2, <2>4 DEF CallsFollow
  <2> QED
    BY <2>3, <2>5
<1> QED
  BY <1>2, <1>3

LEMMA FollowKeeps ==
  ASSUME TypeOK, FamilyShape, TokensIssued, Turns, CallsFollow, CacheIsTheUsers, Next
  PROVE  CallsFollow' /\ CacheIsTheUsers'
<1>1. family' \in Families /\ UsersKept
  BY TypesKeep, FamilyKeeps DEF TypeOK
<1>2. CASE UNCHANGED <<tab, call>>
  BY <1>1, <1>2, TabsRest
<1>3. Age => UNCHANGED <<tab, call>>
  BY DEF Age
<1>4. \A t \in Tabs : Restore(t) \/ LogoutCommand(t) \/ TakeLock(t)
                      \/ ServeRefresh(t) \/ ServeVerify(t) \/ ServeLogout(t) => UNCHANGED <<tab, call>>
  BY DEF Restore, LogoutCommand, TakeLock, ServeRefresh, ServeVerify, ServeLogout
<1>5. \A t \in Tabs, u \in Users : Login(t, u) => UNCHANGED <<tab, call>>
  BY DEF Login
<1> QED
  BY <1>2, <1>3, <1>4, <1>5, CallFollows, EndFollows, TabFollows DEF Next, CommandStep

LEMMA UploadsKeep ==
  ASSUME TypeOK, CallsFollow, UploadsRunAsTheirAuthor, Next
  PROVE  UploadsRunAsTheirAuthor'
<1>1. ASSUME NEW c \in Calls, Serve(c) PROVE UploadsRunAsTheirAuthor'
  <2>1. call[c].stage = "sent"
    BY <1>1 DEF Serve, Accepted
  <2>2. KindOf[c] = "upload" => misrun' = misrun
    BY <1>1, <2>1 DEF Serve, CallsFollow
  <2>3. misrun' = misrun \/ misrun' = misrun \union {KindOf[c]}
    BY <1>1 DEF Serve
  <2> QED
    BY <2>2, <2>3 DEF UploadsRunAsTheirAuthor
<1>2. CASE ~(\E c \in Calls : Serve(c))
  <2>1. misrun' = misrun
    BY <1>2 DEF Next, Age, Request, CallStep, Receive, GiveUp, ResendAtOnce, JoinRefresh,
       Disconnect,
       CommandStep, Restore, LogoutCommand, TakeLock, ServeRefresh, ServeVerify, ServeLogout,
       RefreshEnds, LoginEnds, LogoutEnds, Logout, Reload, Login, history
  <2> QED
    BY <2>1 DEF UploadsRunAsTheirAuthor
<1> QED
  BY <1>1, <1>2

\* The inductive invariant holds at first, and in every step.
LEMMA WebStarts == ASSUME Init PROVE WebInvariant
<1> USE RowsMade DEF Init
<1>1. TypeOK
  <2>1. family \in Families /\ aged \in [Sessions -> 0 .. MaxGen]
    BY Bounds DEF NoFamilies, Families, NoneAged
  <2>2. queue \in Seq(Tabs) /\ cookie \in Holder /\ faults \in 0 .. MaxFaults /\ misrun \subseteq {"request", "upload"}
    BY Bounds, EmptySeq
  <2>3. tab \in [Tabs -> TabRows] /\ call \in [Calls -> CallRows] /\ command \in [Tabs -> CommandRows]
    OBVIOUS
  <2>4. Parts
    BY <2>1, <2>2, <2>3 DEF Parts
  <2> QED
    BY <2>4, TypeIsParts
<1>2. FamilyShape
  BY Bounds DEF FamilyShape, NoFamilies
<1>3. TokensIssued
  BY DEF TokensIssued, Issued, FreshTab, NoCall, NoCommand
<1>4. Turns
  BY DEF Turns, Active, NoCommand
<1>5. CookieIsCurrent
  BY DEF CookieIsCurrent, NoCommand
<1>6. CallsFollow /\ CacheIsTheUsers /\ UploadsRunAsTheirAuthor
  BY DEF CallsFollow, CacheIsTheUsers, UploadsRunAsTheirAuthor, NoCall, FreshTab
<1> QED
  BY <1>1, <1>2, <1>3, <1>4, <1>5, <1>6 DEF WebInvariant

LEMMA WebKeeps == ASSUME WebInvariant, [Next]_vars PROVE WebInvariant'
<1>1. CASE Next
  <2>1. TypeOK' /\ Turns'
    BY <1>1, TypesKeep DEF WebInvariant
  <2>2. FamilyShape' /\ TokensIssued' /\ CookieIsCurrent'
    BY <1>1, FamilyKeeps, IssuedKeeps, CookieKeeps DEF WebInvariant
  <2>3. CallsFollow' /\ CacheIsTheUsers' /\ UploadsRunAsTheirAuthor'
    BY <1>1, FollowKeeps, UploadsKeep DEF WebInvariant
  <2> QED
    BY <2>1, <2>2, <2>3 DEF WebInvariant
<1>2. CASE UNCHANGED vars
  <2>1. UNCHANGED <<family, aged, cookie, queue, tab, call, command, faults, lost, reused, misrun>>
    BY <1>2 DEF vars, server, history
  <2>2. TypeOK'
    BY <2>1 DEF WebInvariant, TypeOK
  <2>3. FamilyShape' /\ TokensIssued' /\ Turns' /\ CookieIsCurrent'
    BY <2>1 DEF WebInvariant, FamilyShape, TokensIssued, Issued, Turns, Active,
       CookieIsCurrent, Refreshes
  <2>4. CallsFollow' /\ CacheIsTheUsers' /\ UploadsRunAsTheirAuthor'
    BY <2>1 DEF WebInvariant, CallsFollow, CacheIsTheUsers, UploadsRunAsTheirAuthor, Shown
  <2> QED
    BY <2>2, <2>3, <2>4 DEF WebInvariant
<1> QED
  BY <1>1, <1>2

LEMMA WebHolds == Spec => []WebInvariant
  BY WebStarts, WebKeeps, PTL DEF Spec

\* Every variable of the tabs, the browser and the API keeps its type: every token
\* held anywhere is NoToken or one the API can issue.
THEOREM WebIsTyped == Spec => []TypeOK
<1>1. WebInvariant => TypeOK
  BY DEF WebInvariant
<1> QED
  BY <1>1, WebHolds, PTL

\* Whatever another tab does to the shared cookie, a tab shows cached data of the
\* user it shows only: publish() clears the cache and a request that was under
\* way is discarded when the user changes.
THEOREM CacheBelongsToTheUser == Spec => []CacheIsTheUsers
<1>1. WebInvariant => CacheIsTheUsers
  BY DEF WebInvariant
<1> QED
  BY <1>1, WebHolds, PTL

\* refresh() takes turns under the browser's lock, so the API sees a rotated
\* token again only after a reload or a fault lost the answer with the new one.
THEOREM ReuseNeedsALoss == Spec => []ReuseOnlyAfterLoss
<1>1. WebInvariant => ReuseOnlyAfterLoss
  BY DEF WebInvariant, CookieIsCurrent, ReuseOnlyAfterLoss
<1> QED
  BY <1>1, WebHolds, PTL

\* An upload that waited for a refresh is sent for the user who chose the file or
\* not at all.
THEOREM UploadsGoInTheirAuthorsName == Spec => []UploadsRunAsTheirAuthor
<1>1. WebInvariant => UploadsRunAsTheirAuthor
  BY DEF WebInvariant
<1> QED
  BY <1>1, WebHolds, PTL
=============================================================================
