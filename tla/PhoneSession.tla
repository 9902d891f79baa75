---------------------------- MODULE PhoneSession ----------------------------
(***************************************************************************)
(* The customer's session on the phone: the token store, requests that     *)
(* refresh the session when they are answered 401, restoring the session   *)
(* at start, signing in and out, and the device's push registration that   *)
(* goes with it.  Requests run concurrently and each refreshes by itself;  *)
(* between two awaits of one of them anything else may run.                *)
(*                                                                         *)
(* The two secure-store items of a token pair are written together.        *)
(***************************************************************************)
EXTENDS SessionFamilies, FiniteSets

CONSTANTS
  Calls,       \* requests that may be under way at the same time
  MaxNatives,  \* bound: push tokens the operating system hands out
  MaxFaults    \* bound: lost answers, failed deletions, ends of the process

ASSUME PhoneAssumption ==
  IsFiniteSet(Calls) /\ MaxNatives \in Nat \ {0} /\ MaxFaults \in Nat

VARIABLES
  family,   \* the API's sessions
  aged,     \* aged[s]: generations whose access token is past its lifetime
  store,    \* secureTokenStore: the token pair, or NoToken
  status,   \* the session's status, as the screens see it
  scope,    \* sessionScope: the session whose queries are shown, 0 for none
  call,     \* call[c]: where request c is, and the token it holds
  flow,     \* the boot, sign-in or sign-out under way
  closing,  \* a clear listener waits for the push session to stop
  push,     \* the push session: its stage and the access token it captured
  native,   \* the push token of the device
  row,      \* row[n]: the API's record of push token n
  faults,   \* counted for their bound
  lost,     \* history: an answer to a refresh was lost
  overlap,  \* history: a token was presented while another call held it
  reused,   \* history: the API revoked a session for reuse
  orphan,   \* history: the process ended while the push token was registered
  crossed   \* history: the store was cleared under a refresh, or someone
            \* signed in before an earlier sign-out had finished

session == <<store, status, scope, closing>>
device == <<push, native, row, orphan>>
history == <<lost, overlap, reused, crossed>>
vars == <<family, aged, session, call, flow, device, faults, history>>

Idle == [stage |-> "idle", token |-> NoToken]
NoFlow == [kind |-> "none", stage |-> "none", token |-> NoToken]
PushOff == [stage |-> "off", access |-> NoToken]
NoRow == [user |-> Nobody, active |-> FALSE]

SignedIn == status = "authenticated"

Init ==
  /\ family = NoFamilies /\ aged = NoneAged
  /\ store = NoToken /\ status = "loading" /\ scope = 0 /\ closing = FALSE
  /\ call = [c \in Calls |-> Idle] /\ flow = NoFlow
  /\ push = PushOff /\ native = 1 /\ row = [n \in 1 .. MaxNatives |-> NoRow]
  /\ faults = 0 /\ lost = FALSE /\ overlap = FALSE /\ reused = FALSE /\ crossed = FALSE /\ orphan = FALSE

Fault == faults < MaxFaults /\ faults' = faults + 1

\* An access token's lifetime ends.
Age ==
  /\ \E s \in Sessions : aged[s] < family[s].gen /\ aged' = [aged EXCEPT ![s] = @ + 1]
  /\ UNCHANGED <<family, session, call, flow, device, faults, history>>

-----------------------------------------------------------------------------
(***************************************************************************)
(* The token store                                                         *)
(***************************************************************************)

Refreshing(c) == call[c].stage \in {"refreshing", "rotated"}

\* secureTokenStore.clear() deletes the tokens and runs its listener, which
\* waits for the push session it is the first to stop, if there is one.
Clear ==
  /\ store' = NoToken
  /\ crossed' = (crossed \/ \E c \in Calls : Refreshing(c))
  /\ IF push.stage = "off" \/ closing
     THEN status' = "unauthenticated" /\ scope' = 0 /\ UNCHANGED closing
     ELSE closing' = TRUE /\ UNCHANGED <<status, scope>>

\* PushSession.stop(): the registration under way is awaited, a registered
\* device is deactivated with the captured token, and the push token is
\* deleted whether or not that worked.
Stoppable == push.stage # "registering"

Deactivated ==
  IF /\ push.stage = "registered" /\ Authenticates(family, aged, push.access)
     /\ row[native].user = UserOf(family, push.access)
  THEN [row EXCEPT ![native].active = FALSE] ELSE row

\* Mutant: the push token is deleted after a successful deactivation only.
StopPushIfDeactivated ==
  /\ push' = PushOff
  /\ row' = Deactivated
  /\ native' = IF row' # row THEN native + 1 ELSE native
  /\ UNCHANGED orphan

StopPush ==
  /\ push' = PushOff
  /\ row' = Deactivated
  /\ native' = IF push.stage # "off" THEN native + 1 ELSE native
  /\ UNCHANGED orphan

\* The rest of the listener: drop the cache, show the sign-in screens.
CloseSession ==
  /\ closing /\ Stoppable
  /\ StopPush
  /\ closing' = FALSE /\ status' = "unauthenticated" /\ scope' = 0
  /\ UNCHANGED <<family, aged, store, call, flow, faults, history>>

-----------------------------------------------------------------------------
(***************************************************************************)
(* Requests                                                                *)
(***************************************************************************)

\* send(): the access token is read from the store, whatever it holds.
Send(c) ==
  /\ SignedIn /\ call[c] = Idle
  /\ call' = [call EXCEPT ![c] = [stage |-> "sent", token |-> store]]
  /\ UNCHANGED <<family, aged, session, flow, device, faults, history>>

Unauthorized(c) == call[c].stage = "sent" /\ ~Authenticates(family, aged, call[c].token)

\* Any answer but 401, and a request that fails on the way.
Answer(c) ==
  /\ call[c].stage = "sent" /\ ~Unauthorized(c)
  /\ call' = [call EXCEPT ![c] = Idle]
  /\ UNCHANGED <<family, aged, session, flow, device, faults, history>>

\* A request or a boot that presents t now.
Presenting(t) ==
  \/ \E c \in Calls : call[c].stage = "refreshing" /\ call[c].token = t
  \/ flow.stage = "refreshing" /\ flow.token = t

\* What t was rotated to waits to be stored.
Superseded(t) ==
  \/ \E c \in Calls : call[c].stage = "rotated" /\ call[c].token = Rotated(t)
  \/ flow.stage = "rotated" /\ flow.token = Rotated(t)

\* 401, and nothing in the store to refresh with.
AnswerWithoutStore(c) ==
  /\ Unauthorized(c) /\ store = NoToken
  /\ Clear
  /\ call' = [call EXCEPT ![c] = Idle]
  /\ UNCHANGED <<family, aged, flow, device, faults, lost, overlap, reused>>

\* 401: refreshTokens() presents the refresh token the store holds by then.
BeginRefresh(c) ==
  /\ Unauthorized(c) /\ store # NoToken
  /\ call' = [call EXCEPT ![c] = [stage |-> "refreshing", token |-> store]]
  /\ overlap' = (overlap \/ Presenting(store) \/ Superseded(store))
  /\ UNCHANGED <<family, aged, session, flow, device, faults, lost, reused, crossed>>

\* The API's answer to a presented refresh token.
Exchanged(holder) ==
  IF Rotates(family, holder.token)
  THEN [holder EXCEPT !.stage = "rotated", !.token = Rotated(holder.token)]
  ELSE [holder EXCEPT !.stage = "refused"]

Present(t) ==
  /\ family' = Refreshed(family, t)
  /\ reused' = (reused \/ Reuses(family, t))
  /\ UNCHANGED <<aged, lost, overlap, crossed>>

ServeRefresh(c) ==
  /\ call[c].stage = "refreshing"
  /\ Present(call[c].token)
  /\ call' = [call EXCEPT ![c] = Exchanged(@)]
  /\ UNCHANGED <<session, flow, device, faults>>

\* The connection fails before the API has seen the token, or after it rotated.
LoseRefresh(c) ==
  /\ Fault
  /\ \/ call[c].stage = "refreshing" /\ UNCHANGED lost
     \/ call[c].stage = "rotated" /\ lost' = TRUE
  /\ call' = [call EXCEPT ![c].stage = "refused"]
  /\ UNCHANGED <<family, aged, session, flow, device, overlap, reused, crossed>>

\* setTokens() and the second sending, whose answer ends the request.
Resend(c) ==
  /\ call[c].stage = "rotated"
  /\ store' = call[c].token
  /\ call' = [call EXCEPT ![c] = Idle]
  /\ UNCHANGED <<family, aged, status, scope, closing, flow, device, faults, history>>

\* Any error of the refresh, a failed connection too, clears the store.
GiveUp(c) ==
  /\ call[c].stage = "refused"
  /\ Clear
  /\ call' = [call EXCEPT ![c] = Idle]
  /\ UNCHANGED <<family, aged, flow, device, faults, lost, overlap, reused>>

-----------------------------------------------------------------------------
(***************************************************************************)
(* Start of the application                                                *)
(***************************************************************************)

\* restoreSession(): nothing stored, or a refresh of what is.
Boot ==
  /\ status = "loading" /\ flow = NoFlow
  /\ IF store = NoToken
     THEN status' = "unauthenticated" /\ UNCHANGED flow
     ELSE /\ flow' = [kind |-> "boot", stage |-> "refreshing", token |-> store]
          /\ UNCHANGED status
  /\ UNCHANGED <<family, aged, store, scope, closing, call, device, faults, history>>

ServeBoot ==
  /\ flow.kind = "boot" /\ flow.stage = "refreshing"
  /\ Present(flow.token)
  /\ flow' = Exchanged(flow)
  /\ UNCHANGED <<session, call, device, faults>>

LoseBoot ==
  /\ Fault /\ flow.kind = "boot"
  /\ \/ flow.stage = "refreshing" /\ UNCHANGED lost
     \/ flow.stage = "rotated" /\ lost' = TRUE
  /\ flow' = [flow EXCEPT !.stage = "refused"]
  /\ UNCHANGED <<family, aged, session, call, device, overlap, reused, crossed>>

\* Mutant: the restored pair is kept in memory only.
RestoreWithoutStoring ==
  /\ flow.kind = "boot" /\ flow.stage = "rotated"
  /\ status' = "authenticated" /\ scope' = flow.token[1]
  /\ flow' = NoFlow
  /\ UNCHANGED <<family, aged, store, closing, call, device, faults, history>>

\* The pair is stored and its session shown.
Restore ==
  /\ flow.kind = "boot" /\ flow.stage = "rotated"
  /\ store' = flow.token /\ status' = "authenticated" /\ scope' = flow.token[1]
  /\ flow' = NoFlow
  /\ UNCHANGED <<family, aged, closing, call, device, faults, history>>

BootFails ==
  /\ flow.kind = "boot" /\ flow.stage = "refused"
  /\ Clear
  /\ flow' = NoFlow
  /\ UNCHANGED <<family, aged, call, device, faults, lost, overlap, reused>>

\* The process ends: what was in memory is gone, an answer that waited too.
Kill ==
  /\ Fault /\ status # "loading"
  /\ lost' = (lost \/ flow.stage = "rotated" \/ \E c \in Calls : call[c].stage = "rotated")
  /\ call' = [c \in Calls |-> Idle] /\ flow' = NoFlow /\ push' = PushOff
  /\ status' = "loading" /\ scope' = 0 /\ closing' = FALSE
  /\ orphan' = (orphan \/ row[native].active)
  /\ UNCHANGED <<family, aged, store, native, row, overlap, reused, crossed>>

-----------------------------------------------------------------------------
(***************************************************************************)
(* Signing in and out                                                      *)
(***************************************************************************)

\* verifyOtp() opens a session of its own.
Verify(u) ==
  /\ status = "unauthenticated" /\ flow = NoFlow
  /\ \E s \in Unopened(family) :
       /\ \A r \in Unopened(family) : s <= r
       /\ family' = Opened(family, s, u)
       /\ flow' = [kind |-> "signIn", stage |-> "verified", token |-> <<s, 1>>]
  /\ UNCHANGED <<aged, session, call, device, faults, history>>

\* Mutant: the queries of the session before stay in view.
SignInKeepingScope ==
  /\ flow.stage = "verified"
  /\ store' = flow.token /\ status' = "authenticated"
  /\ crossed' = (crossed \/ closing)
  /\ flow' = NoFlow
  /\ UNCHANGED <<family, aged, scope, closing, call, device, faults, lost, overlap, reused>>

\* Push was stopped when the store was cleared, or is being stopped.
SignIn ==
  /\ flow.stage = "verified"
  /\ store' = flow.token /\ status' = "authenticated" /\ scope' = flow.token[1]
  /\ crossed' = (crossed \/ closing)
  /\ flow' = NoFlow
  /\ UNCHANGED <<family, aged, closing, call, device, faults, lost, overlap, reused>>

\* logout(): push first, then the refresh token the store holds by then.
Logout ==
  /\ SignedIn /\ flow = NoFlow /\ ~closing /\ Stoppable
  /\ StopPush
  /\ flow' = [kind |-> "logout", stage |-> "signingOut", token |-> store]
  /\ UNCHANGED <<family, aged, session, call, faults, history>>

\* The API ends the session, or the call fails; the store is cleared anyway.
LogoutEnds ==
  /\ flow.kind = "logout"
  /\ \/ family' = LoggedOut(family, flow.token) /\ UNCHANGED faults
     \/ Fault /\ UNCHANGED family
  /\ Clear
  /\ flow' = NoFlow
  /\ UNCHANGED <<aged, call, device, lost, overlap, reused>>

-----------------------------------------------------------------------------
(***************************************************************************)
(* Push registration                                                       *)
(***************************************************************************)

\* PushProvider starts a push session for the session shown; register() takes
\* the access token from the store.
StartPush ==
  /\ SignedIn /\ flow = NoFlow /\ ~closing /\ push.stage = "off" /\ native < MaxNatives
  /\ push' = IF store = NoToken THEN [stage |-> "failed", access |-> NoToken]
             ELSE [stage |-> "registering", access |-> store]
  /\ UNCHANGED <<family, aged, session, call, flow, native, row, orphan, faults, history>>

\* The API gives the push token to the access token's user; the answer may be
\* lost afterwards.
ServeRegister ==
  /\ push.stage = "registering"
  /\ IF Authenticates(family, aged, push.access)
     THEN /\ row' = [row EXCEPT ![native] =
               [user |-> UserOf(family, push.access), active |-> TRUE]]
          /\ orphan' = FALSE
          /\ \/ push' = [push EXCEPT !.stage = "registered"] /\ UNCHANGED faults
             \/ Fault /\ push' = [push EXCEPT !.stage = "failed"]
     ELSE push' = [push EXCEPT !.stage = "failed"] /\ UNCHANGED <<row, orphan, faults>>
  /\ UNCHANGED <<family, aged, session, call, flow, native, history>>

\* The application comes to the foreground: the push session is replaced.
Foreground ==
  /\ SignedIn /\ push.stage \in {"registered", "failed"}
  /\ StopPush
  /\ UNCHANGED <<family, aged, session, call, flow, faults, history>>

-----------------------------------------------------------------------------
CallStep(c) ==
  \/ Answer(c) \/ AnswerWithoutStore(c) \/ BeginRefresh(c)
  \/ ServeRefresh(c) \/ Resend(c) \/ GiveUp(c)

FlowStep ==
  \/ Boot \/ ServeBoot \/ Restore \/ BootFails
  \/ SignIn \/ LogoutEnds \/ CloseSession \/ ServeRegister

Next ==
  \/ Age \/ FlowStep \/ LoseBoot \/ Kill \/ Logout \/ StartPush \/ Foreground
  \/ \E u \in Users : Verify(u)
  \/ \E c \in Calls : Send(c) \/ CallStep(c) \/ LoseRefresh(c)

Spec == Init /\ [][Next]_vars

-----------------------------------------------------------------------------
(***************************************************************************)
(* Properties                                                              *)
(***************************************************************************)

Holder == {NoToken} \union Tokens

TypeOK ==
  /\ family \in Families /\ aged \in [Sessions -> 0 .. MaxGen]
  /\ store \in Holder
  /\ status \in {"loading", "unauthenticated", "authenticated"}
  /\ scope \in Sessions \union {0} /\ closing \in BOOLEAN
  /\ call \in [Calls -> [stage: {"idle", "sent", "refreshing", "rotated", "refused"}, token: Holder]]
  /\ flow \in [kind: {"none", "boot", "signIn", "logout"},
               stage: {"none", "refreshing", "rotated", "refused", "verified", "signingOut"},
               token: Holder]
  /\ push \in [stage: {"off", "registering", "registered", "failed"}, access: Holder]
  /\ native \in 1 .. MaxNatives
  /\ row \in [1 .. MaxNatives -> [user: Users \union {Nobody}, active: BOOLEAN]]
  /\ faults \in 0 .. MaxFaults
  /\ {lost, overlap, reused, crossed, orphan} \subseteq BOOLEAN

\* The API revokes a session for reuse only if two refreshes of it were under
\* way at once or the answer to one was lost: requests alone, one refresh at a
\* time, never end a session (client.ts, refresh()).
ReuseHasACause == reused => overlap \/ lost

\* Whoever is shown as signed in has his own session in the store, and nobody
\* has one after a sign-out, unless a refresh was under way when the store was
\* cleared: its answer is stored whoever is signed in by then.
StoreFollowsScreens ==
  crossed \/
  /\ SignedIn /\ store # NoToken => store[1] = scope
  /\ status = "unauthenticated" => store = NoToken

\* Until the next registration, the push token of a phone that nobody is
\* signed in on belongs to nobody, whatever failed, unless the process ended
\* while the token was registered and never got to register it again.
PushIsNobodys ==
  status = "unauthenticated" /\ push.stage = "off" => ~row[native].active \/ orphan
=============================================================================
